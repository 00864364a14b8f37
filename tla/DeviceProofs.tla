---------------------------- MODULE DeviceProofs ----------------------------
(***************************************************************************)
(* Theorems about the devices and what is built on them: the input of the  *)
(* terminal, remote files, the SD card, the syntactic name space, the      *)
(* lexical analyser and the shell; for any number of processes, files,     *)
(* names and lines, all sizes and every interleaving.                      *)
(***************************************************************************)
EXTENDS Tty, RemoteFiles, Sdmc, NameSpace, Lexan, Shell, SchedProofs

-----------------------------------------------------------------------------
(***************************************************************************)
(* The input of the terminal driver.  The counts that the semaphore, a     *)
(* reader that was let through and the line being typed lay claim to       *)
(* never exceed what the ring holds.                                       *)
(***************************************************************************)

(* The characters s lie in the ring b of m from h to t.                    *)
TyRing(b, h, t, s, m) ==
  /\ h \in 0 .. m - 1 /\ t \in 0 .. m - 1 /\ Len(s) \in 0 .. m
  /\ t = (h + Len(s)) % m
  /\ \A i \in 1 .. Len(s) : b[(h + i - 1) % m] = s[i]

(* The i-th place behind h. *)
LEMMA Place ==
  ASSUME NEW m \in Nat \ {0}, NEW h \in 0 .. m - 1, NEW i \in 1 .. m
  PROVE  /\ (h + i - 1) % m = IF h + i - 1 < m THEN h + i - 1 ELSE h + i - 1 - m
         /\ (h + i - 1) % m \in 0 .. m - 1
<1>1. PICK j \in 0 .. m - 1 : j = i - 1 /\ h + j = h + i - 1
  OBVIOUS
<1>2. j \in 0 .. m
  BY <1>1
<1>3. (h + j) % m = IF h + j < m THEN h + j ELSE h + j - m
  BY <1>2, RingModulo
<1>4. (IF h + j < m THEN h + j ELSE h + j - m) \in 0 .. m - 1
  BY <1>1
<1> QED BY <1>1, <1>3, <1>4

LEMMA WrapPlace ==
  ASSUME NEW m \in Nat \ {0}, NEW t \in 0 .. m - 1
  PROVE  Wrap(t + 1, m) \in 0 .. m - 1 /\ Wrap(t + 1, m) = IF t + 1 < m THEN t + 1 ELSE 0
BY DEF Wrap

LEMMA RingStores ==
  ASSUME NEW S, NEW m \in Nat \ {0}, NEW b \in [0 .. m - 1 -> S], NEW h, NEW t, NEW s \in Seq(S),
         TyRing(b, h, t, s, m), Len(s) < m, NEW e \in S
  PROVE  TyRing([b EXCEPT ![t] = e], h, Wrap(t + 1, m), Append(s, e), m)
<1>1. PICK n, a, d, u : n = Len(s) /\ a = Append(s, e) /\ d = [b EXCEPT ![t] = e] /\ u = Wrap(t + 1, m)
  OBVIOUS
<1>2. /\ h \in 0 .. m - 1 /\ t \in 0 .. m - 1 /\ n \in 0 .. m - 1 /\ t = (h + n) % m
      /\ \A i \in 1 .. n : b[(h + i - 1) % m] = s[i]
  BY <1>1 DEF TyRing
<1>3. Len(a) = n + 1 /\ \A i \in 1 .. n + 1 : a[i] = IF i <= n THEN s[i] ELSE e
  BY <1>1
<1>4. t = IF h + n < m THEN h + n ELSE h + n - m
  BY <1>2, RingModulo
<1>5. u = (h + (n + 1)) % m /\ u \in 0 .. m - 1
  <2>1. n + 1 \in 0 .. m
    BY <1>2
  <2>2. (h + (n + 1)) % m = IF h + (n + 1) < m THEN h + (n + 1) ELSE h + (n + 1) - m
    BY <1>2, <2>1, RingModulo
  <2>3. u \in 0 .. m - 1 /\ u = IF t + 1 < m THEN t + 1 ELSE 0
    BY <1>1, <1>2, WrapPlace
  <2> QED BY <1>2, <1>4, <2>2, <2>3
<1>6. ASSUME NEW i \in 1 .. n + 1 PROVE d[(h + i - 1) % m] = a[i]
  <2>1. PICK x : x = (h + i - 1) % m
    OBVIOUS
  <2>2. x = (IF h + i - 1 < m THEN h + i - 1 ELSE h + i - 1 - m) /\ x \in 0 .. m - 1
    <3>1. i \in 1 .. m
      BY <1>2
    <3> QED BY <1>2, <2>1, <3>1, Place
  <2>3. x = t <=> i = n + 1
    <3>1. i \in Int /\ n \in Int /\ h \in Int /\ 0 <= h /\ h < m /\ 1 <= i /\ i <= n + 1 /\ n < m
      BY <1>2
    <3>2. CASE h + n < m
      BY <1>4, <2>2, <3>1, <3>2
    <3>3. CASE ~(h + n < m) /\ h + i - 1 < m
      BY <1>4, <2>2, <3>1, <3>3
    <3>4. CASE ~(h + n < m) /\ ~(h + i - 1 < m)
      BY <1>4, <2>2, <3>1, <3>4
    <3> QED BY <3>2, <3>3, <3>4
  <2>4. d[x] = IF x = t THEN e ELSE b[x]
    BY <1>1, <2>2
  <2>5. i # n + 1 => i \in 1 .. n
    BY <1>2
  <2>6. CASE i = n + 1
    <3>1. d[x] = e /\ a[i] = e
      BY <1>2, <1>3, <2>3, <2>4, <2>6
    <3> QED BY <2>1, <3>1
  <2>7. CASE i # n + 1
    <3>1. d[x] = b[x] /\ i \in 1 .. n
      BY <2>3, <2>4, <2>5, <2>7
    <3>2. b[x] = s[i]
      BY <1>2, <2>1, <3>1
    <3>3. a[i] = s[i]
      BY <1>3, <3>1
    <3> QED BY <2>1, <3>1, <3>2, <3>3
  <2> QED BY <2>6, <2>7
<1>7. n + 1 \in 0 .. m
  BY <1>2
<1>8. TyRing(d, h, u, a, m)
  BY <1>2, <1>3, <1>5, <1>6, <1>7 DEF TyRing
<1> QED BY <1>1, <1>8

(* A place n further on, and a place behind that. *)
LEMMA Further ==
  ASSUME NEW m \in Nat \ {0}, NEW h \in 0 .. m - 1, NEW n \in 0 .. m, NEW g,
         g = IF h + n < m THEN h + n ELSE h + n - m, NEW i \in Int
  PROVE  /\ g \in 0 .. m - 1
         /\ g + i = IF h + n < m THEN h + (n + i) ELSE h + (n + i) - m
<1>1. CASE h + n < m
  <2>1. g = h + n
    BY <1>1
  <2>2. g \in 0 .. m - 1 /\ g + i = h + (n + i)
    BY ONLY <2>1, <1>1, m \in Nat \ {0}, h \in 0 .. m - 1, n \in 0 .. m, i \in Int
  <2> QED BY ONLY <2>2, <1>1
<1>2. CASE ~(h + n < m)
  <2>1. g = h + n - m
    BY <1>2
  <2>2. g \in 0 .. m - 1 /\ g + i = h + (n + i) - m
    BY ONLY <2>1, <1>2, m \in Nat \ {0}, h \in 0 .. m - 1, n \in 0 .. m, i \in Int
  <2> QED BY ONLY <2>2, <1>2
<1> QED BY ONLY <1>1, <1>2

(* The first n are taken; the cells that stay are as they were.            *)
LEMMA RingTakes ==
  ASSUME NEW S, NEW m \in Nat \ {0}, NEW b, NEW d, NEW h, NEW t, NEW s \in Seq(S),
         TyRing(b, h, t, s, m), NEW n \in 0 .. Len(s), NEW g, g = (h + n) % m,
         \A i \in n + 1 .. Len(s) : d[(h + i - 1) % m] = b[(h + i - 1) % m]
  PROVE  TyRing(d, g, t, SubSeq(s, n + 1, Len(s)), m)
<1>1. PICK l, a : l = Len(s) /\ a = SubSeq(s, n + 1, Len(s))
  OBVIOUS
<1>2. /\ h \in 0 .. m - 1 /\ t \in 0 .. m - 1 /\ l \in 0 .. m /\ n \in 0 .. l /\ n \in 0 .. m /\ t = (h + l) % m
      /\ \A i \in 1 .. l : b[(h + i - 1) % m] = s[i]
  BY <1>1 DEF TyRing
<1>3. Len(a) = l - n /\ \A i \in 1 .. l - n : a[i] = s[i + n]
  <2>1. l \in Nat /\ n \in Nat /\ n <= l
    BY <1>1, <1>2
  <2> QED BY ONLY s \in Seq(S), <1>1, <2>1
<1>4. g = (IF h + n < m THEN h + n ELSE h + n - m) /\ g \in 0 .. m - 1
  <2>1. g = IF h + n < m THEN h + n ELSE h + n - m
    BY <1>2, RingModulo
  <2>2. PICK i \in Int : i = 0
    OBVIOUS
  <2>3. m \in Nat \ {0} /\ h \in 0 .. m - 1 /\ n \in 0 .. m
    BY <1>2
  <2>4. g \in 0 .. m - 1
    BY ONLY <2>1, <2>2, <2>3, Further
  <2> QED BY <2>1, <2>4
<1>5. l - n \in 0 .. m
  BY <1>2
<1>6. t = (g + (l - n)) % m
  <2>1. t = IF h + l < m THEN h + l ELSE h + l - m
    BY <1>2, RingModulo
  <2>3. n \in Int /\ l \in Int /\ h \in Int /\ n <= l
    BY <1>2
  <2>4. g + (l - n) = IF h + n < m THEN h + l ELSE h + l - m
    <3>1. CASE h + n < m
      <4>1. g = h + n
        BY <1>4, <3>1
      <4>2. g + (l - n) = h + l
        BY ONLY <2>3, <4>1
      <4> QED BY ONLY <3>1, <4>2
    <3>2. CASE ~(h + n < m)
      <4>1. g = h + n - m
        BY <1>4, <3>2
      <4>2. g + (l - n) = h + l - m
        BY ONLY <2>3, <4>1, m \in Nat \ {0}
      <4> QED BY ONLY <3>2, <4>2
    <3> QED BY ONLY <3>1, <3>2
  <2>5. h + n < m \/ ~(h + l < m)
    BY <2>3
  <2>6. h + l - m < m
    BY <1>2
  <2>7. PICK v, w : v = g + (l - n) /\ w = v % m
    OBVIOUS
  <2>8. w = IF v < m THEN v ELSE v - m
    <3>1. PICK k \in 0 .. m : k = l - n
      BY <1>5
    <3>2. v = g + k
      BY <2>7, <3>1
    <3>3. (g + k) % m = IF g + k < m THEN g + k ELSE g + k - m
      BY <1>4, RingModulo
    <3> QED BY <2>7, <3>2, <3>3
  <2>9. CASE h + n < m
    <3>1. v = h + l
      BY <2>4, <2>7, <2>9
    <3>2. t = w
      BY <2>1, <2>3, <2>8, <3>1
    <3> QED BY <2>7, <3>2
  <2>10. CASE ~(h + n < m)
    <3>1. v = h + l - m /\ v < m /\ t = h + l - m
      BY <2>1, <2>4, <2>5, <2>6, <2>7, <2>10
    <3>2. t = w
      BY <2>8, <3>1
    <3> QED BY <2>7, <3>2
  <2> QED BY <2>9, <2>10
<1>7. ASSUME NEW i \in 1 .. l - n PROVE d[(g + i - 1) % m] = a[i]
  <2>1. i + n \in 1 .. l /\ i + n \in n + 1 .. l /\ i \in 1 .. m /\ i + n \in 1 .. m
    BY <1>2
  <2>2. (g + i - 1) % m = (h + (i + n) - 1) % m
    <3>1. (g + i - 1) % m = IF g + i - 1 < m THEN g + i - 1 ELSE g + i - 1 - m
      BY <1>4, <2>1, Place
    <3>2. (h + (i + n) - 1) % m = IF h + (i + n) - 1 < m THEN h + (i + n) - 1 ELSE h + (i + n) - 1 - m
      BY <1>2, <2>1, Place
    <3>3. n \in Int /\ h \in Int /\ i \in Int
      BY <1>2
    <3>4. g + i - 1 = IF h + n < m THEN h + (i + n) - 1 ELSE h + (i + n) - 1 - m
      <4>1. PICK k \in Int : k = i - 1 /\ g + k = g + i - 1 /\ h + (n + k) = h + (i + n) - 1
        BY <1>4, <3>3
      <4>2. g + k = IF h + n < m THEN h + (n + k) ELSE h + (n + k) - m
        <5>1. /\ m \in Nat \ {0} /\ h \in 0 .. m - 1 /\ n \in 0 .. m /\ k \in Int
              /\ g = IF h + n < m THEN h + n ELSE h + n - m
          BY <1>2, <1>4, <4>1
        <5> QED BY <5>1, Further
      <4> QED BY <4>1, <4>2
    <3>5. CASE h + n < m
      BY <3>1, <3>2, <3>4, <3>5
    <3>6. CASE ~(h + n < m)
      <4>1. ~(h + (i + n) - 1 < m) /\ h + (i + n) - 1 - m < m
        BY <1>2, <2>1, <3>3, <3>6
      <4> QED BY <3>1, <3>2, <3>4, <3>6, <4>1
    <3> QED BY <3>5, <3>6
  <2>3. d[(h + (i + n) - 1) % m] = b[(h + (i + n) - 1) % m]
    BY <1>1, <2>1
  <2>4. b[(h + (i + n) - 1) % m] = s[i + n]
    BY <1>2, <2>1
  <2> QED BY <1>3, <2>2, <2>3, <2>4
<1> QED BY <1>1, <1>2, <1>3, <1>4, <1>5, <1>6, <1>7 DEF TyRing

(* The last are taken back until k are left.                               *)
LEMMA RingCuts ==
  ASSUME NEW S, NEW m \in Nat \ {0}, NEW b, NEW d, NEW h, NEW t, NEW s \in Seq(S),
         TyRing(b, h, t, s, m), NEW k \in 0 .. Len(s), NEW u, u = (h + k) % m,
         \A i \in 1 .. k : d[(h + i - 1) % m] = b[(h + i - 1) % m]
  PROVE  TyRing(d, h, u, SubSeq(s, 1, k), m)
<1>1. PICK l, a : l = Len(s) /\ a = SubSeq(s, 1, k)
  OBVIOUS
<1>2. /\ h \in 0 .. m - 1 /\ l \in 0 .. m /\ k \in 0 .. l /\ k \in 0 .. m
      /\ \A i \in 1 .. l : b[(h + i - 1) % m] = s[i]
  BY <1>1 DEF TyRing
<1>3. Len(a) = k /\ \A i \in 1 .. k : a[i] = s[i] /\ i \in 1 .. l
  BY <1>1, <1>2
<1>4. u \in 0 .. m - 1
  <2>1. u = IF h + k < m THEN h + k ELSE h + k - m
    BY <1>2, RingModulo
  <2> QED BY <1>2, <2>1
<1> QED BY <1>1, <1>2, <1>3, <1>4 DEF TyRing

LEMMA PlacesApart ==
  ASSUME NEW m \in Nat \ {0}, NEW h \in 0 .. m - 1, NEW i \in 1 .. m, NEW j \in 1 .. m, i # j
  PROVE  (h + i - 1) % m # (h + j - 1) % m
<1>1. PICK x, y : x = (h + i - 1) % m /\ y = (h + j - 1) % m
  OBVIOUS
<1>2. x = IF h + i - 1 < m THEN h + i - 1 ELSE h + i - 1 - m
  BY <1>1, Place
<1>3. y = IF h + j - 1 < m THEN h + j - 1 ELSE h + j - 1 - m
  BY <1>1, Place
<1>4. x # y
  BY <1>2, <1>3
<1> QED BY <1>1, <1>4

(* c places back. *)
LEMMA Back ==
  ASSUME NEW m \in Nat \ {0}, NEW h \in 0 .. m - 1, NEW n \in 0 .. m, NEW c \in 0 .. n
  PROVE  (h + (n - c)) % m = IF ((h + n) % m) - c >= 0 THEN ((h + n) % m) - c ELSE ((h + n) % m) - c + m
<1>1. PICK k \in 0 .. m : k = n - c
  OBVIOUS
<1>2. PICK x, t : x = (h + k) % m /\ t = (h + n) % m
  OBVIOUS
<1>3. x = IF h + k < m THEN h + k ELSE h + k - m
  BY <1>2, RingModulo
<1>4. t = IF h + n < m THEN h + n ELSE h + n - m
  BY <1>2, RingModulo
<1>5. x = IF t - c >= 0 THEN t - c ELSE t - c + m
  <2>1. CASE h + n < m
    BY <1>1, <1>3, <1>4, <2>1
  <2>2. CASE ~(h + n < m) /\ h + k < m
    BY <1>1, <1>3, <1>4, <2>2
  <2>3. CASE ~(h + n < m) /\ ~(h + k < m)
    BY <1>1, <1>3, <1>4, <2>3
  <2> QED BY <2>1, <2>2, <2>3
<1> QED BY <1>1, <1>2, <1>5

-----------------------------------------------------------------------------
(* Input: its types, the semaphore with the reader, and the ring with what *)
(* is claimed of it.                                                       *)
TyCells == TtyKey \cup {"0", "nl"}
TyIn == [buf : [TtyCell(TY_IBUFLEN) -> TyCells], head : Nat, tail : Int, cursor : Int]
TyRead == [pc : {"blocked", "ready"}, for : {"read", "nextc"}, line : BOOLEAN, left : Int]
InTyped == tyin \in TyIn /\ tykept \in Seq(TyCells) /\ tyoverrun \in BOOLEAN
SemReader ==
  /\ tyisem \in Int /\ tyisem >= -1
  /\ tyreader = [pc |-> "idle"] \/ tyreader \in TyRead
  /\ tyreader.pc = "blocked" <=> tyisem < 0
Let == IF tyreader.pc = "ready" THEN 1 ELSE 0
InRing ==
  /\ TyRing(tyin.buf, tyin.head, tyin.tail, tykept, TY_IBUFLEN)
  /\ tyin.cursor \in Nat
  /\ Avail + Let + tyin.cursor <= Len(tykept)
InInv == InTyped /\ SemReader /\ (~tyoverrun => InRing)

LEMMA TySizes == TY_IBUFLEN \in Nat \ {0} /\ TY_OBUFLEN \in Nat \ {0} /\ TY_EBUFLEN \in Nat \ {0}
                 /\ UART_FIFO_SIZE \in Nat \ {0} /\ UART_FIFO_SIZE <= TY_OBUFLEN
BY TtyAssumption

LEMMA AvailLet ==
  ASSUME SemReader
  PROVE  /\ Avail \in Nat /\ Avail = (IF tyisem < 0 THEN 0 ELSE tyisem) /\ Let \in {0, 1}
         /\ tyreader.pc \in {"idle", "blocked", "ready"}
         /\ tyreader.pc # "idle" => tyreader \in TyRead
<1>1. Avail \in Nat /\ Avail = (IF tyisem < 0 THEN 0 ELSE tyisem) /\ Let \in {0, 1}
  BY DEF SemReader, Avail, Let
<1>2. CASE tyreader = [pc |-> "idle"]
  <2>1. tyreader.pc = "idle"
    BY <1>2
  <2> QED BY <1>1, <2>1
<1>3. CASE tyreader \in TyRead
  <2>1. tyreader.pc \in {"blocked", "ready"}
    BY <1>3 DEF TyRead
  <2> QED BY <1>1, <1>3, <2>1
<1> QED BY <1>2, <1>3 DEF SemReader

LEMMA InitInInv == TtyInit => InInv
<1> SUFFICES ASSUME TtyInit PROVE InInv
  OBVIOUS
<1>1. PICK b, e, z : b = [i \in TtyCell(TY_IBUFLEN) |-> "0"] /\ e = <<>> /\ z = 0
  OBVIOUS
<1>2. b \in [TtyCell(TY_IBUFLEN) -> TyCells] /\ e \in Seq(TyCells) /\ Len(e) = 0
  BY <1>1 DEF TyCells
<1>3. tyin = [buf |-> b, head |-> z, tail |-> z, cursor |-> z] /\ tykept = e /\ tyoverrun = FALSE /\ tyisem = 0
      /\ tyreader = [pc |-> "idle"]
  BY <1>1 DEF TtyInit
<1>4. tyin \in TyIn /\ tyin.buf = b /\ tyin.head = z /\ tyin.tail = z /\ tyin.cursor = z
  <2>1. z \in Nat /\ z \in Int
    BY <1>1
  <2> QED BY <1>2, <1>3, <2>1 DEF TyIn
<1>5. tyreader.pc = "idle"
  BY <1>3
<1>6. SemReader
  BY <1>3, <1>5 DEF SemReader
<1>7. Avail = 0 /\ Let = 0
  BY <1>3, <1>5 DEF Avail, Let
<1>8. TyRing(b, z, z, e, TY_IBUFLEN)
  <2>1. PICK m \in Nat \ {0} : m = TY_IBUFLEN
    BY TySizes
  <2>2. (z + z) % m = z
    <3>1. z \in 0 .. m - 1 /\ z \in 0 .. m
      BY <1>1, <2>1
    <3>2. (z + z) % m = IF z + z < m THEN z + z ELSE z + z - m
      BY <3>1, RingModulo
    <3> QED BY <1>1, <2>1, <3>2
  <2> QED BY <1>1, <1>2, <2>1, <2>2 DEF TyRing
<1>9. InTyped
  BY <1>2, <1>3, <1>4 DEF InTyped
<1>10. InRing
  <2>1. TyRing(tyin.buf, tyin.head, tyin.tail, tykept, TY_IBUFLEN)
    BY <1>3, <1>4, <1>8
  <2>2. tyin.cursor = 0 /\ Len(tykept) = 0
    BY <1>1, <1>2, <1>3, <1>4
  <2> QED BY <1>7, <2>1, <2>2 DEF InRing
<1> QED BY <1>6, <1>9, <1>10 DEF InInv

LEMMA InKilled ==
  ASSUME NEW x \in TyIn, NEW h \in Nat, NEW t \in Int
  PROVE  [x EXCEPT !.tail = t, !.cursor = 0, !.head = h]
         = [buf |-> x.buf, head |-> h, tail |-> t, cursor |-> 0]
<1>1. PICK b \in [TtyCell(TY_IBUFLEN) -> TyCells], g \in Nat, u \in Int, e \in Int :
        x = [buf |-> b, head |-> g, tail |-> u, cursor |-> e]
  BY DEF TyIn
<1>2. PICK y : y = [x EXCEPT !.tail = t]
  OBVIOUS
<1>3. y = [buf |-> b, head |-> g, tail |-> t, cursor |-> e]
  BY <1>1, <1>2
<1>4. PICK z : z = [y EXCEPT !.cursor = 0]
  OBVIOUS
<1>5. z = [buf |-> b, head |-> g, tail |-> t, cursor |-> 0]
  BY <1>3, <1>4
<1>6. [z EXCEPT !.head = h] = [buf |-> b, head |-> h, tail |-> t, cursor |-> 0]
  BY <1>5
<1>7. x.buf = b /\ x.head = g
  BY <1>1
<1> QED BY <1>2, <1>4, <1>6, <1>7

LEMMA InErased ==
  ASSUME NEW x \in TyIn, NEW t \in Int, NEW c \in Int, NEW d \in [TtyCell(TY_IBUFLEN) -> TyCells]
  PROVE  [x EXCEPT !.tail = t, !.cursor = c, !.buf = d]
         = [buf |-> d, head |-> x.head, tail |-> t, cursor |-> c]
<1>1. PICK b \in [TtyCell(TY_IBUFLEN) -> TyCells], g \in Nat, u \in Int, e \in Int :
        x = [buf |-> b, head |-> g, tail |-> u, cursor |-> e]
  BY DEF TyIn
<1>2. PICK y : y = [x EXCEPT !.tail = t]
  OBVIOUS
<1>3. y = [buf |-> b, head |-> g, tail |-> t, cursor |-> e]
  BY <1>1, <1>2
<1>4. PICK z : z = [y EXCEPT !.cursor = c]
  OBVIOUS
<1>5. z = [buf |-> b, head |-> g, tail |-> t, cursor |-> c]
  BY <1>3, <1>4
<1>6. [z EXCEPT !.buf = d] = [buf |-> d, head |-> g, tail |-> t, cursor |-> c]
  BY <1>5
<1>7. x.buf = b /\ x.head = g
  BY <1>1
<1> QED BY <1>2, <1>4, <1>6, <1>7

(* A character is stored behind the others, or the ring is overrun.        *)
LEMMA CharStored ==
  ASSUME InInv, ~tyoverrun, NEW ch \in TyCells, NEW u \in {Next1, Wrapped}, NEW c \in Int, Stores(ch, u, c)
  PROVE  /\ InTyped' /\ tyin'.cursor = c /\ Len(tykept') = Len(tykept) + 1
         /\ ~tyoverrun' => TyRing(tyin'.buf, tyin'.head, tyin'.tail, tykept', TY_IBUFLEN)
<1>1. PICK m \in Nat \ {0} : m = TY_IBUFLEN
  BY TySizes
<1>2. PICK x, b, h, t, s : x = tyin /\ b = tyin.buf /\ h = tyin.head /\ t = tyin.tail /\ s = tykept
  OBVIOUS
<1>3. x \in TyIn /\ b \in [0 .. m - 1 -> TyCells] /\ h \in Nat /\ t \in Int /\ s \in Seq(TyCells) /\ TyRing(b, h, t, s, m)
  BY <1>1, <1>2 DEF InInv, InTyped, InRing, TyIn, TtyCell
<1>4. t \in 0 .. m - 1
  BY <1>3 DEF TyRing
<1>5. PICK d : d = [b EXCEPT ![t] = ch]
  OBVIOUS
<1>6. d \in [0 .. m - 1 -> TyCells] /\ Append(s, ch) \in Seq(TyCells) /\ Len(Append(s, ch)) = Len(s) + 1
  <2>1. d \in [0 .. m - 1 -> TyCells]
    BY <1>3, <1>4, <1>5
  <2>2. Append(s, ch) \in Seq(TyCells) /\ Len(Append(s, ch)) = Len(s) + 1
    BY <1>3
  <2> QED BY <2>1, <2>2
<1>7. tyin' = [x EXCEPT !.buf = d, !.tail = u, !.cursor = c] /\ tykept' = Append(s, ch)
      /\ tyoverrun' = (Len(s) >= m \/ u >= m)
  BY <1>1, <1>2, <1>5 DEF Stores
<1>8. u \in {t + 1, Wrap(t + 1, m)} /\ u \in Int
  BY <1>1, <1>2, <1>4, WrapPlace DEF Next1, Wrapped
<1>9. tyin' \in TyIn /\ tyin'.buf = d /\ tyin'.head = h /\ tyin'.tail = u /\ tyin'.cursor = c
  BY <1>1, <1>2, <1>3, <1>6, <1>7, <1>8 DEF TyIn, TtyCell
<1>10. ASSUME ~tyoverrun' PROVE TyRing(d, h, u, Append(s, ch), m)
  <2>1. Len(s) \in Nat
    BY <1>3
  <2>2. Len(s) < m /\ u < m
    <3>1. ~(Len(s) >= m \/ u >= m)
      BY <1>7, <1>10
    <3> QED BY <1>8, <2>1, <3>1
  <2>3. u = Wrap(t + 1, m)
    BY <1>4, <1>8, <2>2, WrapPlace
  <2>4. TyRing([b EXCEPT ![t] = ch], h, Wrap(t + 1, m), Append(s, ch), m)
    BY <1>3, <2>2, RingStores
  <2> QED BY <1>5, <2>3, <2>4
<1> QED BY <1>1, <1>2, <1>6, <1>7, <1>9, <1>10 DEF InTyped

(* signaln(): what is added is for the reader that waits, or is counted.   *)
LEMMA SignalKeeps ==
  ASSUME SemReader, NEW n \in Nat \ {0}, SignalInput(n)
  PROVE  SemReader' /\ Avail' + Let' = Avail + Let + n
<1>1. tyisem' = tyisem + n /\ tyisem \in Int /\ tyisem >= -1
  BY DEF SignalInput, SemReader
<1>2. CASE tyisem < 0
  <2>1. tyreader' = [tyreader EXCEPT !.pc = "ready"] /\ tyreader.pc = "blocked" /\ tyreader \in TyRead
    BY <1>2, AvailLet DEF SignalInput, SemReader
  <2>2. tyreader' \in TyRead /\ tyreader'.pc = "ready"
    BY <2>1 DEF TyRead
  <2>3. tyisem' = n - 1 /\ Avail' = n - 1 /\ Let' = 1 /\ Avail = 0 /\ Let = 0
    BY <1>1, <1>2, <2>1, <2>2 DEF Avail, Let
  <2> QED BY <2>2, <2>3 DEF SemReader
<1>3. CASE ~(tyisem < 0)
  <2>1. tyreader' = tyreader /\ tyreader.pc # "blocked"
    BY <1>3 DEF SignalInput, SemReader
  <2>2. Let' = Let /\ Avail = tyisem /\ Avail' = tyisem + n
    BY <1>1, <1>3, <2>1 DEF Avail, Let
  <2> QED BY <1>1, <1>3, <2>1, <2>2, AvailLet DEF SemReader
<1> QED BY <1>2, <1>3

LEMMA UnsignalledKeeps ==
  ASSUME SemReader, Unsignalled
  PROVE  SemReader' /\ Avail' = Avail /\ Let' = Let
BY DEF SemReader, Unsignalled, Avail, Let

(* wait(tyisem) by a reader that has used what it was let through for.     *)
LEMMA AsksKeeps ==
  ASSUME SemReader, tyisem >= 0, NEW k \in TyRead, Asks(k)
  PROVE  SemReader' /\ Avail' + Let' = Avail
<1>1. tyisem \in Int /\ tyisem' = tyisem - 1
  BY DEF SemReader, Asks
<1>2. CASE tyisem = 0
  <2>1. tyreader' = [k EXCEPT !.pc = "blocked"]
    BY <1>2 DEF Asks
  <2>2. tyreader' \in TyRead /\ tyreader'.pc = "blocked"
    BY <2>1 DEF TyRead
  <2> QED BY <1>1, <1>2, <2>2 DEF SemReader, Avail, Let
<1>3. CASE tyisem # 0
  <2>1. tyreader' = [k EXCEPT !.pc = "ready"]
    BY <1>1, <1>3 DEF Asks
  <2>2. tyreader' \in TyRead /\ tyreader'.pc = "ready"
    BY <2>1 DEF TyRead
  <2> QED BY <1>1, <1>3, <2>2 DEF SemReader, Avail, Let
<1> QED BY <1>2, <1>3

-----------------------------------------------------------------------------
(* The steps on the input. *)
LEMMA InUnmoved ==
  ASSUME InInv, UNCHANGED <<tyin, tykept, tyoverrun>>, SemReader', Avail' + Let' <= Avail + Let
  PROVE  InInv'
<1>1. InTyped' /\ (InRing => TyRing(tyin'.buf, tyin'.head, tyin'.tail, tykept', TY_IBUFLEN))
  BY DEF InInv, InTyped, InRing
<1>2. Avail \in Nat /\ Let \in {0, 1} /\ Avail' \in Nat /\ Let' \in {0, 1}
  <2>1. SemReader
    BY DEF InInv
  <2> QED BY <2>1, AvailLet DEF SemReader, Avail, Let
<1>3. ASSUME InRing PROVE InRing'
  <2>1. PICK c, n \in Int : c = tyin.cursor /\ n = Len(tykept)
    BY <1>3 DEF InInv, InTyped, InRing
  <2>2. c \in Nat /\ Avail + Let + c <= n
    BY <1>3, <2>1 DEF InRing
  <2>3. Avail' + Let' + c <= n
    <3>1. PICK w, v : w = Avail + Let /\ v = Avail' + Let'
      OBVIOUS
    <3>4. w \in Int /\ v \in Int
      BY <1>2, <3>1
    <3>2. v <= w /\ w + c <= n
      BY <2>2, <3>1
    <3>3. v + c <= n
      BY <2>1, <3>2, <3>4
    <3>5. v + c = Avail' + Let' + c
      BY <3>1
    <3> QED BY <3>3, <3>5
  <2>4. tyin'.cursor = c /\ Len(tykept') = n
    BY <2>1
  <2> QED BY <1>1, <1>3, <2>2, <2>3, <2>4 DEF InRing
<1> QED BY <1>1, <1>3 DEF InInv

LEMMA InStays == ASSUME InInv, Stays, Unsignalled PROVE InInv'
<1>1. SemReader' /\ Avail' = Avail /\ Let' = Let
  BY UnsignalledKeeps DEF InInv
<1>2. Avail \in Nat /\ Let \in {0, 1}
  BY AvailLet DEF InInv
<1> QED BY <1>1, <1>2, InUnmoved DEF Stays

LEMMA InStored ==
  ASSUME InInv, ~tyoverrun, NEW ch \in TyCells, NEW u \in {Next1, Wrapped}, NEW c \in Nat, Stores(ch, u, c),
         SemReader', Avail' + Let' + c <= Avail + Let + tyin.cursor + 1
  PROVE  InInv'
<1>1. /\ InTyped' /\ tyin'.cursor = c /\ Len(tykept') = Len(tykept) + 1
      /\ ~tyoverrun' => TyRing(tyin'.buf, tyin'.head, tyin'.tail, tykept', TY_IBUFLEN)
  BY CharStored
<1>2. PICK n, x \in Int : n = Len(tykept) /\ x = tyin.cursor /\ x \in Nat /\ Avail + Let + x <= n
  BY DEF InInv, InTyped, InRing
<1>3. Avail \in Nat /\ Let \in {0, 1}
  BY AvailLet DEF InInv
<1>4. Avail' \in Nat /\ Let' \in {0, 1}
  BY DEF SemReader, Avail, Let
<1>5. Avail' + Let' + c <= n + 1
  <2>1. PICK p, q : p = Avail + Let /\ q = Avail' + Let'
    OBVIOUS
  <2>2. p \in Nat /\ p + x <= n
    BY <1>2, <1>3, <2>1
  <2>3. q \in Nat
    <3>1. PICK r, s : r = Avail' /\ s = Let'
      OBVIOUS
    <3>2. r \in Nat /\ s \in Nat
      BY <1>4, <3>1
    <3>3. q = r + s
      BY ONLY <2>1, <3>1
    <3> QED BY ONLY <3>2, <3>3
  <2>4. q + c <= p + x + 1
    BY <1>2, <1>3, <1>4, <2>1
  <2>5. q + c <= n + 1
    BY ONLY n \in Int, x \in Int, c \in Nat, <2>2, <2>3, <2>4
  <2> QED BY <1>3, <1>4, <2>1, <2>5
<1> QED BY <1>1, <1>2, <1>5 DEF InInv, InRing

LEMMA RawInKeeps == ASSUME InInv, ~tyoverrun, NEW ch \in TtyKey, RawIn(ch) PROVE InInv'
<1>1. CASE Stays /\ Unsignalled
  BY <1>1, InStays
<1>2. CASE Stores(ch, Next1, tyin.cursor) /\ SignalInput(1)
  <2>1. SemReader' /\ Avail' + Let' = Avail + Let + 1
    BY <1>2, SignalKeeps DEF InInv
  <2>2. PICK c \in Nat : c = tyin.cursor
    BY DEF InInv, InRing
  <2>3. Avail \in Nat /\ Let \in {0, 1}
    BY AvailLet DEF InInv
  <2>4. Avail' + Let' + c <= Avail + Let + tyin.cursor + 1
    BY <2>1, <2>2, <2>3
  <2>5. ch \in TyCells /\ Stores(ch, Next1, c)
    BY <1>2, <2>2 DEF TyCells
  <2> QED BY <2>1, <2>4, <2>5, InStored
<1> QED BY <1>1, <1>2 DEF RawIn

LEMMA CbreakInKeeps == ASSUME InInv, ~tyoverrun, NEW ch \in TyCells, CbreakIn(ch) PROVE InInv'
<1>1. CASE Stays
  BY <1>1, InStays DEF CbreakIn
<1>2. CASE Stores(ch, Wrapped, tyin.cursor)
  <2>1. SemReader' /\ Avail' = Avail /\ Let' = Let
    BY UnsignalledKeeps DEF InInv, CbreakIn
  <2>2. PICK c \in Nat : c = tyin.cursor
    BY DEF InInv, InRing
  <2>3. Avail \in Nat /\ Let \in {0, 1}
    BY AvailLet DEF InInv
  <2>4. Avail' + Let' + c <= Avail + Let + tyin.cursor + 1
    BY <2>1, <2>2, <2>3
  <2>5. Stores(ch, Wrapped, c)
    BY <1>2, <2>2
  <2> QED BY <2>1, <2>4, <2>5, InStored
<1> QED BY <1>1, <1>2 DEF CbreakIn

LEMMA EndLineKeeps == ASSUME InInv, ~tyoverrun, EndLine PROVE InInv'
<1>1. PICK c \in Nat : c = tyin.cursor
  BY DEF InInv, InRing
<1>2. c + 1 \in Nat \ {0} /\ SignalInput(c + 1)
  BY <1>1 DEF EndLine
<1>3. SemReader' /\ Avail' + Let' = Avail + Let + (c + 1)
  BY <1>2, SignalKeeps DEF InInv
<1>4. Avail \in Nat /\ Let \in {0, 1}
  BY AvailLet DEF InInv
<1>5. Avail' + Let' + 0 <= Avail + Let + tyin.cursor + 1
  BY <1>1, <1>3, <1>4
<1>6. "nl" \in TyCells /\ Stores("nl", Wrapped, 0)
  BY DEF EndLine, TyCells
<1> QED BY <1>3, <1>5, <1>6, InStored

LEMMA PlainInKeeps == ASSUME InInv, ~tyoverrun, NEW ch \in TtyKey, PlainIn(ch) PROVE InInv'
<1>1. PICK c \in Nat : c = tyin.cursor
  BY DEF InInv, InRing
<1>2. Avail \in Nat /\ Let \in {0, 1} /\ ch \in TyCells
  BY AvailLet DEF InInv, TyCells
<1>3. CASE Stays /\ Unsignalled
  BY <1>3, InStays
<1>4. CASE Stores(ch, Wrapped, tyin.cursor + 1) /\ Unsignalled
  <2>1. SemReader' /\ Avail' = Avail /\ Let' = Let
    BY <1>4, UnsignalledKeeps DEF InInv
  <2>2. Avail' + Let' + (c + 1) <= Avail + Let + tyin.cursor + 1
    BY <1>1, <1>2, <2>1
  <2>3. c + 1 \in Nat /\ Stores(ch, Wrapped, c + 1)
    BY <1>1, <1>4
  <2> QED BY <1>2, <2>1, <2>2, <2>3, InStored
<1>5. CASE tyin.cursor = 0 /\ Stores(ch, Next1, 0) /\ SignalInput(1)
  <2>1. SemReader' /\ Avail' + Let' = Avail + Let + 1
    BY <1>5, SignalKeeps DEF InInv
  <2>2. Avail' + Let' + 0 <= Avail + Let + tyin.cursor + 1
    BY <1>2, <1>5, <2>1
  <2> QED BY <1>2, <1>5, <2>1, <2>2, InStored
<1> QED BY <1>3, <1>4, <1>5 DEF PlainIn

(* The line is given up, and with it nothing that was handed over.         *)
LEMMA KillLineKeeps == ASSUME InInv, ~tyoverrun, KillLine PROVE InInv'
<1>1. PICK m \in Nat \ {0} : m = TY_IBUFLEN
  BY TySizes
<1>2. PICK x, b, h, t, s : x = tyin /\ b = tyin.buf /\ h = tyin.head /\ t = tyin.tail /\ s = tykept
  OBVIOUS
<1>3. x \in TyIn /\ b \in [0 .. m - 1 -> TyCells] /\ h \in Nat /\ t \in Int /\ s \in Seq(TyCells) /\ TyRing(b, h, t, s, m)
  BY <1>1, <1>2 DEF InInv, InTyped, InRing, TyIn, TtyCell
<1>4. PICK n, c \in Nat : n = Len(s) /\ c = tyin.cursor
  BY <1>2, <1>3 DEF InInv, InRing
<1>5. Avail \in Nat /\ Let \in {0, 1} /\ Avail + Let + c <= n /\ c \in 0 .. n
  <2>1. Avail \in Nat /\ Let \in {0, 1}
    BY AvailLet DEF InInv
  <2>2. Avail + Let + c <= n
    BY <1>2, <1>4 DEF InInv, InRing
  <2>3. c <= n
    BY <1>4, <2>1, <2>2
  <2> QED BY <1>4, <2>1, <2>2, <2>3
<1>6. h \in 0 .. m - 1 /\ t \in 0 .. m - 1 /\ n \in 0 .. m /\ t = (h + n) % m
  BY <1>3, <1>4 DEF TyRing
<1>7. PICK k \in Int : k = t - c
  BY <1>3, <1>4
<1>8. PICK g \in Nat : g = IF k < 0 THEN h + m ELSE h
  BY <1>1, <1>3
<1>9. tyin' = [x EXCEPT !.tail = k, !.cursor = 0, !.head = g] /\ tykept' = SubSeq(s, 1, n - c) /\ tyoverrun' = (k < 0)
  BY <1>1, <1>2, <1>4, <1>7, <1>8 DEF KillLine
<1>10. tyin' \in TyIn /\ tyin'.buf = b /\ tyin'.head = g /\ tyin'.tail = k /\ tyin'.cursor = 0
  <2>1. x.buf = b /\ b \in [TtyCell(TY_IBUFLEN) -> TyCells] /\ 0 \in Int
    BY <1>2, <1>3 DEF TyIn
  <2>2. [x EXCEPT !.tail = k, !.cursor = 0, !.head = g] = [buf |-> b, head |-> g, tail |-> k, cursor |-> 0]
    BY <1>3, <1>7, <1>8, <2>1, InKilled
  <2>3. tyin' = [buf |-> b, head |-> g, tail |-> k, cursor |-> 0]
    BY <1>9, <2>2
  <2>4. [buf |-> b, head |-> g, tail |-> k, cursor |-> 0] \in TyIn
    BY <1>7, <1>8, <2>1 DEF TyIn
  <2> QED BY <2>3, <2>4
<1>11. SubSeq(s, 1, n - c) \in Seq(TyCells) /\ Len(SubSeq(s, 1, n - c)) = n - c
  BY <1>3, <1>4, <1>5
<1>12. SemReader' /\ Avail' = Avail /\ Let' = Let
  BY UnsignalledKeeps DEF InInv, KillLine
<1>13. ASSUME ~tyoverrun' PROVE InRing'
  <2>1. ~(k < 0)
    BY <1>9, <1>13
  <2>2. g = h /\ k >= 0
    BY <1>7, <1>8, <2>1
  <2>3. k = (h + (n - c)) % m
    <3>1. (h + (n - c)) % m = IF ((h + n) % m) - c >= 0 THEN ((h + n) % m) - c ELSE ((h + n) % m) - c + m
      BY <1>5, <1>6, Back
    <3>2. ((h + n) % m) - c = k
      BY <1>6, <1>7
    <3> QED BY <2>2, <3>1, <3>2
  <2>4. n - c \in 0 .. Len(s)
    BY <1>4, <1>5
  <2>5. TyRing(b, h, k, SubSeq(s, 1, n - c), m)
    BY <1>3, <2>3, <2>4, RingCuts
  <2>6. Avail' + Let' + 0 <= n - c
    BY <1>4, <1>5, <1>12
  <2> QED BY <1>1, <1>9, <1>10, <1>11, <2>2, <2>5, <2>6 DEF InRing
<1> QED BY <1>9, <1>10, <1>11, <1>12, <1>13 DEF InInv, InTyped

(* One character of the line is taken back and its cell cleared.           *)
LEMMA EraseOneKeeps == ASSUME InInv, ~tyoverrun, EraseOne PROVE InInv'
<1>1. CASE ~MayErase
  <2>1. Stays /\ Unsignalled
    BY <1>1 DEF EraseOne, Stays
  <2> QED BY <2>1, InStays
<1>2. CASE MayErase
  <2>1. PICK m \in Nat \ {0} : m = TY_IBUFLEN
    BY TySizes
  <2>2. PICK x, b, h, t, s : x = tyin /\ b = tyin.buf /\ h = tyin.head /\ t = tyin.tail /\ s = tykept
    OBVIOUS
  <2>3. x \in TyIn /\ b \in [0 .. m - 1 -> TyCells] /\ h \in Nat /\ t \in Int /\ s \in Seq(TyCells) /\ TyRing(b, h, t, s, m)
    BY <2>1, <2>2 DEF InInv, InTyped, InRing, TyIn, TtyCell
  <2>4. PICK n, c \in Nat : n = Len(s) /\ c = tyin.cursor /\ c > 0
    BY <1>2, <2>2, <2>3 DEF InInv, InRing, MayErase
  <2>5. Avail \in Nat /\ Let \in {0, 1} /\ Avail + Let + c <= n /\ n >= 1
    <3>1. Avail \in Nat /\ Let \in {0, 1}
      BY AvailLet DEF InInv
    <3>2. Avail + Let + c <= n
      BY <2>2, <2>4 DEF InInv, InRing
    <3>3. n >= 1
      BY <2>4, <3>1, <3>2
    <3> QED BY <3>1, <3>2, <3>3
  <2>6. h \in 0 .. m - 1 /\ t \in 0 .. m - 1 /\ n \in 0 .. m /\ t = (h + n) % m
    BY <2>3, <2>4 DEF TyRing
  <2>7. PICK u \in 0 .. m - 1 : u = IF t - 1 < 0 THEN m - 1 ELSE t - 1
    BY <2>1, <2>6
  <2>8. PICK d : d = [b EXCEPT ![u] = "0"]
    OBVIOUS
  <2>9. /\ tyin' = [x EXCEPT !.tail = u, !.cursor = c - 1, !.buf = d]
        /\ tykept' = SubSeq(s, 1, n - 1) /\ tyoverrun' = tyoverrun /\ Unsignalled
    BY <1>2, <2>1, <2>2, <2>4, <2>7, <2>8 DEF EraseOne
  <2>10. d \in [0 .. m - 1 -> TyCells]
    BY <2>3, <2>7, <2>8 DEF TyCells
  <2>11. u \in Int /\ c - 1 \in Nat
    BY <2>4, <2>7
  <2>12. tyin' \in TyIn /\ tyin'.buf = d /\ tyin'.head = h /\ tyin'.tail = u /\ tyin'.cursor = c - 1
    <3>1. x.head = h /\ d \in [TtyCell(TY_IBUFLEN) -> TyCells] /\ c - 1 \in Int
      BY <2>1, <2>2, <2>10, <2>11 DEF TtyCell
    <3>2. [x EXCEPT !.tail = u, !.cursor = c - 1, !.buf = d] = [buf |-> d, head |-> h, tail |-> u, cursor |-> c - 1]
      BY <2>3, <2>11, <3>1, InErased
    <3>3. tyin' = [buf |-> d, head |-> h, tail |-> u, cursor |-> c - 1]
      BY <2>9, <3>2
    <3>4. [buf |-> d, head |-> h, tail |-> u, cursor |-> c - 1] \in TyIn
      BY <2>3, <2>11, <3>1 DEF TyIn
    <3> QED BY <3>3, <3>4
  <2>13. SubSeq(s, 1, n - 1) \in Seq(TyCells) /\ Len(SubSeq(s, 1, n - 1)) = n - 1
    BY <2>3, <2>4, <2>5
  <2>14. SemReader' /\ Avail' = Avail /\ Let' = Let
    BY <2>9, UnsignalledKeeps DEF InInv
  <2>15. u = (h + (n - 1)) % m
    <3>1. 1 \in 0 .. n
      BY <2>4, <2>5
    <3>2. (h + (n - 1)) % m = IF ((h + n) % m) - 1 >= 0 THEN ((h + n) % m) - 1 ELSE ((h + n) % m) - 1 + m
      BY <2>6, <3>1, Back
    <3>3. (h + (n - 1)) % m = IF t - 1 >= 0 THEN t - 1 ELSE t - 1 + m
      BY <2>6, <3>2
    <3>4. t - 1 < 0 => t - 1 + m = m - 1
      BY <2>6
    <3>5. t - 1 < 0 <=> ~(t - 1 >= 0)
      BY <2>6
    <3> QED BY <2>7, <3>3, <3>4, <3>5
  <2>16. ASSUME NEW i \in 1 .. n - 1 PROVE d[(h + i - 1) % m] = b[(h + i - 1) % m]
    <3>1. i \in 1 .. m /\ n \in 1 .. m /\ i # n
      BY <2>4, <2>5, <2>6
    <3>2. (h + i - 1) % m # (h + n - 1) % m /\ (h + i - 1) % m \in 0 .. m - 1
      BY <2>6, <3>1, PlacesApart, Place
    <3>3. h + n - 1 = h + (n - 1)
      BY <2>4, <2>6
    <3> QED BY <2>3, <2>7, <2>8, <2>15, <3>2, <3>3
  <2>17. TyRing(d, h, u, SubSeq(s, 1, n - 1), m)
    <3>1. n - 1 \in 0 .. Len(s)
      BY <2>4, <2>5
    <3> QED BY <2>3, <2>15, <2>16, <3>1, RingCuts
  <2>18. Avail' + Let' + (c - 1) <= n - 1
    BY <2>4, <2>5, <2>14
  <2>19. InRing'
    BY <2>1, <2>9, <2>11, <2>12, <2>13, <2>17, <2>18 DEF InRing
  <2> QED BY <2>9, <2>12, <2>13, <2>14, <2>19 DEF InInv, InTyped
<1> QED BY <1>1, <1>2

(* The reader takes the first character, which was let through for it.     *)
LEMMA HeadTaken ==
  ASSUME InInv, ~tyoverrun, tyreader.pc = "ready", UNCHANGED tyoverrun, SemReader', Avail' + Let' = Avail,
         tyin' = [tyin EXCEPT !.head = Wrap(@ + 1, TY_IBUFLEN), !.buf[tyin.head] = "0"],
         tykept' = SubSeq(tykept, 2, Len(tykept))
  PROVE  InInv'
<1>1. PICK m \in Nat \ {0} : m = TY_IBUFLEN
  BY TySizes
<1>2. PICK x, b, h, t, s : x = tyin /\ b = tyin.buf /\ h = tyin.head /\ t = tyin.tail /\ s = tykept
  OBVIOUS
<1>3. x \in TyIn /\ b \in [0 .. m - 1 -> TyCells] /\ h \in Nat /\ t \in Int /\ s \in Seq(TyCells) /\ TyRing(b, h, t, s, m)
  BY <1>1, <1>2 DEF InInv, InTyped, InRing, TyIn, TtyCell
<1>4. PICK n, c \in Nat : n = Len(s) /\ c = tyin.cursor
  BY <1>2, <1>3 DEF InInv, InRing
<1>5. Avail \in Nat /\ Avail + 1 + c <= n /\ n >= 1
  <2>1. Avail \in Nat /\ Let = 1
    BY AvailLet DEF InInv, Let
  <2>2. Avail + Let + c <= n
    BY <1>2, <1>4 DEF InInv, InRing
  <2> QED BY <1>4, <2>1, <2>2
<1>6. h \in 0 .. m - 1 /\ t \in 0 .. m - 1 /\ n \in 0 .. m
  BY <1>3, <1>4 DEF TyRing
<1>7. PICK g \in 0 .. m - 1 : g = Wrap(h + 1, m) /\ g = IF h + 1 < m THEN h + 1 ELSE 0
  BY <1>6, WrapPlace
<1>8. PICK d : d = [b EXCEPT ![h] = "0"]
  OBVIOUS
<1>9. tyin' = [x EXCEPT !.head = g, !.buf = d] /\ tykept' = SubSeq(s, 2, n)
  BY <1>1, <1>2, <1>4, <1>7, <1>8
<1>10. d \in [0 .. m - 1 -> TyCells]
  BY <1>3, <1>6, <1>8 DEF TyCells
<1>11. tyin' \in TyIn /\ tyin'.buf = d /\ tyin'.head = g /\ tyin'.tail = t /\ tyin'.cursor = c
  <2>1. g \in Nat /\ d \in [TtyCell(TY_IBUFLEN) -> TyCells]
    BY <1>1, <1>7, <1>10 DEF TtyCell
  <2>2. PICK y : y = [x EXCEPT !.head = g]
    OBVIOUS
  <2>3. y \in TyIn /\ y.head = g /\ y.tail = t /\ y.cursor = c
    BY <1>2, <1>3, <1>4, <2>1, <2>2 DEF TyIn
  <2>4. tyin' = [y EXCEPT !.buf = d]
    BY <1>9, <2>2
  <2> QED BY <2>1, <2>3, <2>4 DEF TyIn
<1>12. SubSeq(s, 2, n) \in Seq(TyCells) /\ Len(SubSeq(s, 2, n)) = n - 1
  BY <1>3, <1>4, <1>5
<1>13. g = (h + 1) % m
  <2>1. 1 \in 0 .. m
    BY <1>1
  <2>2. (h + 1) % m = IF h + 1 < m THEN h + 1 ELSE h + 1 - m
    BY <1>6, <2>1, RingModulo
  <2> QED BY <1>6, <1>7, <2>2
<1>14. ASSUME NEW i \in 2 .. n PROVE d[(h + i - 1) % m] = b[(h + i - 1) % m]
  <2>1. i \in 1 .. m /\ 1 \in 1 .. m /\ i # 1
    BY <1>4, <1>5, <1>6
  <2>2. (h + i - 1) % m # (h + 1 - 1) % m /\ (h + i - 1) % m \in 0 .. m - 1
    BY <1>6, <2>1, PlacesApart, Place
  <2>3. (h + 1 - 1) % m = IF h + 1 - 1 < m THEN h + 1 - 1 ELSE h + 1 - 1 - m
    BY <1>6, <2>1, Place
  <2>4. (h + 1 - 1) % m = h
    BY <1>6, <2>3
  <2> QED BY <1>3, <1>6, <1>8, <2>2, <2>4
<1>15. TyRing(d, g, t, SubSeq(s, 2, n), m)
  <2>1. PICK k \in 0 .. Len(s) : k = 1
    BY <1>4, <1>5
  <2>2. g = (h + k) % m /\ \A i \in k + 1 .. Len(s) : d[(h + i - 1) % m] = b[(h + i - 1) % m]
    BY <1>4, <1>13, <1>14, <2>1
  <2>3. TyRing(d, g, t, SubSeq(s, k + 1, Len(s)), m)
    BY <1>3, <2>2, RingTakes
  <2> QED BY <1>4, <2>1, <2>3
<1>16. Avail' + Let' + c <= n - 1
  BY <1>4, <1>5
<1>17. InRing'
  BY <1>1, <1>4, <1>9, <1>11, <1>12, <1>15, <1>16 DEF InRing
<1> QED BY <1>9, <1>11, <1>12, <1>17 DEF InInv, InTyped

LEMMA ReaderTakesKeeps == ASSUME InInv, ReaderTakes PROVE InInv'
<1>1. tyreader.pc = "ready" /\ ~tyoverrun /\ UNCHANGED tyoverrun
  BY DEF ReaderTakes
<1>2. SemReader /\ tyisem \in Nat /\ tyreader \in TyRead /\ Avail = tyisem /\ Let = 1
  <2>1. SemReader
    BY DEF InInv
  <2>2. tyisem \in Nat
    BY <1>1, <2>1 DEF SemReader
  <2> QED BY <1>1, <2>1, <2>2, AvailLet DEF Let
<1>3. CASE ReaderEnds /\ tyisem' = tyisem + 1 /\ UNCHANGED <<tyin, tykept>>
  <2>1. tyreader' = [pc |-> "idle"] /\ tyreader'.pc = "idle"
    BY <1>3 DEF ReaderEnds
  <2>2. SemReader' /\ Avail' = Avail + 1 /\ Let' = 0
    BY <1>2, <1>3, <2>1 DEF SemReader, Avail, Let
  <2>3. Avail' + Let' <= Avail + Let
    BY <1>2, <2>2
  <2> QED BY <1>1, <1>3, <2>2, <2>3, InUnmoved
<1>4. CASE /\ tyin' = [tyin EXCEPT !.head = Wrap(@ + 1, TY_IBUFLEN), !.buf[tyin.head] = "0"]
           /\ tykept' = SubSeq(tykept, 2, Len(tykept))
           /\ \/ ReaderEnds /\ UNCHANGED tyisem
              \/ Asks([tyreader EXCEPT !.left = @ - 1])
  <2>1. SemReader' /\ Avail' + Let' = Avail
    <3>1. CASE ReaderEnds /\ UNCHANGED tyisem
      <4>1. tyreader' = [pc |-> "idle"] /\ tyreader'.pc = "idle"
        BY <3>1 DEF ReaderEnds
      <4> QED BY <1>2, <3>1, <4>1 DEF SemReader, Avail, Let
    <3>2. CASE Asks([tyreader EXCEPT !.left = @ - 1])
      <4>1. PICK k : k = [tyreader EXCEPT !.left = @ - 1]
        OBVIOUS
      <4>2. k \in TyRead /\ Asks(k)
        BY <1>2, <3>2, <4>1 DEF TyRead
      <4>3. tyisem >= 0
        BY <1>2
      <4> QED BY <1>2, <4>2, <4>3, AsksKeeps
    <3> QED BY <1>4, <3>1, <3>2
  <2> QED BY <1>1, <1>4, <2>1, HeadTaken
<1> QED BY <1>3, <1>4 DEF ReaderTakes

(* A reader that begins: it has no claim yet. *)
LEMMA BeginsKeeps ==
  ASSUME InInv, ReaderIdle, NEW k \in TyRead, Asks(k), UNCHANGED <<tyin, tykept, tyoverrun>>
  PROVE  InInv'
<1>1. SemReader /\ tyisem >= 0
  BY DEF InInv, SemReader, ReaderIdle
<1>2. SemReader' /\ Avail' + Let' = Avail
  BY <1>1, AsksKeeps
<1>3. Avail \in Nat /\ Let \in {0, 1}
  BY <1>1, AvailLet
<1>4. Avail' + Let' <= Avail + Let
  BY <1>2, <1>3
<1> QED BY <1>2, <1>4, InUnmoved

LEMMA ttyhandle_inKeeps == ASSUME InInv, NEW ch \in TtyKey, ttyhandle_in(ch) PROVE InInv'
<1>1. ~tyoverrun
  BY DEF ttyhandle_in
<1>2. CASE RawIn(ch)
  BY <1>1, <1>2, RawInKeeps
<1>3. CASE FlowControl(ch)
  BY <1>3, InStays DEF FlowControl
<1>4. CASE CbreakIn(IF ch = "cr" THEN "nl" ELSE ch)
  <2>1. PICK e \in TyCells : e = IF ch = "cr" THEN "nl" ELSE ch
    BY DEF TyCells
  <2> QED BY <1>1, <1>4, <2>1, CbreakInKeeps
<1>5. CASE CookedIn(ch)
  BY <1>1, <1>5, KillLineKeeps, EraseOneKeeps, EndLineKeeps, PlainInKeeps DEF CookedIn
<1> QED BY <1>2, <1>3, <1>4, <1>5 DEF ttyhandle_in

LEMMA TtyReadsKeeps == ASSUME InInv, TtyReads PROVE InInv'
<1>1. ASSUME NEW n \in {0, 2}, ttyread(n) PROVE InInv'
  <2>1. tyisem \in Int
    BY DEF InInv, SemReader
  <2>2. PICK l \in Int : Asks([pc |-> "ready", for |-> "read", line |-> tymode = "C", left |-> l])
    BY <1>1, <2>1 DEF ttyread
  <2>3. PICK k : k = [pc |-> "ready", for |-> "read", line |-> tymode = "C", left |-> l]
    OBVIOUS
  <2>4. k \in TyRead
    BY <2>3 DEF TyRead
  <2> QED BY <1>1, <2>2, <2>3, <2>4, BeginsKeeps DEF ttyread
<1>2. CASE NextChar
  <2>1. PICK k : k = [pc |-> "ready", for |-> "nextc", line |-> FALSE, left |-> 1]
    OBVIOUS
  <2>2. k \in TyRead
    BY <2>1 DEF TyRead
  <2> QED BY <1>2, <2>1, <2>2, BeginsKeeps DEF NextChar
<1>3. CASE ReaderTakes
  BY <1>3, ReaderTakesKeeps
<1>4. ASSUME NEW mode \in {"R", "K", "C"}, SetMode(mode) PROVE InInv'
  BY <1>4, InStays DEF SetMode, Stays, Unsignalled
<1> QED BY <1>1, <1>2, <1>3, <1>4 DEF TtyReads

LEMMA InInvKept == InInv /\ [TtyNext]_TtyVars => InInv'
<1> SUFFICES ASSUME InInv, [TtyNext]_TtyVars PROVE InInv'
  OBVIOUS
<1>1. CASE UNCHANGED ttyinput
  BY <1>1, InStays DEF ttyinput, Stays, Unsignalled
<1>2. CASE TtyTypes(TtyKey)
  BY <1>2, ttyhandle_inKeeps DEF TtyTypes
<1>3. CASE TtyReads
  BY <1>3, TtyReadsKeeps
<1>4. CASE SetEcho
  BY <1>4, InStays DEF SetEcho, Stays, Unsignalled
<1>5. CASE TtyWrites
  BY <1>1, <1>5 DEF TtyWrites, WriterStores, ttyputc
<1>6. CASE ttyhandle_out
  BY <1>1, <1>6 DEF ttyhandle_out
<1> QED BY <1>1, <1>2, <1>3, <1>4, <1>5, <1>6 DEF TtyNext, TtyVars

LEMMA InInvGives == InInv => TtyInputKept
<1> SUFFICES ASSUME InInv, ~tyoverrun PROVE TtyInputKept
  BY DEF TtyInputKept
<1>1. TyRing(tyin.buf, tyin.head, tyin.tail, tykept, TY_IBUFLEN) /\ tyin.cursor >= 0
      /\ Avail + Let + tyin.cursor <= Len(tykept)
  BY DEF InInv, InRing
<1>2. tyreader.pc = "blocked" <=> tyisem < 0
  BY DEF InInv, SemReader
<1>3. Len(tykept) <= TY_IBUFLEN
  BY <1>1, TySizes DEF TyRing
<1> QED BY <1>1, <1>2, <1>3 DEF TtyInputKept, TyRing, Let

(* What was typed, edited and not read lies in the input ring in order,    *)
(* until an unread character is overwritten; and neither the semaphore nor *)
(* a reader ever counts a character that the line being typed may still    *)
(* take back.                                                              *)
THEOREM TtyInputKeptAlways == TtySpec => []TtyInputKept
<1>1. InInv /\ [TtyNext]_TtyVars => InInv'
  BY InInvKept
<1>2. TtySpec => []InInv
  BY InitInInv, <1>1, PTL DEF TtySpec
<1> QED BY <1>2, InInvGives, PTL

-----------------------------------------------------------------------------
(***************************************************************************)
(* Remote files: a reply is answered for by the server's copy of the file. *)
(* The sequence numbers of the requests on their way never decrease, and   *)
(* an exchange has the greatest: what is behind a request of the exchange  *)
(* under way is that request again, so that nothing which an exchange that *)
(* was given up has left behind can undo what was acknowledged.            *)
(***************************************************************************)

RfContent == RfByte \cup {NoByte}
RfType == {"open", "read", "write", "truncate"}
RfMsg == [dev : RfDev, type : RfType, name : RfName, pos : Nat, byte : RfContent,
          mode : SUBSET {"r", "w", "o", "n"}, seq : Nat, tries : Nat, waits : BOOLEAN]
RfReply == [seq : Nat, type : RfType, status : {"ok", "error"}, byte : RfContent]
RfEntry == {RfFree} \cup [used : {TRUE}, name : RfName, pos : Nat, mode : SUBSET {"r", "w", "o", "n"}]
RfFiles == [RfName -> [RfPos -> RfContent]]

(* What a request may be: a read or write lies within the file.            *)
RfSound(m) == m \in RfMsg /\ (m.type \in {"read", "write"} => m.pos \in RfPos)
RfTyped ==
  /\ rftab \in [RfDev -> RfEntry] /\ rfseq \in Nat
  /\ rfcall = RfIdle \/ RfSound(rfcall)
  /\ rftosrv \in Seq(RfMsg) /\ \A i \in 1 .. Len(rftosrv) : RfSound(rftosrv[i])
  /\ rftoxinu \in Seq(RfReply)
  /\ rfserver \in RfFiles /\ rfsure \in RfFiles

(* Numbers grow along the way to the server, and none is ahead of rf_seq.  *)
Numbered ==
  /\ \A i \in 1 .. Len(rftosrv) : rftosrv[i].seq < rfseq
  /\ \A i, j \in 1 .. Len(rftosrv) : i < j => rftosrv[i].seq <= rftosrv[j].seq
  /\ \A i \in 1 .. Len(rftoxinu) : rftoxinu[i].seq < rfseq

(* The exchange under way is the last that began; the requests with its    *)
(* number are copies of it, what it may change is not sure, and the device *)
(* it reads or writes stays open.                                          *)
Copy(m, c) == m.type = c.type /\ m.name = c.name /\ m.pos = c.pos /\ m.byte = c.byte
Exchange ==
  rfcall # RfIdle =>
    /\ rfcall.seq + 1 = rfseq
    /\ \A i \in 1 .. Len(rftosrv) : rftosrv[i].seq = rfcall.seq => Copy(rftosrv[i], rfcall)
    /\ \A n \in RfName, p \in RfPos : Touches(rfcall, n, p) => rfsure[n][p] = NoByte
    /\ rfcall.type \in {"read", "write"} => rftab[rfcall.dev].used

SureKept == \A n \in RfName, p \in RfPos : rfsure[n][p] # NoByte => Settled(n, p, rfsure[n][p])

(* What a reply to the exchange under way says is so.                      *)
RepliesTrue ==
  rfcall # RfIdle =>
    \A i \in 1 .. Len(rftoxinu) : rftoxinu[i].seq = rfcall.seq =>
      /\ rfcall.type = "write" /\ rftoxinu[i].status = "ok" => Settled(rfcall.name, rfcall.pos, rfcall.byte)
      /\ rfcall.type = "read" => rfsure[rfcall.name][rfcall.pos] \in {NoByte, rftoxinu[i].byte}

RfInv == RfTyped /\ Numbered /\ Exchange /\ SureKept /\ RepliesTrue

LEMMA RfTail ==
  ASSUME NEW S, NEW q \in Seq(S), q # <<>>
  PROVE  /\ Tail(q) \in Seq(S) /\ Len(q) \in Nat \ {0} /\ Len(Tail(q)) = Len(q) - 1
         /\ Head(q) = q[1] /\ q[1] \in S
         /\ \A i \in 1 .. Len(Tail(q)) : i + 1 \in 1 .. Len(q) /\ Tail(q)[i] = q[i + 1]
OBVIOUS

LEMMA RfAppend ==
  ASSUME NEW S, NEW q \in Seq(S), NEW e \in S
  PROVE  /\ Append(q, e) \in Seq(S) /\ Len(q) \in Nat /\ Len(Append(q, e)) = Len(q) + 1
         /\ \A i \in 1 .. Len(q) + 1 : Append(q, e)[i] = IF i <= Len(q) THEN q[i] ELSE e
OBVIOUS

(* What holds of a byte and of all requests on their way keeps holding.    *)
LEMMA SettledStays ==
  ASSUME NEW n, NEW p, NEW x, Settled(n, p, x), rfserver'[n][p] = x,
         \A i \in 1 .. Len(rftosrv') :
            \/ \E j \in 1 .. Len(rftosrv) : rftosrv'[i] = rftosrv[j]
            \/ Touches(rftosrv'[i], n, p) => rftosrv'[i].type = "write" /\ rftosrv'[i].byte = x
  PROVE  Settled(n, p, x)'
<1>1. ASSUME NEW i \in 1 .. Len(rftosrv'), Touches(rftosrv'[i], n, p)
      PROVE  rftosrv'[i].type = "write" /\ rftosrv'[i].byte = x
  <2>1. CASE \E j \in 1 .. Len(rftosrv) : rftosrv'[i] = rftosrv[j]
    BY <1>1, <2>1 DEF Settled
  <2>2. CASE Touches(rftosrv'[i], n, p) => rftosrv'[i].type = "write" /\ rftosrv'[i].byte = x
    BY <1>1, <2>2
  <2> QED BY <2>1, <2>2
<1> QED BY <1>1 DEF Settled

LEMMA SettledSame ==
  ASSUME NEW n, NEW p, NEW x, UNCHANGED <<rfserver, rftosrv>>
  PROVE  Settled(n, p, x)' <=> Settled(n, p, x)
BY DEF Settled

LEMMA InitRfInv == RfInit => RfInv
<1> SUFFICES ASSUME RfInit PROVE RfInv
  OBVIOUS
<1>1. PICK e : e = <<>>
  OBVIOUS
<1>2. e \in Seq(RfMsg) /\ e \in Seq(RfReply) /\ Len(e) = 0
  BY <1>1
<1>3. RfTyped
  <2>1. NoFile \in [RfPos -> RfContent]
    BY DEF NoFile, RfContent
  <2>2. rfserver \in RfFiles /\ rfsure \in RfFiles
    BY <2>1 DEF RfInit, RfFiles
  <2>3. rftab \in [RfDev -> RfEntry]
    BY DEF RfInit, RfEntry
  <2> QED BY <1>1, <1>2, <2>2, <2>3 DEF RfInit, RfTyped
<1>4. SureKept
  BY DEF RfInit, SureKept, NoFile
<1>5. Numbered /\ Exchange /\ RepliesTrue
  BY <1>1, <1>2 DEF RfInit, Numbered, Exchange, RepliesTrue
<1> QED BY <1>3, <1>4, <1>5 DEF RfInv

LEMMA RfFacts ==
  ASSUME RfInv
  PROVE  /\ rftab \in [RfDev -> RfEntry] /\ rfseq \in Nat
         /\ rfcall # RfIdle => RfSound(rfcall) /\ rfcall \in RfMsg
         /\ rftosrv \in Seq(RfMsg) /\ Len(rftosrv) \in Nat /\ \A i \in 1 .. Len(rftosrv) : RfSound(rftosrv[i])
         /\ rftoxinu \in Seq(RfReply) /\ Len(rftoxinu) \in Nat
         /\ rfserver \in RfFiles /\ rfsure \in RfFiles
BY DEF RfInv, RfTyped, RfSound

LEMMA RfSeqs ==
  ASSUME RfInv
  PROVE  /\ \A i \in 1 .. Len(rftosrv) : rftosrv[i] \in RfMsg /\ rftosrv[i].seq \in Nat
         /\ \A i \in 1 .. Len(rftoxinu) : rftoxinu[i] \in RfReply /\ rftoxinu[i].seq \in Nat
<1>1. rftosrv \in Seq(RfMsg) /\ rftoxinu \in Seq(RfReply)
  BY RfFacts
<1>2. \A m \in RfMsg : m.seq \in Nat
  BY DEF RfMsg
<1>3. \A r \in RfReply : r.seq \in Nat
  BY DEF RfReply
<1> QED BY <1>1, <1>2, <1>3

(* An operation begins its exchange.                                       *)
LEMMA StartsStep ==
  ASSUME RfInv, NEW m, Starts(m), RfSound(m), m # RfIdle, m.seq = rfseq,
         m.type \in {"read", "write"} => rftab[m.dev].used,
         rfsure' \in RfFiles,
         \A n \in RfName, p \in RfPos : rfsure'[n][p] = rfsure[n][p] \/ rfsure'[n][p] = NoByte,
         \A n \in RfName, p \in RfPos : Touches(m, n, p) => rfsure'[n][p] = NoByte
  PROVE  RfInv'
<1>1. rfcall' = m /\ rfseq' = rfseq + 1 /\ UNCHANGED <<rftab, rftosrv, rftoxinu, rfserver>>
  BY DEF Starts
<1>2. RfTyped'
  BY <1>1, RfFacts DEF RfInv, RfTyped
<1>3. Numbered'
  <2>1. /\ \A i \in 1 .. Len(rftosrv) : rftosrv[i].seq \in Nat /\ rftosrv[i].seq < rfseq
        /\ \A i \in 1 .. Len(rftoxinu) : rftoxinu[i].seq \in Nat /\ rftoxinu[i].seq < rfseq
        /\ \A i, j \in 1 .. Len(rftosrv) : i < j => rftosrv[i].seq <= rftosrv[j].seq
    <3>1. Numbered
      BY DEF RfInv
    <3> QED BY <3>1, RfSeqs DEF Numbered
  <2> QED BY <1>1, <2>1, RfFacts DEF Numbered
<1>4. Exchange'
  <2>1. \A i \in 1 .. Len(rftosrv) : rftosrv[i].seq # rfseq
    BY RfFacts DEF RfInv, Numbered, RfMsg
  <2>2. rfcall'.seq + 1 = rfseq'
    BY <1>1
  <2> QED BY <1>1, <2>1, <2>2 DEF Exchange
<1>5. SureKept'
  <2> SUFFICES ASSUME NEW n \in RfName, NEW p \in RfPos, rfsure'[n][p] # NoByte
               PROVE  Settled(n, p, rfsure[n][p])' /\ rfsure'[n][p] = rfsure[n][p]
    BY DEF SureKept, Settled
  <2>1. rfsure'[n][p] = rfsure[n][p]
    OBVIOUS
  <2>2. PICK x : x = rfsure[n][p]
    OBVIOUS
  <2>3. Settled(n, p, x)
    BY <2>1, <2>2 DEF RfInv, SureKept
  <2>4. Settled(n, p, x)'
    BY <1>1, <2>3, SettledSame
  <2> QED BY <2>1, <2>2, <2>4 DEF Settled
<1>6. RepliesTrue'
  <2>1. \A i \in 1 .. Len(rftoxinu) : rftoxinu[i].seq # rfseq
    BY RfFacts DEF RfInv, Numbered, RfReply
  <2> QED BY <1>1, <2>1 DEF RepliesTrue
<1> QED BY <1>2, <1>3, <1>4, <1>5, <1>6 DEF RfInv

(* rfscomm() gives up, waits for the next answer or goes on to the next    *)
(* transmission: the request is as it was.                                 *)
SameCall == /\ RfSound(rfcall') /\ rfcall' # RfIdle /\ Copy(rfcall', rfcall)
            /\ rfcall'.dev = rfcall.dev /\ rfcall'.seq = rfcall.seq
LEMMA CallKept ==
  ASSUME RfInv, rfcall # RfIdle, NEW t \in Nat, NEW b \in BOOLEAN,
         rfcall' = [rfcall EXCEPT !.tries = t, !.waits = b]
  PROVE  SameCall
<1>1. PICK c, d : c = rfcall /\ d = rfcall'
  OBVIOUS
<1>2. c \in RfMsg /\ (c.type \in {"read", "write"} => c.pos \in RfPos) /\ d = [c EXCEPT !.tries = t, !.waits = b]
  BY <1>1, RfFacts DEF RfSound
<1>3. /\ d \in RfMsg /\ d.type = c.type /\ d.name = c.name /\ d.pos = c.pos /\ d.byte = c.byte
      /\ d.dev = c.dev /\ d.seq = c.seq
  BY <1>2 DEF RfMsg
<1>4. d # RfIdle
  <2>1. d.type \in RfType
    BY <1>3 DEF RfMsg
  <2> QED BY <2>1 DEF RfIdle, RfType
<1> QED BY <1>1, <1>2, <1>3, <1>4 DEF SameCall, RfSound, Copy

LEMMA WaitsStep ==
  ASSUME RfInv, rfcall # RfIdle, rfcall' = RfIdle \/ SameCall,
         rftoxinu' = rftoxinu \/ (rftoxinu # <<>> /\ rftoxinu' = Tail(rftoxinu)),
         UNCHANGED <<rftab, rfseq, rftosrv, rfserver, rfsure>>
  PROVE  RfInv'
<1>1. /\ rftoxinu' \in Seq(RfReply) /\ Len(rftoxinu') \in Nat
      /\ \A i \in 1 .. Len(rftoxinu') : \E j \in 1 .. Len(rftoxinu) : rftoxinu'[i] = rftoxinu[j]
  <2>1. CASE rftoxinu' = rftoxinu
    BY <2>1, RfFacts
  <2>2. CASE rftoxinu # <<>> /\ rftoxinu' = Tail(rftoxinu)
    BY <2>2, RfFacts, RfTail
  <2> QED BY <2>1, <2>2
<1>2. RfTyped'
  BY <1>1 DEF RfInv, RfTyped, SameCall
<1>3. Numbered'
  BY <1>1 DEF RfInv, Numbered
<1>4. Exchange'
  <2> SUFFICES ASSUME rfcall' # RfIdle PROVE Exchange'
    BY DEF Exchange
  <2>1. SameCall /\ Exchange
    BY DEF RfInv
  <2> QED BY <2>1 DEF Exchange, SameCall, Copy, Touches
<1>5. SureKept'
  BY DEF RfInv, SureKept, Settled
<1>6. RepliesTrue'
  <2> SUFFICES ASSUME rfcall' # RfIdle, NEW i \in 1 .. Len(rftoxinu'), rftoxinu'[i].seq = rfcall'.seq
               PROVE  /\ rfcall'.type = "write" /\ rftoxinu'[i].status = "ok"
                         => Settled(rfcall.name, rfcall.pos, rfcall.byte)' /\ Copy(rfcall', rfcall)
                      /\ rfcall'.type = "read" => rfsure'[rfcall'.name][rfcall'.pos] \in {NoByte, rftoxinu'[i].byte}
    BY DEF RepliesTrue, Settled, Copy
  <2>1. SameCall /\ RepliesTrue
    BY DEF RfInv
  <2>2. PICK j \in 1 .. Len(rftoxinu) : rftoxinu'[i] = rftoxinu[j]
    BY <1>1
  <2>3. PICK n, p, x : n = rfcall.name /\ p = rfcall.pos /\ x = rfcall.byte
    OBVIOUS
  <2>4. /\ rfcall.type = "write" /\ rftoxinu[j].status = "ok" => Settled(n, p, x)
        /\ rfcall.type = "read" => rfsure[n][p] \in {NoByte, rftoxinu[j].byte}
    BY <2>1, <2>2, <2>3 DEF RepliesTrue, SameCall
  <2>5. Settled(n, p, x)' <=> Settled(n, p, x)
    BY SettledSame
  <2> QED BY <2>1, <2>2, <2>3, <2>4, <2>5 DEF SameCall, Copy, Settled
<1> QED BY <1>2, <1>3, <1>4, <1>5, <1>6 DEF RfInv

LEMMA RfSendStep == ASSUME RfInv, RfSend PROVE RfInv'
<1>1. /\ rfcall # RfIdle /\ UNCHANGED <<rftab, rfseq, rftoxinu, rfserver, rfsure>>
      /\ rftosrv' \in {rftosrv, Append(rftosrv, rfcall)}
  BY DEF RfSend
<1>2. SameCall
  <2>1. PICK t, b : t = rfcall.tries + 1 /\ b = TRUE
    OBVIOUS
  <2>2. t \in Nat /\ b \in BOOLEAN
    BY <1>1, <2>1, RfFacts DEF RfMsg
  <2>3. rfcall' = [rfcall EXCEPT !.tries = t, !.waits = b]
    BY <2>1 DEF RfSend
  <2> QED BY <1>1, <2>2, <2>3, CallKept
<1>3. RfSound(rfcall) /\ rfcall \in RfMsg /\ rfcall.seq + 1 = rfseq /\ rfcall.seq \in Nat
  BY <1>1, RfFacts DEF RfInv, Exchange, RfMsg
<1>4. /\ rftosrv' \in Seq(RfMsg) /\ Len(rftosrv) \in Nat /\ Len(rftosrv') \in {Len(rftosrv), Len(rftosrv) + 1}
      /\ \A i \in 1 .. Len(rftosrv') : rftosrv'[i] = IF i <= Len(rftosrv) THEN rftosrv[i] ELSE rfcall
  <2>1. CASE rftosrv' = rftosrv
    BY <2>1, RfFacts
  <2>2. CASE rftosrv' = Append(rftosrv, rfcall)
    BY <1>3, <2>2, RfFacts, RfAppend
  <2> QED BY <1>1, <2>1, <2>2
<1>5. RfTyped'
  <2>1. \A i \in 1 .. Len(rftosrv') : RfSound(rftosrv'[i])
    BY <1>3, <1>4, RfFacts
  <2> QED BY <1>1, <1>2, <1>4, <2>1 DEF RfInv, RfTyped, SameCall
<1>6. Numbered'
  <2>1. Numbered /\ \A i \in 1 .. Len(rftosrv) : rftosrv[i].seq \in Nat
    BY RfSeqs DEF RfInv
  <2>2. ASSUME NEW i \in 1 .. Len(rftosrv') PROVE rftosrv'[i].seq < rfseq
    <3>1. CASE i <= Len(rftosrv)
      <4>1. i \in 1 .. Len(rftosrv) /\ rftosrv'[i] = rftosrv[i]
        BY <1>4, <3>1
      <4> QED BY <2>1, <4>1 DEF Numbered
    <3>2. CASE ~(i <= Len(rftosrv))
      <4>1. rftosrv'[i] = rfcall
        BY <1>4, <3>2
      <4>2. rfcall.seq < rfseq
        BY <1>3, RfFacts
      <4> QED BY <4>1, <4>2
    <3> QED BY <3>1, <3>2
  <2>3. ASSUME NEW i \in 1 .. Len(rftosrv'), NEW j \in 1 .. Len(rftosrv'), i < j
        PROVE  rftosrv'[i].seq <= rftosrv'[j].seq
    <3>1. i <= Len(rftosrv) /\ rftosrv'[i] = rftosrv[i] /\ i \in 1 .. Len(rftosrv)
      BY <1>4, <2>3
    <3>2. CASE j <= Len(rftosrv)
      BY <1>4, <2>1, <2>3, <3>1, <3>2 DEF Numbered
    <3>3. CASE ~(j <= Len(rftosrv))
      <4>1. rftosrv'[j].seq = rfcall.seq /\ rftosrv[i].seq < rfseq /\ rftosrv[i].seq \in Nat
        BY <1>4, <2>1, <3>1, <3>3 DEF Numbered
      <4> QED BY <1>3, <3>1, <4>1, RfFacts
    <3> QED BY <3>2, <3>3
  <2> QED BY <1>1, <2>1, <2>2, <2>3 DEF Numbered
<1>7. Exchange'
  <2>1. ASSUME NEW i \in 1 .. Len(rftosrv'), rftosrv'[i].seq = rfcall'.seq PROVE Copy(rftosrv'[i], rfcall')
    <3>1. CASE i <= Len(rftosrv)
      <4>1. Copy(rftosrv[i], rfcall)
        BY <1>1, <1>2, <1>4, <2>1, <3>1 DEF RfInv, Exchange, SameCall
      <4> QED BY <1>2, <1>4, <3>1, <4>1 DEF SameCall, Copy
    <3>2. CASE ~(i <= Len(rftosrv))
      BY <1>2, <1>4, <3>2 DEF SameCall, Copy
    <3> QED BY <3>1, <3>2
  <2>2. rfcall'.seq + 1 = rfseq'
    BY <1>1, <1>2, <1>3 DEF SameCall
  <2>3. \A n \in RfName, p \in RfPos : Touches(rfcall', n, p) => rfsure'[n][p] = NoByte
    BY <1>1, <1>2 DEF RfInv, Exchange, SameCall, Copy, Touches
  <2>4. rfcall'.type \in {"read", "write"} => rftab'[rfcall'.dev].used
    BY <1>1, <1>2 DEF RfInv, Exchange, SameCall, Copy
  <2> QED BY <2>1, <2>2, <2>3, <2>4 DEF Exchange
<1>8. SureKept'
  <2> SUFFICES ASSUME NEW n \in RfName, NEW p \in RfPos, rfsure[n][p] # NoByte
               PROVE  Settled(n, p, rfsure[n][p])'
    BY <1>1 DEF SureKept, Settled
  <2>1. PICK x : x = rfsure[n][p]
    OBVIOUS
  <2>2. Settled(n, p, x)
    BY <2>1 DEF RfInv, SureKept
  <2>3. ~Touches(rfcall, n, p)
    BY <1>1 DEF RfInv, Exchange
  <2>4. \A i \in 1 .. Len(rftosrv') :
            \/ \E j \in 1 .. Len(rftosrv) : rftosrv'[i] = rftosrv[j]
            \/ Touches(rftosrv'[i], n, p) => rftosrv'[i].type = "write" /\ rftosrv'[i].byte = x
    BY <1>4, <2>3
  <2>5. rfserver'[n][p] = x
    BY <1>1, <2>2 DEF Settled
  <2>6. Settled(n, p, x)'
    BY <2>2, <2>4, <2>5, SettledStays
  <2> QED BY <1>1, <2>1, <2>6 DEF Settled
<1>9. RepliesTrue'
  <2> SUFFICES ASSUME NEW i \in 1 .. Len(rftoxinu), rftoxinu[i].seq = rfcall.seq
               PROVE  /\ rfcall.type = "write" /\ rftoxinu[i].status = "ok"
                         => Settled(rfcall.name, rfcall.pos, rfcall.byte)'
                      /\ rfcall.type = "read" => rfsure[rfcall.name][rfcall.pos] \in {NoByte, rftoxinu[i].byte}
    <3>1. rfcall'.type = rfcall.type /\ rfcall'.name = rfcall.name /\ rfcall'.pos = rfcall.pos
          /\ rfcall'.byte = rfcall.byte /\ rfcall'.seq = rfcall.seq
      BY <1>2 DEF SameCall, Copy
    <3> QED BY <1>1, <3>1 DEF RepliesTrue, Settled
  <2>1. PICK n, p, x : n = rfcall.name /\ p = rfcall.pos /\ x = rfcall.byte
    OBVIOUS
  <2>2. /\ rfcall.type = "write" /\ rftoxinu[i].status = "ok" => Settled(n, p, x)
        /\ rfcall.type = "read" => rfsure[n][p] \in {NoByte, rftoxinu[i].byte}
    BY <1>1, <2>1 DEF RfInv, RepliesTrue
  <2>3. ASSUME rfcall.type = "write", Settled(n, p, x) PROVE Settled(n, p, x)'
    <3>1. \A j \in 1 .. Len(rftosrv') :
            \/ \E k \in 1 .. Len(rftosrv) : rftosrv'[j] = rftosrv[k]
            \/ Touches(rftosrv'[j], n, p) => rftosrv'[j].type = "write" /\ rftosrv'[j].byte = x
      BY <1>4, <2>1, <2>3
    <3>2. rfserver'[n][p] = x
      BY <1>1, <2>3 DEF Settled
    <3> QED BY <2>3, <3>1, <3>2, SettledStays
  <2>4. n = rfcall'.name /\ p = rfcall'.pos /\ x = rfcall'.byte
    BY <1>2, <2>1 DEF SameCall, Copy
  <2>5. rfcall.type = "write" /\ rftoxinu[i].status = "ok" => Settled(n, p, x)'
    BY <2>2, <2>3
  <2>6. rfcall.type = "read" => rfsure[rfcall.name][rfcall.pos] \in {NoByte, rftoxinu[i].byte}
    BY <2>1, <2>2
  <2> QED BY <2>4, <2>5, <2>6 DEF Settled
<1> QED BY <1>5, <1>6, <1>7, <1>8, <1>9 DEF RfInv

LEMMA RfReceivesStep == ASSUME RfInv, RfReceives PROVE RfInv'
<1>1. /\ rfcall # RfIdle /\ rftoxinu # <<>> /\ rftoxinu' = Tail(rftoxinu)
      /\ UNCHANGED <<rfseq, rftosrv, rfserver>>
  BY DEF RfReceives
<1>2. PICK r, c : r = Head(rftoxinu) /\ c = rfcall
  OBVIOUS
<1>3. /\ r \in RfReply /\ r = rftoxinu[1] /\ 1 \in 1 .. Len(rftoxinu)
      /\ RfSound(c) /\ c \in RfMsg /\ c.name \in RfName /\ c.dev \in RfDev /\ c.byte \in RfContent
      /\ c.mode \in SUBSET {"r", "w", "o", "n"}
  BY <1>1, <1>2, RfFacts, RfTail DEF RfMsg
<1>4. CASE /\ ~Answers(r)
           /\ rfcall' = IF c.tries = RF_RETRIES THEN RfIdle ELSE [c EXCEPT !.waits = FALSE]
           /\ UNCHANGED <<rftab, rfsure>>
  <2>1. PICK t, b : t = c.tries /\ b = FALSE
    OBVIOUS
  <2>2. t \in Nat /\ b \in BOOLEAN /\ [c EXCEPT !.waits = FALSE] = [c EXCEPT !.tries = t, !.waits = b]
    BY <1>3, <2>1 DEF RfMsg
  <2>3. rfcall' = RfIdle \/ SameCall
    BY <1>1, <1>2, <1>4, <2>2, CallKept
  <2> QED BY <1>1, <1>4, <2>3, WaitsStep
<1>5. CASE Answers(r) /\ rfcall' = RfIdle /\ Done(r)
  <2>1. r.seq = c.seq /\ r.type = c.type
    BY <1>2, <1>5 DEF Answers
  <2>2. ASSUME c.type \in {"read", "write"}
        PROVE  rftab[c.dev] \in [used : {TRUE}, name : RfName, pos : Nat, mode : SUBSET {"r", "w", "o", "n"}]
    <3>1. rftab[c.dev].used /\ rftab[c.dev] \in RfEntry
      BY <1>1, <1>2, <1>3, <2>2, RfFacts DEF RfInv, Exchange
    <3>2. RfFree.used = FALSE
      BY DEF RfFree
    <3>3. rftab[c.dev] # RfFree
      BY <3>1, <3>2
    <3> QED BY <3>1, <3>3 DEF RfEntry
  <2>3. ASSUME r.status = "ok", c.type = "write" PROVE Settled(c.name, c.pos, c.byte)
    BY <1>1, <1>2, <1>3, <2>1, <2>3 DEF RfInv, RepliesTrue
  <2>4. /\ rftab' \in [RfDev -> RfEntry] /\ rfsure' \in RfFiles
        /\ \A n \in RfName, p \in RfPos :
             rfsure'[n][p] # NoByte => rfsure'[n][p] = rfsure[n][p] \/ Settled(n, p, rfsure'[n][p])
    <3>1. rftab \in [RfDev -> RfEntry] /\ rfsure \in RfFiles
      BY RfFacts
    <3>2. CASE r.status # "ok"
      BY <1>5, <3>1, <3>2 DEF Done
    <3>3. CASE r.status = "ok" /\ r.type = "open"
      <4>1. PICK e : e = [used |-> TRUE, name |-> c.name, pos |-> 0, mode |-> c.mode]
        OBVIOUS
      <4>2. e \in RfEntry
        BY <1>3, <4>1 DEF RfEntry
      <4>3. rftab' = [rftab EXCEPT ![c.dev] = e] /\ rfsure' = rfsure
        BY <1>2, <1>5, <3>3, <4>1 DEF Done
      <4> QED BY <1>3, <3>1, <4>2, <4>3
    <3>4. CASE r.status = "ok" /\ r.type = "read"
      <4>1. PICK q : q = (IF r.byte = NoByte THEN rftab[c.dev].pos ELSE rftab[c.dev].pos + 1)
        OBVIOUS
      <4>a. c.type \in {"read", "write"}
        BY <2>1, <3>4
      <4>b. rftab[c.dev].pos \in Nat
        BY <2>2, <4>a
      <4>2. rftab[c.dev].pos \in Nat /\ q \in Nat
        BY <4>1, <4>b
      <4>3. [rftab[c.dev] EXCEPT !.pos = q] \in RfEntry
        BY <2>1, <2>2, <3>4, <4>2 DEF RfEntry
      <4>4. rftab' = [rftab EXCEPT ![c.dev] = [rftab[c.dev] EXCEPT !.pos = q]] /\ rfsure' = rfsure
        BY <1>2, <1>3, <1>5, <3>1, <3>4, <4>1 DEF Done
      <4> QED BY <1>3, <3>1, <4>3, <4>4
    <3>5. CASE r.status = "ok" /\ r.type = "write"
      <4>1. PICK q : q = rftab[c.dev].pos + 1
        OBVIOUS
      <4>a. c.type \in {"read", "write"}
        BY <2>1, <3>5
      <4>b. rftab[c.dev].pos \in Nat
        BY <2>2, <4>a
      <4>2. rftab[c.dev].pos \in Nat /\ q \in Nat
        BY <4>1, <4>b
      <4>3. [rftab[c.dev] EXCEPT !.pos = q] \in RfEntry
        BY <2>1, <2>2, <3>5, <4>2 DEF RfEntry
      <4>4. /\ rftab' = [rftab EXCEPT ![c.dev] = [rftab[c.dev] EXCEPT !.pos = q]]
            /\ rfsure' = [rfsure EXCEPT ![c.name][c.pos] = c.byte]
        BY <1>2, <1>3, <1>5, <3>1, <3>5, <4>1 DEF Done
      <4>5. rftab' \in [RfDev -> RfEntry]
        BY <1>3, <3>1, <4>3, <4>4
      <4>6. c.pos \in RfPos
        BY <1>3, <2>1, <3>5 DEF RfSound
      <4>7. PICK g : g = [rfsure[c.name] EXCEPT ![c.pos] = c.byte]
        OBVIOUS
      <4>8. g \in [RfPos -> RfContent] /\ \A p \in RfPos : g[p] = IF p = c.pos THEN c.byte ELSE rfsure[c.name][p]
        BY <1>3, <3>1, <4>6, <4>7 DEF RfFiles
      <4>9. rfsure' = [rfsure EXCEPT ![c.name] = g]
        BY <4>4, <4>7
      <4>10. rfsure' \in RfFiles /\ \A n \in RfName : rfsure'[n] = IF n = c.name THEN g ELSE rfsure[n]
        BY <1>3, <3>1, <4>8, <4>9 DEF RfFiles
      <4>11. Settled(c.name, c.pos, c.byte)
        BY <2>1, <2>3, <3>5
      <4>12. ASSUME NEW n \in RfName, NEW p \in RfPos, rfsure'[n][p] # NoByte
             PROVE  rfsure'[n][p] = rfsure[n][p] \/ Settled(n, p, rfsure'[n][p])
        BY <4>8, <4>10, <4>11
      <4> QED BY <4>5, <4>10, <4>12
    <3>6. CASE r.status = "ok" /\ r.type \notin {"open", "read", "write"}
      BY <1>5, <3>1, <3>6 DEF Done
    <3> QED BY <3>2, <3>3, <3>4, <3>5, <3>6
  <2>5. /\ rftoxinu' \in Seq(RfReply) /\ Len(rftoxinu') \in Nat
        /\ \A i \in 1 .. Len(rftoxinu') : \E j \in 1 .. Len(rftoxinu) : rftoxinu'[i] = rftoxinu[j]
    BY <1>1, RfFacts, RfTail
  <2>6. RfTyped'
    BY <1>1, <1>5, <2>4, <2>5 DEF RfInv, RfTyped
  <2>7. Numbered'
    BY <1>1, <2>5 DEF RfInv, Numbered
  <2>8. Exchange' /\ RepliesTrue'
    BY <1>5 DEF Exchange, RepliesTrue
  <2>9. SureKept'
    <3> SUFFICES ASSUME NEW n \in RfName, NEW p \in RfPos, rfsure'[n][p] # NoByte
                 PROVE  Settled(n, p, rfsure[n][p])'
      BY DEF SureKept, Settled
    <3>1. PICK x : x = rfsure'[n][p]
      OBVIOUS
    <3>2. x = rfsure[n][p] \/ Settled(n, p, x)
      BY <2>4, <3>1
    <3>3. Settled(n, p, x)
      BY <3>1, <3>2 DEF RfInv, SureKept
    <3>4. Settled(n, p, x)'
      BY <1>1, <3>3, SettledSame
    <3> QED BY <3>1, <3>4 DEF Settled
  <2> QED BY <2>6, <2>7, <2>8, <2>9 DEF RfInv
<1> QED BY <1>2, <1>4, <1>5 DEF RfReceives

(* The server takes the request at the head of the queue: one of the       *)
(* exchange under way has only copies of itself behind it.                 *)
LEMMA RfServerStep ==
  ASSUME RfInv, NEW status \in {"ok", "error"}, RfServer(status)
  PROVE  RfInv'
<1>1. /\ rftosrv # <<>> /\ rftosrv' = Tail(rftosrv) /\ UNCHANGED <<rftab, rfseq, rfcall, rfsure>>
  BY DEF RfServer
<1>2. PICK m, f : m = Head(rftosrv) /\ f = rfserver[m.name]
  OBVIOUS
<1>3. /\ m = rftosrv[1] /\ 1 \in 1 .. Len(rftosrv) /\ m \in RfMsg /\ RfSound(m)
      /\ m.name \in RfName /\ m.byte \in RfContent /\ m.seq \in Nat /\ m.type \in RfType
      /\ f \in [RfPos -> RfContent]
  <2>1. m = rftosrv[1] /\ 1 \in 1 .. Len(rftosrv)
    BY <1>1, <1>2, RfFacts, RfTail
  <2>2. m \in RfMsg /\ RfSound(m)
    BY <2>1, RfFacts, RfSeqs
  <2>3. m.name \in RfName /\ m.byte \in RfContent /\ m.seq \in Nat /\ m.type \in RfType
    BY <2>2 DEF RfMsg
  <2>4. f \in [RfPos -> RfContent]
    BY <1>2, <2>3, RfFacts DEF RfFiles
  <2> QED BY <2>1, <2>2, <2>3, <2>4
<1>4. /\ rftosrv' \in Seq(RfMsg) /\ Len(rftosrv) \in Nat /\ Len(rftosrv') = Len(rftosrv) - 1
      /\ \A i \in 1 .. Len(rftosrv') : i + 1 \in 1 .. Len(rftosrv) /\ rftosrv'[i] = rftosrv[i + 1]
  BY <1>1, RfFacts, RfTail
<1>5. PICK g : g = IF status = "ok" /\ m.type = "write" THEN [f EXCEPT ![m.pos] = m.byte]
                   ELSE IF status = "ok" /\ m.type = "truncate" THEN NoFile ELSE f
  OBVIOUS
<1>6. rfserver' = [rfserver EXCEPT ![m.name] = g]
  BY <1>2, <1>5 DEF RfServer
<1>7. /\ g \in [RfPos -> RfContent]
      /\ \A p \in RfPos : ~Touches(m, m.name, p) => g[p] = f[p]
      /\ \A p \in RfPos : m.type = "write" /\ m.pos = p /\ status = "ok" => g[p] = m.byte
      /\ \A p \in RfPos : m.type = "write" /\ m.pos = p => g[p] \in {m.byte, f[p]}
  <2>1. NoFile \in [RfPos -> RfContent]
    BY DEF NoFile, RfContent
  <2> QED BY <1>3, <1>5, <2>1 DEF Touches
<1>8. /\ rfserver' \in RfFiles
      /\ \A n \in RfName : rfserver'[n] = IF n = m.name THEN g ELSE rfserver[n]
  BY <1>3, <1>6, <1>7, RfFacts DEF RfFiles
<1>9. PICK r : /\ r = [seq |-> m.seq, type |-> m.type, status |-> status,
                       byte |-> IF m.type = "read" THEN f[m.pos] ELSE NoByte]
               /\ rftoxinu' \in {rftoxinu, Append(rftoxinu, r)}
  BY <1>2 DEF RfServer
<1>10. r \in RfReply /\ r.seq = m.seq /\ r.status = status /\ (m.type = "read" => r.byte = f[m.pos])
  <2>1. (IF m.type = "read" THEN f[m.pos] ELSE NoByte) \in RfContent
    BY <1>3 DEF RfSound, RfContent
  <2> QED BY <1>3, <1>9, <2>1 DEF RfReply
<1>11. /\ rftoxinu' \in Seq(RfReply)
       /\ \A i \in 1 .. Len(rftoxinu') : \/ i \in 1 .. Len(rftoxinu) /\ rftoxinu'[i] = rftoxinu[i]
                                         \/ rftoxinu'[i] = r
  <2>1. CASE rftoxinu' = rftoxinu
    BY <2>1, RfFacts
  <2>2. CASE rftoxinu' = Append(rftoxinu, r)
    <3>1. /\ rftoxinu' \in Seq(RfReply) /\ Len(rftoxinu') = Len(rftoxinu) + 1
          /\ \A i \in 1 .. Len(rftoxinu) + 1 : rftoxinu'[i] = IF i <= Len(rftoxinu) THEN rftoxinu[i] ELSE r
      BY <1>10, <2>2, RfFacts, RfAppend
    <3> QED BY <3>1, RfFacts
  <2> QED BY <1>9, <2>1, <2>2
<1>12. ASSUME NEW n \in RfName, NEW p \in RfPos, NEW x, Settled(n, p, x) PROVE Settled(n, p, x)'
  <2>1. Touches(m, n, p) => m.type = "write" /\ m.byte = x
    BY <1>3, <1>12 DEF Settled
  <2>2. rfserver[n][p] = x
    BY <1>12 DEF Settled
  <2>3. rfserver'[n][p] = x
    <3>1. CASE Touches(m, n, p)
      BY <1>2, <1>7, <1>8, <2>1, <2>2, <3>1 DEF Touches
    <3>2. CASE ~Touches(m, n, p)
      BY <1>2, <1>7, <1>8, <2>2, <3>2
    <3> QED BY <3>1, <3>2
  <2>4. \A i \in 1 .. Len(rftosrv') :
            \/ \E j \in 1 .. Len(rftosrv) : rftosrv'[i] = rftosrv[j]
            \/ Touches(rftosrv'[i], n, p) => rftosrv'[i].type = "write" /\ rftosrv'[i].byte = x
    BY <1>4
  <2> QED BY <1>12, <2>3, <2>4, SettledStays
<1>13. RfTyped'
  <2>1. \A i \in 1 .. Len(rftosrv') : RfSound(rftosrv'[i])
    BY <1>4, RfFacts
  <2> QED BY <1>1, <1>4, <1>8, <1>11, <2>1 DEF RfInv, RfTyped
<1>14. Numbered'
  <2>1. Numbered /\ m.seq < rfseq
    BY <1>3 DEF RfInv, Numbered
  <2>2. \A i \in 1 .. Len(rftosrv') : rftosrv'[i].seq < rfseq
    BY <1>4, <2>1 DEF Numbered
  <2>3. ASSUME NEW i \in 1 .. Len(rftosrv'), NEW j \in 1 .. Len(rftosrv'), i < j
        PROVE  rftosrv'[i].seq <= rftosrv'[j].seq
    <3>1. i + 1 \in 1 .. Len(rftosrv) /\ j + 1 \in 1 .. Len(rftosrv) /\ i + 1 < j + 1
      BY <1>4, <2>3
    <3> QED BY <1>4, <2>1, <3>1 DEF Numbered
  <2>4. \A i \in 1 .. Len(rftoxinu') : rftoxinu'[i].seq < rfseq
    BY <1>10, <1>11, <2>1 DEF Numbered
  <2> QED BY <1>1, <2>2, <2>3, <2>4 DEF Numbered
<1>15. Exchange'
  BY <1>1, <1>4 DEF RfInv, Exchange
<1>16. SureKept'
  <2> SUFFICES ASSUME NEW n \in RfName, NEW p \in RfPos, rfsure[n][p] # NoByte
               PROVE  Settled(n, p, rfsure[n][p])'
    BY <1>1 DEF SureKept, Settled
  <2>1. PICK x : x = rfsure[n][p]
    OBVIOUS
  <2>2. Settled(n, p, x)
    BY <2>1 DEF RfInv, SureKept
  <2>3. Settled(n, p, x)'
    BY <1>12, <2>2
  <2> QED BY <1>1, <2>1, <2>3 DEF Settled
<1>17. RepliesTrue'
  <2> SUFFICES ASSUME rfcall # RfIdle, NEW i \in 1 .. Len(rftoxinu'), rftoxinu'[i].seq = rfcall.seq
               PROVE  /\ rfcall.type = "write" /\ rftoxinu'[i].status = "ok"
                         => Settled(rfcall.name, rfcall.pos, rfcall.byte)'
                      /\ rfcall.type = "read" => rfsure[rfcall.name][rfcall.pos] \in {NoByte, rftoxinu'[i].byte}
    BY <1>1 DEF RepliesTrue, Settled
  <2>1. PICK n, p, x : n = rfcall.name /\ p = rfcall.pos /\ x = rfcall.byte
    OBVIOUS
  <2>2. RfSound(rfcall) /\ n \in RfName /\ (rfcall.type \in {"read", "write"} => p \in RfPos)
    BY <2>1, RfFacts DEF RfSound, RfMsg
  <2>3. n = rfcall'.name /\ p = rfcall'.pos /\ x = rfcall'.byte
    BY <1>1, <2>1
  <2>4. CASE i \in 1 .. Len(rftoxinu) /\ rftoxinu'[i] = rftoxinu[i]
    <3>1. /\ rfcall.type = "write" /\ rftoxinu[i].status = "ok" => Settled(n, p, x)
          /\ rfcall.type = "read" => rfsure[n][p] \in {NoByte, rftoxinu[i].byte}
      BY <2>1, <2>4 DEF RfInv, RepliesTrue
    <3>2. rfcall.type = "write" /\ rftoxinu[i].status = "ok" => Settled(n, p, x)'
      BY <1>12, <2>2, <3>1
    <3> QED BY <2>1, <2>3, <2>4, <3>1, <3>2
  <2>5. CASE rftoxinu'[i] = r
    <3>1. m.seq = rfcall.seq
      BY <1>10, <2>5
    <3>2. Copy(m, rfcall)
      BY <1>3, <3>1 DEF RfInv, Exchange
    <3>3. m.type = rfcall.type /\ m.name = n /\ m.pos = p /\ m.byte = x
      BY <2>1, <3>2 DEF Copy
    <3>4. ASSUME rfcall.type = "write", status = "ok" PROVE Settled(n, p, x)'
      <4>1. rfserver'[n][p] = x
        BY <1>7, <1>8, <2>2, <3>3, <3>4
      <4>2. ASSUME NEW j \in 1 .. Len(rftosrv') PROVE rftosrv'[j].type = "write" /\ rftosrv'[j].byte = x
        <5>1. PICK k \in 1 .. Len(rftosrv) : k = j + 1 /\ rftosrv'[j] = rftosrv[k] /\ 1 < k
          BY <1>4
        <5>2. rftosrv[k].seq \in Nat /\ rftosrv[1].seq <= rftosrv[k].seq /\ rftosrv[k].seq < rfseq
          BY <1>3, <5>1, RfSeqs DEF RfInv, Numbered
        <5>3. rfcall.seq + 1 = rfseq /\ rfcall.seq \in Nat
          BY <1>3, <3>1 DEF RfInv, Exchange
        <5>4. rftosrv[k].seq = rfcall.seq
          BY <1>3, <3>1, <5>2, <5>3
        <5>5. Copy(rftosrv[k], rfcall)
          BY <5>4 DEF RfInv, Exchange
        <5> QED BY <2>1, <3>4, <5>1, <5>5 DEF Copy
      <4> QED BY <4>1, <4>2 DEF Settled
    <3>5. ASSUME rfcall.type = "read" PROVE rfsure[n][p] \in {NoByte, r.byte}
      <4>1. r.byte = rfserver[n][p]
        BY <1>2, <1>10, <3>3, <3>5
      <4>2. rfsure[n][p] # NoByte => rfserver[n][p] = rfsure[n][p]
        BY <2>2, <3>5 DEF RfInv, SureKept, Settled
      <4> QED BY <4>1, <4>2
    <3> QED BY <1>10, <2>1, <2>3, <2>5, <3>4, <3>5
  <2> QED BY <1>11, <2>4, <2>5
<1> QED BY <1>13, <1>14, <1>15, <1>16, <1>17 DEF RfInv

(* The requests the operations fill in.                                    *)
LEMMA RequestSound ==
  ASSUME RfInv, NEW d \in RfDev, NEW type \in RfType, NEW n \in RfName, NEW pos \in Nat, NEW x \in RfContent,
         NEW mode \in SUBSET {"r", "w", "o", "n"}, type \in {"read", "write"} => pos \in RfPos
  PROVE  LET m == RfRequest(d, type, n, pos, x, mode)
         IN /\ RfSound(m) /\ m # RfIdle /\ m.seq = rfseq /\ m.type = type /\ m.dev = d
            /\ m.name = n /\ m.pos = pos
<1>1. PICK m, t, b : m = RfRequest(d, type, n, pos, x, mode) /\ t = 0 /\ b = FALSE
  OBVIOUS
<1>2. t \in Nat /\ b \in BOOLEAN /\ rfseq \in Nat
  BY <1>1, RfFacts
<1>3. m = [dev |-> d, type |-> type, name |-> n, pos |-> pos, byte |-> x, mode |-> mode,
           seq |-> rfseq, tries |-> t, waits |-> b]
  BY <1>1 DEF RfRequest
<1>4. m \in RfMsg /\ m.type = type /\ m.dev = d /\ m.seq = rfseq /\ m.name = n /\ m.pos = pos
  BY <1>2, <1>3 DEF RfMsg
<1>5. m # RfIdle
  <2>1. m.type # "none"
    BY <1>4 DEF RfType
  <2> QED BY <2>1 DEF RfIdle
<1> QED BY <1>1, <1>4, <1>5 DEF RfSound

LEMMA UsedEntry ==
  ASSUME RfInv, NEW d \in RfDev, rftab[d].used
  PROVE  rftab[d].name \in RfName /\ rftab[d].pos \in Nat /\ rftab[d].mode \in SUBSET {"r", "w", "o", "n"}
<1>1. rftab[d] \in RfEntry
  BY RfFacts
<1>2. RfFree.used = FALSE
  BY DEF RfFree
<1>3. rftab[d] # RfFree
  BY <1>2
<1> QED BY <1>1, <1>3 DEF RfEntry

LEMMA UnsureKeeps ==
  ASSUME RfInv, NEW n \in RfName, NEW ps, Unsure(n, ps)
  PROVE  /\ rfsure' \in RfFiles
         /\ \A k \in RfName, p \in RfPos :
              rfsure'[k][p] = IF k = n /\ p \in ps THEN NoByte ELSE rfsure[k][p]
<1>1. rfsure \in RfFiles
  BY RfFacts
<1>2. PICK g : g = [p \in RfPos |-> IF p \in ps THEN NoByte ELSE rfsure[n][p]]
  OBVIOUS
<1>3. g \in [RfPos -> RfContent] /\ \A p \in RfPos : g[p] = IF p \in ps THEN NoByte ELSE rfsure[n][p]
  BY <1>1, <1>2 DEF RfFiles, RfContent
<1>4. rfsure' = [rfsure EXCEPT ![n] = g]
  BY <1>2 DEF Unsure
<1>5. \A k \in RfName : rfsure'[k] = IF k = n THEN g ELSE rfsure[k]
  BY <1>1, <1>4 DEF RfFiles
<1> QED BY <1>1, <1>3, <1>4, <1>5 DEF RfFiles

LEMMA RfOpenStep ==
  ASSUME RfInv, NEW n \in RfName, NEW mode, RfOpen(n, mode)
  PROVE  RfInv'
<1>1. PICK free : free = {d \in RfDev : ~rftab[d].used}
  OBVIOUS
<1>2. PICK d : d = CHOOSE e \in free : \A f \in free : e <= f
  OBVIOUS
<1>3. free \in SUBSET Nat /\ free # {} /\ free \in SUBSET RfDev
  BY <1>1, RfAssumption DEF RfOpen, RfDev
<1>4. \E e \in free : \A f \in free : e <= f
  BY <1>3, Smallest
<1>5. d \in RfDev
  BY <1>2, <1>3, <1>4
<1>6. rfsgetmode(mode) \in SUBSET {"r", "w", "o", "n"}
  BY DEF rfsgetmode
<1>7. PICK m, z : m = RfRequest(d, "open", n, 0, NoByte, rfsgetmode(mode)) /\ z = 0
  OBVIOUS
<1>8. m = RfRequest(d, "open", n, z, NoByte, rfsgetmode(mode)) /\ z \in Nat
      /\ "open" \in RfType /\ NoByte \in RfContent
  BY <1>7 DEF RfType, RfContent
<1>9. RfSound(m) /\ m # RfIdle /\ m.seq = rfseq /\ m.type = "open"
  BY <1>5, <1>6, <1>8, RequestSound
<1>10. Starts(m) /\ rfsure' = rfsure
  BY <1>1, <1>2, <1>7 DEF RfOpen
<1>11. \A k \in RfName, p \in RfPos : ~Touches(m, k, p)
  BY <1>9 DEF Touches
<1>12. rfsure' \in RfFiles
  BY <1>10, RfFacts
<1> QED BY <1>9, <1>10, <1>11, <1>12, StartsStep

LEMMA RfReadStep ==
  ASSUME RfInv, NEW d \in RfDev, RfRead(d)
  PROVE  RfInv'
<1>1. PICK n, p, m, e : n = rftab[d].name /\ p = rftab[d].pos /\ m = RfRequest(d, "read", n, p, NoByte, e) /\ e = {}
  OBVIOUS
<1>2. rftab[d].used /\ p < RfMaxPos /\ Starts(m) /\ rfsure' = rfsure
  BY <1>1 DEF RfRead, Used
<1>3. n \in RfName /\ p \in Nat /\ p \in RfPos
  BY <1>1, <1>2, UsedEntry, RfAssumption DEF RfPos
<1>4. "read" \in RfType /\ NoByte \in RfContent /\ e \in SUBSET {"r", "w", "o", "n"}
  BY <1>1 DEF RfType, RfContent
<1>5. RfSound(m) /\ m # RfIdle /\ m.seq = rfseq /\ m.type = "read" /\ m.dev = d
  BY <1>1, <1>3, <1>4, RequestSound
<1>6. \A k \in RfName, q \in RfPos : ~Touches(m, k, q)
  BY <1>5 DEF Touches
<1>7. rfsure' \in RfFiles
  BY <1>2, RfFacts
<1> QED BY <1>2, <1>5, <1>6, <1>7, StartsStep

LEMMA RfWriteStep ==
  ASSUME RfInv, NEW d \in RfDev, NEW x \in RfByte, RfWrite(d, x)
  PROVE  RfInv'
<1>1. PICK n, p, m, e : n = rftab[d].name /\ p = rftab[d].pos /\ m = RfRequest(d, "write", n, p, x, e) /\ e = {}
  OBVIOUS
<1>2. rftab[d].used /\ p < RfMaxPos /\ Starts(m) /\ Unsure(n, {p})
  BY <1>1 DEF RfWrite, Used
<1>3. n \in RfName /\ p \in Nat /\ p \in RfPos
  BY <1>1, <1>2, UsedEntry, RfAssumption DEF RfPos
<1>4. "write" \in RfType /\ x \in RfContent /\ e \in SUBSET {"r", "w", "o", "n"}
  BY <1>1 DEF RfType, RfContent
<1>5. RfSound(m) /\ m # RfIdle /\ m.seq = rfseq /\ m.type = "write" /\ m.dev = d /\ m.name = n /\ m.pos = p
  BY <1>1, <1>3, <1>4, RequestSound
<1>6. /\ rfsure' \in RfFiles
      /\ \A k \in RfName, q \in RfPos : rfsure'[k][q] = IF k = n /\ q \in {p} THEN NoByte ELSE rfsure[k][q]
  BY <1>2, <1>3, UnsureKeeps
<1>7. \A k \in RfName, q \in RfPos : Touches(m, k, q) => rfsure'[k][q] = NoByte
  BY <1>5, <1>6 DEF Touches
<1> QED BY <1>2, <1>5, <1>6, <1>7, StartsStep

LEMMA RfControlStep ==
  ASSUME RfInv, NEW d \in RfDev, NEW n \in RfName, RfControl(d, n)
  PROVE  RfInv'
<1>1. PICK m, z, e : m = RfRequest(d, "truncate", n, z, NoByte, e) /\ z = 0 /\ e = {}
  OBVIOUS
<1>2. Starts(m) /\ Unsure(n, RfPos)
  BY <1>1 DEF RfControl, rfsndmsg
<1>3. "truncate" \in RfType /\ NoByte \in RfContent /\ e \in SUBSET {"r", "w", "o", "n"} /\ z \in Nat
  BY <1>1 DEF RfType, RfContent
<1>4. RfSound(m) /\ m # RfIdle /\ m.seq = rfseq /\ m.type = "truncate" /\ m.name = n
  BY <1>1, <1>3, RequestSound
<1>5. /\ rfsure' \in RfFiles
      /\ \A k \in RfName, q \in RfPos : rfsure'[k][q] = IF k = n /\ q \in RfPos THEN NoByte ELSE rfsure[k][q]
  BY <1>2, UnsureKeeps
<1>6. \A k \in RfName, q \in RfPos : Touches(m, k, q) => rfsure'[k][q] = NoByte
  BY <1>4, <1>5 DEF Touches
<1> QED BY <1>2, <1>4, <1>5, <1>6, StartsStep

LEMMA TableStep ==
  ASSUME RfInv, rfcall = RfIdle, rftab' \in [RfDev -> RfEntry],
         UNCHANGED <<rfseq, rfcall, rftosrv, rftoxinu, rfserver, rfsure>>
  PROVE  RfInv'
<1>1. RfTyped'
  BY DEF RfInv, RfTyped
<1>2. Numbered' /\ Exchange' /\ RepliesTrue'
  BY DEF RfInv, Numbered, Exchange, RepliesTrue
<1>3. SureKept'
  BY DEF RfInv, SureKept, Settled
<1> QED BY <1>1, <1>2, <1>3 DEF RfInv

LEMMA RfSeekStep ==
  ASSUME RfInv, NEW d \in RfDev, NEW pos \in RfPos, RfSeek(d, pos)
  PROVE  RfInv'
<1>1. pos \in Nat /\ rftab[d].used /\ rfcall = RfIdle /\ rftab \in [RfDev -> RfEntry]
  BY RfAssumption, RfFacts DEF RfPos, RfSeek
<1>2. PICK e, f : e = rftab[d] /\ f = [e EXCEPT !.pos = pos]
  OBVIOUS
<1>3. e \in [used : {TRUE}, name : RfName, pos : Nat, mode : SUBSET {"r", "w", "o", "n"}]
  <2>1. RfFree.used = FALSE
    BY DEF RfFree
  <2>2. e # RfFree /\ e \in RfEntry
    BY <1>1, <1>2, <2>1
  <2> QED BY <2>2 DEF RfEntry
<1>4. f \in RfEntry
  BY <1>1, <1>2, <1>3 DEF RfEntry
<1>5. rftab' = [rftab EXCEPT ![d] = f]
  BY <1>1, <1>2 DEF RfSeek
<1>6. rftab' \in [RfDev -> RfEntry]
  BY <1>1, <1>4, <1>5
<1> QED BY <1>1, <1>6, TableStep DEF RfSeek

LEMMA RfCloseStep ==
  ASSUME RfInv, NEW d \in RfDev, RfClose(d)
  PROVE  RfInv'
<1>1. RfFree \in RfEntry /\ rftab \in [RfDev -> RfEntry]
  BY RfFacts DEF RfEntry
<1>2. rftab' \in [RfDev -> RfEntry] /\ rfcall = RfIdle
  BY <1>1 DEF RfClose
<1> QED BY <1>2, TableStep DEF RfClose

LEMMA RfTimesOutStep == ASSUME RfInv, RfTimesOut PROVE RfInv'
<1>1. PICK t, b : t = rfcall.tries /\ b = FALSE
  OBVIOUS
<1>2. rfcall # RfIdle /\ rfcall \in RfMsg
  BY RfFacts DEF RfTimesOut
<1>3. t \in Nat /\ b \in BOOLEAN /\ [rfcall EXCEPT !.waits = FALSE] = [rfcall EXCEPT !.tries = t, !.waits = b]
  BY <1>1, <1>2 DEF RfMsg
<1>4. rfcall' = RfIdle \/ SameCall
  BY <1>2, <1>3, CallKept DEF RfTimesOut
<1> QED BY <1>2, <1>4, WaitsStep DEF RfTimesOut

LEMMA RfNextStep == ASSUME RfInv, [RfNext]_RfVars PROVE RfInv'
<1>1. ASSUME NEW n \in RfName, NEW mode \in {<<>>, <<"r">>, <<"w", "n">>, <<"o", "n">>}, RfOpen(n, mode) PROVE RfInv'
  BY <1>1, RfOpenStep
<1>2. ASSUME NEW d \in RfDev, RfRead(d) PROVE RfInv'
  BY <1>2, RfReadStep
<1>3. ASSUME NEW d \in RfDev, RfClose(d) PROVE RfInv'
  BY <1>3, RfCloseStep
<1>4. ASSUME NEW d \in RfDev, NEW x \in RfByte, RfWrite(d, x) PROVE RfInv'
  BY <1>4, RfWriteStep
<1>5. ASSUME NEW d \in RfDev, NEW n \in RfName, RfControl(d, n) PROVE RfInv'
  BY <1>5, RfControlStep
<1>6. ASSUME NEW d \in RfDev, NEW p \in RfPos, RfSeek(d, p) PROVE RfInv'
  BY <1>6, RfSeekStep
<1>7. CASE RfSend
  BY <1>7, RfSendStep
<1>8. CASE RfTimesOut
  BY <1>8, RfTimesOutStep
<1>9. CASE RfReceives
  BY <1>9, RfReceivesStep
<1>10. ASSUME NEW status \in {"ok", "error"}, RfServer(status) PROVE RfInv'
  BY <1>10, RfServerStep
<1>11. CASE UNCHANGED RfVars
  <2>1. RfTyped' /\ Numbered' /\ Exchange'
    BY <1>11 DEF RfVars, RfInv, RfTyped, Numbered, Exchange
  <2>2. SureKept' /\ RepliesTrue'
    BY <1>11 DEF RfVars, RfInv, SureKept, RepliesTrue, Settled
  <2> QED BY <2>1, <2>2 DEF RfInv
<1> QED BY <1>1, <1>2, <1>3, <1>4, <1>5, <1>6, <1>7, <1>8, <1>9, <1>10, <1>11 DEF RfNext

(* Copies of requests that are late, and answers to exchanges that were    *)
(* given up, never undo a write that was acknowledged nor falsify a read,  *)
(* for any number of files, bytes, devices and transmissions (rfscomm()).  *)
THEOREM RfAcknowledgedKeptAlways == RfSpec => []RfAcknowledgedKept
<1>1. RfInit => RfInv
  BY InitRfInv
<1>2. RfInv /\ [RfNext]_RfVars => RfInv'
  BY RfNextStep
<1>3. RfInv => RfAcknowledgedKept
  <2> SUFFICES ASSUME RfInv PROVE RfAcknowledgedKept
    OBVIOUS
  <2>1. \A n \in RfName, p \in RfPos : rfsure[n][p] # NoByte => Settled(n, p, rfsure[n][p])
    BY DEF RfInv, SureKept
  <2>2. ASSUME rfcall.type = "read", rftoxinu # <<>>, Answers(Head(rftoxinu))
        PROVE  rfsure[rfcall.name][rfcall.pos] \in {NoByte, Head(rftoxinu).byte}
    <3>1. rfcall # RfIdle
      BY <2>2 DEF RfIdle
    <3>2. Head(rftoxinu) = rftoxinu[1] /\ 1 \in 1 .. Len(rftoxinu)
      BY <2>2, RfFacts, RfTail
    <3> QED BY <2>2, <3>1, <3>2 DEF RfInv, RepliesTrue, Answers
  <2> QED BY <2>1, <2>2 DEF RfAcknowledgedKept
<1> QED BY <1>1, <1>2, <1>3, PTL DEF RfSpec

-----------------------------------------------------------------------------
(***************************************************************************)
(* The SD card driver.  Between its calls the controller is at rest: no    *)
(* command on the lines, no status bit and no error left, the signal       *)
(* enables as sdmcinit() set them.  Over a call stands at most a command,  *)
(* over the command its recovery, over the recovery the abort command; the *)
(* invariant says of each what the registers may hold while it is there.   *)
(***************************************************************************)
SdBits == InitSignals \cup CmdSignals
SdWords ==
  {"open", "read", "cmd", "rcvy", "issue", "complete", "transfer", "errors", "return", "reset", "check",
   "CMD0", "CMD8", "CMD55", "ACMD41", "again", "init", "busy", "CMD2", "CMD3", "end", "status", "state",
   "length", "data", "after", "CMD7", "CMD13", "CMD16", "CMD17", "ABT", "none", "OK", "SYSERR",
   "RECOVERABLE", "NON_RECOVERABLE", "idle", "ready", "ident", "stby", "tran"}
SdFrame == [fn : SdWords, pc : SdWords, cmd : SdWords, rc : SdWords,
            sig : SUBSET SdBits, sten : SUBSET SdBits]
SdTypes ==
  /\ sdstack \in Seq(SdFrame)
  /\ sdsig \in SUBSET SdBits /\ sdsten \in SUBSET SdBits /\ sdnml \in SUBSET SdBits
  /\ sderr \in SUBSET {"cmd", "data"} /\ sdcard \in [n : Nat, state : SdWords]

SdHome == sdsig = InitSignals /\ InitSignals \subseteq sdsten
SdIdle == sdbusy = NoCmd /\ "CMD_COMP" \notin sdnml /\ "TX_COMP" \notin sdnml
SdTran == sdfresh => sdcard.state = "tran"

BaseFrame(b) == b \in SdFrame /\ b.fn \in {"open", "read"}
CmdOver(c, b) ==
  /\ c \in SdFrame /\ c.fn = "cmd" /\ c.cmd # "ABT"
  /\ b.fn = "read" /\ b.pc = "data" => c.cmd = "CMD16"
  /\ c.pc = "issue" => SdHome
  /\ c.pc # "issue" => c.sig = InitSignals /\ InitSignals \subseteq c.sten
RcvyOver(r, c) == r \in SdFrame /\ r.fn = "rcvy" /\ c.pc = "return"
AbortOver(a) == a \in SdFrame /\ a.fn = "cmd" /\ a.cmd = "ABT"

AtRest(b) ==
  /\ SdHome /\ SdIdle /\ sderr = {}
  /\ b.fn = "read" /\ b.pc = "data" /\ b.rc = "OK" => SdTran
AtComplete(cmd) ==
  \/ /\ sdbusy = cmd /\ sderr = {} /\ "CMD_COMP" \notin sdnml /\ "TX_COMP" \notin sdnml
     /\ cmd = "CMD17" => SdTran
  \/ /\ sdbusy = NoCmd /\ ("TX_COMP" \in sdnml => "CMD_COMP" \in sdnml)
     /\ cmd = "CMD16" /\ "CMD_COMP" \in sdnml => SdTran
  \/ /\ sdbusy = "data" /\ cmd = "CMD17" /\ sderr = {}
     /\ "CMD_COMP" \in sdnml /\ "TX_COMP" \notin sdnml
CmdOk(c) ==
  \/ c.pc = "issue" /\ SdIdle /\ sderr = {} /\ c.cmd \notin {NoCmd, "data"}
     /\ (c.cmd = "CMD17" => SdTran)
  \/ c.pc = "complete" /\ c.cmd \notin {NoCmd, "data"} /\ AtComplete(c.cmd)
  \/ /\ c.pc = "transfer" /\ c.cmd = "CMD17" /\ "CMD_COMP" \notin sdnml
     /\ \/ sdbusy = NoCmd
        \/ sdbusy = "data" /\ sderr = {} /\ "TX_COMP" \notin sdnml
  \/ c.pc = "errors" /\ SdIdle /\ (c.cmd = "CMD16" /\ sderr = {} => SdTran)
  \/ /\ c.pc = "return" /\ SdIdle /\ (c.cmd # "ABT" => sderr = {})
     /\ c.cmd = "CMD16" /\ c.rc = "OK" => SdTran

Push(f, t) == <<f>> \o t
OnNothing == sdstack = <<>> /\ SdHome /\ SdIdle /\ sderr = {}
OnCall == \E b \in SdFrame : sdstack = Push(b, <<>>) /\ BaseFrame(b) /\ AtRest(b)
OnCmd == \E b, c \in SdFrame :
  sdstack = Push(c, Push(b, <<>>)) /\ BaseFrame(b) /\ CmdOver(c, b) /\ CmdOk(c)
OnRecovery == \E b, c, r \in SdFrame :
  /\ sdstack = Push(r, Push(c, Push(b, <<>>)))
  /\ BaseFrame(b) /\ CmdOver(c, b) /\ RcvyOver(r, c) /\ SdIdle
OnAbort == \E b, c, r, a \in SdFrame :
  /\ sdstack = Push(a, Push(r, Push(c, Push(b, <<>>))))
  /\ BaseFrame(b) /\ CmdOver(c, b) /\ RcvyOver(r, c) /\ AbortOver(a) /\ CmdOk(a)
SdInv == SdTypes /\ (OnNothing \/ OnCall \/ OnCmd \/ OnRecovery \/ OnAbort)

(* A stack, its top and what is under it.                                  *)
LEMMA PushIs ==
  ASSUME NEW S, NEW c \in S, NEW t \in Seq(S), NEW s, s = Push(c, t)
  PROVE  /\ s \in Seq(S) /\ s # <<>> /\ Len(s) = 1 + Len(t) /\ s[1] = c
         /\ \A i \in 1 .. Len(t) : s[i + 1] = t[i]
BY DEF Push
LEMMA PushTop ==
  ASSUME NEW S, NEW c \in S, NEW t \in Seq(S), NEW s, s = Push(c, t)
  PROVE  Head(s) = c /\ Tail(s) = t /\ s \in Seq(S) /\ s # <<>> /\ Len(s) = 1 + Len(t)
<1>1. /\ s \in Seq(S) /\ s # <<>> /\ Len(s) = 1 + Len(t) /\ s[1] = c
      /\ \A i \in 1 .. Len(t) : s[i + 1] = t[i]
  BY PushIs DEF Push
<1>2. Head(s) = c
  BY <1>1
<1>3. Tail(s) \in Seq(S) /\ Len(Tail(s)) = Len(t) /\ \A i \in 1 .. Len(t) : Tail(s)[i] = t[i]
  BY <1>1, HeadTailProperties
<1>4. Tail(s) = t
  BY <1>3, SeqEqual
<1> QED BY <1>1, <1>2, <1>4
LEMMA PairIs ==
  ASSUME NEW S, NEW c \in S, NEW b \in S
  PROVE  <<c, b>> = <<c>> \o <<b>>
<1>1. <<c, b>> \in Seq(S) /\ Len(<<c, b>>) = 2 /\ <<c, b>>[1] = c /\ <<c, b>>[2] = b
  OBVIOUS
<1>2. <<c>> \in Seq(S) /\ Len(<<c>>) = 1 /\ <<c>>[1] = c
  OBVIOUS
<1>3. <<b>> \in Seq(S) /\ Len(<<b>>) = 1 /\ <<b>>[1] = b
  OBVIOUS
<1>4. PICK s : s = <<c>> \o <<b>>
  OBVIOUS
<1>5. s \in Seq(S) /\ Len(s) = 2 /\ s[1] = c /\ s[2] = b
  BY <1>2, <1>3, <1>4, ConcatProperties
<1>6. \A i \in 1 .. 2 : s[i] = <<c, b>>[i]
  <2>1. \A i \in 1 .. 2 : i = 1 \/ i = 2
    OBVIOUS
  <2> QED BY <1>1, <1>5, <2>1
<1> QED BY <1>1, <1>4, <1>5, <1>6, SeqEqual
LEMMA PushTwice ==
  ASSUME NEW S, NEW c \in S, NEW b \in S, NEW t \in Seq(S)
  PROVE  <<c, b>> \o t = Push(c, Push(b, t))
<1>1. <<c, b>> = <<c>> \o <<b>>
  BY PairIs
<1>2. <<c>> \in Seq(S)
  OBVIOUS
<1>3. <<b>> \in Seq(S)
  OBVIOUS
<1> QED BY <1>1, <1>2, <1>3, ConcatAssociative DEF Push
LEMMA PushSecond ==
  ASSUME NEW S, NEW c \in S, NEW b \in S, NEW t \in Seq(S), NEW s, s = Push(c, Push(b, t))
  PROVE  s[2] = b /\ SubSeq(s, 3, Len(s)) = t /\ Len(s) # 1
<1>1. PICK u : u = Push(b, t)
  OBVIOUS
<1>2. u \in Seq(S) /\ Len(u) = 1 + Len(t) /\ u[1] = b /\ \A i \in 1 .. Len(t) : u[i + 1] = t[i]
  BY <1>1, PushIs DEF Push
<1>3. s = Push(c, u)
  BY <1>1
<1>4. s \in Seq(S) /\ Len(s) = 1 + Len(u) /\ \A i \in 1 .. Len(u) : s[i + 1] = u[i]
  BY <1>2, <1>3, PushIs DEF Push
<1>5. s[2] = b
  <2>1. s[1 + 1] = u[1]
    BY <1>2, <1>4
  <2> QED BY <1>2, <2>1
<1>6. Len(s) = 2 + Len(t) /\ Len(t) \in Nat
  BY <1>2, <1>4
<1>7. ASSUME NEW i \in 1 .. Len(t) PROVE s[i + 2] = t[i]
  <2>1. s[(i + 1) + 1] = u[i + 1] /\ u[i + 1] = t[i]
    BY <1>2, <1>4, <1>6
  <2> QED BY <2>1
<1>8. SubSeq(s, 3, Len(s)) \in Seq(S) /\ Len(SubSeq(s, 3, Len(s))) = Len(t)
      /\ \A i \in 1 .. Len(t) : SubSeq(s, 3, Len(s))[i] = s[i + 2]
  BY <1>4, <1>6, SubSeqProperties
<1>9. SubSeq(s, 3, Len(s)) = t
  BY <1>7, <1>8, SeqEqual
<1> QED BY <1>5, <1>6, <1>9

(* Frames, and the ways a step leaves the stack.                           *)
LEMMA FrameIs ==
  ASSUME NEW fn \in SdWords, NEW pc \in SdWords, NEW cmd \in SdWords, NEW f, f = Frame(fn, pc, cmd)
  PROVE  f \in SdFrame /\ f.fn = fn /\ f.pc = pc /\ f.cmd = cmd /\ f.rc = "OK"
<1>1. {} \in SUBSET SdBits
  OBVIOUS
<1>2. "OK" \in SdWords
  BY DEF SdWords
<1> QED BY <1>1, <1>2 DEF Frame, SdFrame
LEMMA FrameGoes ==
  ASSUME NEW f \in SdFrame, NEW pc \in SdWords, NEW g, g = [f EXCEPT !.pc = pc]
  PROVE  /\ g \in SdFrame /\ g.pc = pc /\ g.fn = f.fn /\ g.cmd = f.cmd /\ g.rc = f.rc
         /\ g.sig = f.sig /\ g.sten = f.sten
BY DEF SdFrame
LEMMA FrameReturned ==
  ASSUME NEW f \in SdFrame, NEW rc \in SdWords, NEW g, g = [f EXCEPT !.rc = rc]
  PROVE  /\ g \in SdFrame /\ g.rc = rc /\ g.fn = f.fn /\ g.cmd = f.cmd /\ g.pc = f.pc
         /\ g.sig = f.sig /\ g.sten = f.sten
BY DEF SdFrame

LEMMA StackGoes ==
  ASSUME NEW f \in SdFrame, NEW t \in Seq(SdFrame), sdstack = Push(f, t), NEW pc \in SdWords, GoesTo(pc)
  PROVE  \E g \in SdFrame : g = [f EXCEPT !.pc = pc] /\ sdstack' = Push(g, t)
<1>1. Head(sdstack) = f /\ Tail(sdstack) = t
  BY PushTop
<1>2. [f EXCEPT !.pc = pc] \in SdFrame
  BY FrameGoes
<1> QED BY <1>1, <1>2 DEF GoesTo, Innermost, Push
LEMMA StackCalls ==
  ASSUME NEW f \in SdFrame, NEW t \in Seq(SdFrame), sdstack = Push(f, t), NEW pc \in SdWords,
         NEW c \in SdFrame, Calls(c, pc)
  PROVE  \E g \in SdFrame : g = [f EXCEPT !.pc = pc] /\ sdstack' = Push(c, Push(g, t))
<1>1. Head(sdstack) = f /\ Tail(sdstack) = t
  BY PushTop
<1>2. PICK g \in SdFrame : g = [f EXCEPT !.pc = pc]
  BY FrameGoes
<1>3. sdstack' = <<c, g>> \o t
  BY <1>1, <1>2 DEF Calls, Innermost
<1>4. <<c, g>> \o t = Push(c, Push(g, t))
  BY ONLY c \in SdFrame, g \in SdFrame, t \in Seq(SdFrame), PushTwice
<1> QED BY <1>2, <1>3, <1>4
LEMMA StackEmpties ==
  ASSUME NEW f \in SdFrame, sdstack = Push(f, <<>>), NEW rc, Returns(rc)
  PROVE  sdstack' = <<>>
<1>1. <<>> \in Seq(SdFrame) /\ Len(<<>>) = 0
  OBVIOUS
<1>2. Len(sdstack) = 1
  BY <1>1, PushTop DEF Push
<1> QED BY <1>2 DEF Returns
LEMMA StackReturns ==
  ASSUME NEW f \in SdFrame, NEW g \in SdFrame, NEW t \in Seq(SdFrame), sdstack = Push(f, Push(g, t)),
         NEW rc \in SdWords, Returns(rc)
  PROVE  \E h \in SdFrame : h = [g EXCEPT !.rc = rc] /\ sdstack' = Push(h, t)
<1>1. sdstack[2] = g /\ SubSeq(sdstack, 3, Len(sdstack)) = t /\ Len(sdstack) # 1
  BY PushSecond DEF Push
<1>2. [g EXCEPT !.rc = rc] \in SdFrame
  BY FrameReturned
<1> QED BY <1>1, <1>2 DEF Returns, Push

LEMMA OpenWords ==
  ASSUME NEW pc \in DOMAIN OpenNext
  PROVE  /\ pc \in SdWords /\ pc # "data" /\ OpenNext[pc] \in SdWords /\ OpenCmd[pc] \in SdWords
         /\ OpenCmd[pc] \notin {"ABT", "CMD16", "CMD17", NoCmd, "data"}
<1>1. pc \in {"CMD0", "CMD8", "CMD55", "ACMD41", "again", "CMD2", "CMD3"}
  BY DEF OpenNext
<1>2. OpenNext[pc] \in {"CMD8", "CMD55", "ACMD41", "again", "init", "CMD3", "end"}
  BY <1>1 DEF OpenNext
<1>3. OpenCmd[pc] \in {"CMD0", "CMD8", "CMD55", "ACMD41", "CMD2", "CMD3"}
  BY <1>1 DEF OpenNext, OpenCmd
<1> QED BY <1>1, <1>2, <1>3 DEF SdWords, NoCmd

(* The controller and the card keep every part of the invariant.           *)
LEMMA HardwareTypes ==
  ASSUME SdTypes, CmdCompletes \/ DataCompletes \/ CardIn \/ CardOut
  PROVE  SdTypes' /\ sdstack' = sdstack /\ sdsig' = sdsig /\ sdsten' = sdsten
<1>1. sdstack' = sdstack /\ sdsig' = sdsig /\ sdsten' = sdsten
  BY DEF CmdCompletes, DataCompletes, CardIn, CardOut, SdHardware
<1>2. sdnml' \in SUBSET SdBits /\ sderr' \in SUBSET {"cmd", "data"}
  BY DEF SdTypes, CmdCompletes, DataCompletes, CardIn, CardOut, SdBits, CmdSignals, InitSignals
<1>3. sdcard' \in [n : Nat, state : SdWords]
  <2>1. CASE CmdCompletes
    <3>1. CASE sdcard' = sdcard
      BY <3>1 DEF SdTypes
    <3>2. CASE sdcard' # sdcard
      <4>1. PICK busy \in BOOLEAN : sdcard' = [sdcard EXCEPT !.state = After(sdbusy, busy)]
        BY <2>1, <3>2 DEF CmdCompletes
      <4>2. After(sdbusy, busy) \in SdWords
        BY DEF After, SdTypes, SdWords
      <4> QED BY <4>1, <4>2 DEF SdTypes
    <3> QED BY <3>1, <3>2
  <2>2. CASE DataCompletes
    BY <2>2 DEF DataCompletes, SdTypes
  <2>3. CASE CardIn
    <3>1. sdcard.n + 1 \in Nat /\ "idle" \in SdWords
      BY DEF SdTypes, SdWords
    <3> QED BY <2>3, <3>1 DEF CardIn
  <2>4. CASE CardOut
    <3>1. "none" \in SdWords
      BY DEF SdWords
    <3> QED BY <2>4, <3>1 DEF CardOut, SdTypes
  <2> QED BY <2>1, <2>2, <2>3, <2>4
<1> QED BY <1>1, <1>2, <1>3 DEF SdTypes

LEMMA HardwareKeepsIdle ==
  ASSUME SdTypes, CmdCompletes \/ DataCompletes \/ CardIn \/ CardOut, SdIdle
  PROVE  SdIdle' /\ sderr' = sderr /\ (SdTran => SdTran')
<1>1. CASE CmdCompletes \/ DataCompletes
  BY <1>1 DEF CmdCompletes, DataCompletes, SdIdle, NoCmd
<1>2. CASE CardIn \/ CardOut
  BY <1>2 DEF CardIn, CardOut, SdIdle, SdTran
<1> QED BY <1>1, <1>2

LEMMA CompletesCommand ==
  ASSUME SdTypes, CmdCompletes, NEW cmd, cmd \notin {NoCmd, "data"}, AtComplete(cmd)
  PROVE  AtComplete(cmd)'
<1>1. /\ sdbusy = cmd /\ sderr = {} /\ "CMD_COMP" \notin sdnml /\ "TX_COMP" \notin sdnml
      /\ cmd = "CMD17" => SdTran
  BY DEF CmdCompletes, AtComplete, NoCmd
<1>2. CASE sderr' # sderr
  BY <1>1, <1>2 DEF CmdCompletes, AtComplete
<1>3. CASE sderr' = sderr
  <2>1. PICK busy \in BOOLEAN :
          /\ sdcard.state # "none" /\ Legal(sdbusy) /\ sdnml' = sdnml \cup {"CMD_COMP"}
          /\ sdcard' = [sdcard EXCEPT !.state = After(sdbusy, busy)]
          /\ sdbusy' = IF sdbusy = "CMD17" THEN "data" ELSE NoCmd
    BY <1>1, <1>3 DEF CmdCompletes
  <2>2. cmd = "CMD16" => sdcard.state = "tran" /\ sdcard'.state = "tran"
    BY <1>1, <2>1 DEF Legal, After, SdTypes
  <2>3. CASE cmd = "CMD17"
    BY <1>1, <1>3, <2>1, <2>3 DEF AtComplete
  <2>4. CASE cmd # "CMD17"
    BY <1>1, <2>1, <2>2, <2>4 DEF AtComplete, SdTran
  <2> QED BY <2>3, <2>4
<1> QED BY <1>2, <1>3

LEMMA HardwareKeepsCmd ==
  ASSUME SdTypes, CmdCompletes \/ DataCompletes \/ CardIn \/ CardOut, NEW c \in SdFrame, CmdOk(c)
  PROVE  CmdOk(c)'
<1>1. CASE SdIdle
  <2>1. SdIdle' /\ sderr' = sderr /\ (SdTran => SdTran')
    BY <1>1, HardwareKeepsIdle
  <2>2. CASE c.pc = "complete"
    BY <1>1, <2>1, <2>2 DEF CmdOk, AtComplete, SdIdle, NoCmd
  <2>3. CASE c.pc = "transfer"
    BY <1>1, <2>1, <2>3 DEF CmdOk, SdIdle, NoCmd
  <2>4. CASE c.pc \notin {"complete", "transfer"}
    BY <1>1, <2>1, <2>4 DEF CmdOk
  <2> QED BY <2>2, <2>3, <2>4
<1>2. CASE ~SdIdle
  <2>1. c.pc \in {"complete", "transfer"}
    BY <1>2 DEF CmdOk
  <2>2. CASE c.pc = "complete"
    <3>1. c.cmd \notin {NoCmd, "data"} /\ AtComplete(c.cmd)
      BY <2>2 DEF CmdOk
    <3>2. CASE CmdCompletes
      <4>1. AtComplete(c.cmd)'
        BY <3>1, <3>2, CompletesCommand
      <4> QED BY <2>2, <3>1, <4>1 DEF CmdOk
    <3>3. CASE DataCompletes
      <4>1. AtComplete(c.cmd)'
        BY <3>1, <3>3 DEF DataCompletes, AtComplete, NoCmd
      <4> QED BY <2>2, <3>1, <4>1 DEF CmdOk
    <3>4. CASE CardIn \/ CardOut
      <4>1. AtComplete(c.cmd)'
        BY <3>1, <3>4 DEF CardIn, CardOut, AtComplete, SdTran
      <4> QED BY <2>2, <3>1, <4>1 DEF CmdOk
    <3> QED BY <3>2, <3>3, <3>4
  <2>3. CASE c.pc = "transfer"
    <3>1. CASE CmdCompletes
      BY <2>3, <3>1 DEF CmdOk, CmdCompletes, NoCmd
    <3>2. CASE DataCompletes
      BY <2>3, <3>2 DEF CmdOk, DataCompletes
    <3>3. CASE CardIn \/ CardOut
      BY <2>3, <3>3 DEF CmdOk, CardIn, CardOut
    <3> QED BY <3>1, <3>2, <3>3
  <2> QED BY <2>1, <2>2, <2>3
<1> QED BY <1>1, <1>2

(* A command at work: the frame on top moves on, or calls the recovery.    *)
CmdSteps == CmdIssues \/ CmdSeesEnd \/ CmdSeesData \/ CmdChecks \/ CmdReturns
CmdTop(c, t) == c \in SdFrame /\ c.fn = "cmd" /\ t \in Seq(SdFrame) /\ sdstack = Push(c, t) /\ CmdOk(c)

LEMMA TopIs ==
  ASSUME NEW f \in SdFrame, NEW t \in Seq(SdFrame), sdstack = Push(f, t)
  PROVE  /\ Innermost = f /\ Tail(sdstack) = t /\ sdstack # <<>>
         /\ \A fn, pc : At(fn, pc) <=> f.fn = fn /\ f.pc = pc
<1>1. Head(sdstack) = f /\ Tail(sdstack) = t /\ sdstack # <<>>
  BY PushTop
<1> QED BY <1>1 DEF Innermost, At

LEMMA IssuesOk ==
  ASSUME SdTypes, NEW c, NEW t, CmdTop(c, t), CmdIssues
  PROVE  \E c2 \in SdFrame :
           /\ sdstack' = Push(c2, t) /\ c2.fn = "cmd" /\ c2.cmd = c.cmd /\ c2.pc # "issue"
           /\ c2.sig = sdsig /\ c2.sten = sdsten /\ CmdOk(c2)'
<1>1. /\ Innermost = c /\ Tail(sdstack) = t /\ c.pc = "issue" /\ c \in SdFrame /\ CmdOk(c)
      /\ t \in Seq(SdFrame)
  BY TopIs DEF CmdTop, CmdIssues
<1>2. PICK c2 : c2 = [c EXCEPT !.pc = "complete", !.sig = sdsig, !.sten = sdsten]
  OBVIOUS
<1>3. /\ c2 \in SdFrame /\ c2.fn = c.fn /\ c2.cmd = c.cmd /\ c2.pc = "complete"
      /\ c2.sig = sdsig /\ c2.sten = sdsten
  <2>1. "complete" \in SdWords
    BY DEF SdWords
  <2> QED BY <1>1, <1>2, <2>1 DEF SdFrame, SdTypes
<1>4. sdstack' = Push(c2, t)
  BY <1>1, <1>2 DEF CmdIssues, Push
<1>5. sdbusy' = c.cmd /\ UNCHANGED <<sdnml, sderr, sdcard, sdfresh>>
  BY <1>1 DEF CmdIssues
<1>6. SdIdle /\ sderr = {} /\ c.cmd \notin {NoCmd, "data"} /\ (c.cmd = "CMD17" => SdTran)
  BY <1>1 DEF CmdOk
<1>7. AtComplete(c.cmd)'
  BY <1>5, <1>6 DEF AtComplete, SdIdle, SdTran
<1> QED BY <1>3, <1>4, <1>6, <1>7 DEF CmdOk, CmdTop

LEMMA SeesOk ==
  ASSUME SdTypes, NEW c, NEW t, CmdTop(c, t), CmdSeesEnd \/ CmdSeesData
  PROVE  /\ c.pc # "issue"
         /\ \E c2 \in SdFrame :
              /\ sdstack' = Push(c2, t) /\ c2.fn = "cmd" /\ c2.cmd = c.cmd /\ c2.pc # "issue"
              /\ c2.sig = c.sig /\ c2.sten = c.sten /\ CmdOk(c2)'
<1>1. /\ Innermost = c /\ Tail(sdstack) = t /\ c.pc \in {"complete", "transfer"} /\ c \in SdFrame
      /\ CmdOk(c) /\ c.fn = "cmd" /\ t \in Seq(SdFrame) /\ sdstack = Push(c, t)
  BY TopIs DEF CmdTop, CmdSeesEnd, CmdSeesData
<1>2. UNCHANGED <<sderr, sdbusy, sdcard, sdfresh>>
  BY DEF CmdSeesEnd, CmdSeesData, SdUnchanged
<1>3. PICK pc \in {"transfer", "errors"} : GoesTo(pc) /\ (CmdSeesData => pc = "errors")
        /\ (CmdSeesEnd => (pc = "transfer" <=> c.cmd = "CMD17"))
  BY <1>1 DEF CmdSeesEnd, CmdSeesData, At
<1>4. pc \in SdWords
  BY DEF SdWords
<1>5. PICK c2 \in SdFrame : c2 = [c EXCEPT !.pc = pc] /\ sdstack' = Push(c2, t)
  BY <1>1, <1>3, <1>4, StackGoes
<1>6. /\ c2.pc = pc /\ c2.fn = c.fn /\ c2.cmd = c.cmd /\ c2.sig = c.sig /\ c2.sten = c.sten
  BY <1>1, <1>4, <1>5, FrameGoes
<1>7. CmdOk(c2)'
  <2>1. CASE CmdSeesEnd
    <3>1. c.pc = "complete" /\ AtComplete(c.cmd)
      BY <1>1, <2>1 DEF CmdSeesEnd, At, CmdOk
    <3>2. ("CMD_COMP" \in sdnml \/ sderr # {}) /\ sdnml' = IF "CMD_COMP" \in sdnml THEN {} ELSE sdnml
      BY <2>1 DEF CmdSeesEnd, BitCleared
    <3>3. \/ /\ sdbusy = NoCmd /\ ("TX_COMP" \in sdnml => "CMD_COMP" \in sdnml)
             /\ (c.cmd = "CMD16" /\ "CMD_COMP" \in sdnml => SdTran)
          \/ /\ sdbusy = "data" /\ c.cmd = "CMD17" /\ sderr = {} /\ "CMD_COMP" \in sdnml
      BY <3>1, <3>2 DEF AtComplete
    <3>4. "CMD_COMP" \notin sdnml' /\ "TX_COMP" \notin sdnml'
      BY <3>2, <3>3
    <3>5. CASE c.cmd = "CMD17"
      BY <1>2, <1>3, <1>6, <2>1, <3>3, <3>4, <3>5 DEF CmdOk
    <3>6. CASE c.cmd # "CMD17"
      <4>1. c.cmd = "CMD16" /\ sderr = {} => SdTran
        BY <3>2, <3>3
      <4>2. sdbusy = NoCmd
        BY <3>3, <3>6
      <4>3. pc = "errors"
        BY <1>3, <2>1, <3>6
      <4> QED BY <1>2, <1>6, <3>4, <4>1, <4>2, <4>3 DEF CmdOk, SdIdle, SdTran
    <3> QED BY <3>5, <3>6
  <2>2. CASE CmdSeesData
    <3>1. /\ c.pc = "transfer" /\ c.cmd = "CMD17" /\ "CMD_COMP" \notin sdnml
          /\ (sdbusy = NoCmd \/ (sdbusy = "data" /\ sderr = {} /\ "TX_COMP" \notin sdnml))
      BY <1>1, <2>2 DEF CmdSeesData, At, CmdOk
    <3>2. ("TX_COMP" \in sdnml \/ sderr # {}) /\ sdnml' = IF "TX_COMP" \in sdnml THEN {} ELSE sdnml
      BY <2>2 DEF CmdSeesData, BitCleared
    <3>3. sdbusy' = NoCmd /\ "CMD_COMP" \notin sdnml' /\ "TX_COMP" \notin sdnml'
      BY <1>2, <3>1, <3>2
    <3> QED BY <1>3, <1>6, <2>2, <3>1, <3>3 DEF CmdOk, SdIdle
  <2> QED BY <2>1, <2>2
<1> QED BY <1>1, <1>3, <1>5, <1>6, <1>7

LEMMA ChecksOk ==
  ASSUME SdTypes, NEW c, NEW t, CmdTop(c, t), CmdChecks
  PROVE  /\ c.pc = "errors" /\ SdIdle'
         /\ \E c2 \in SdFrame :
              /\ c2.fn = "cmd" /\ c2.cmd = c.cmd /\ c2.pc = "return"
              /\ c2.sig = c.sig /\ c2.sten = c.sten
              /\ \/ sdstack' = Push(c2, t) /\ CmdOk(c2)'
                 \/ /\ c.cmd # "ABT"
                    /\ \E r \in SdFrame : r.fn = "rcvy" /\ sdstack' = Push(r, Push(c2, t))
<1>1. /\ Innermost = c /\ Tail(sdstack) = t /\ c.pc = "errors" /\ c \in SdFrame
      /\ CmdOk(c) /\ c.fn = "cmd" /\ t \in Seq(SdFrame) /\ sdstack = Push(c, t)
  BY TopIs DEF CmdTop, CmdChecks
<1>2. UNCHANGED <<sderr, sdbusy, sdcard, sdfresh>> /\ sdnml' = IF sderr # {} THEN {} ELSE sdnml
  BY DEF CmdChecks, SdUnchanged
<1>3. SdIdle /\ (c.cmd = "CMD16" /\ sderr = {} => SdTran)
  BY <1>1 DEF CmdOk
<1>4. SdIdle'
  BY <1>2, <1>3 DEF SdIdle
<1>5. PICK c2 : c2 = [c EXCEPT !.pc = "return"]
  OBVIOUS
<1>6. "return" \in SdWords /\ "rcvy" \in SdWords /\ "reset" \in SdWords /\ NoCmd \in SdWords
  BY DEF SdWords, NoCmd
<1>7. /\ c2 \in SdFrame /\ c2.pc = "return" /\ c2.fn = c.fn /\ c2.cmd = c.cmd
      /\ c2.sig = c.sig /\ c2.sten = c.sten /\ c2.rc = c.rc
  BY <1>1, <1>5, <1>6, FrameGoes
<1>8. CASE sderr # {} /\ c.cmd # "ABT"
  <2>1. PICK r : r = Frame("rcvy", "reset", NoCmd)
    OBVIOUS
  <2>2. r \in SdFrame /\ r.fn = "rcvy"
    BY <1>6, <2>1, FrameIs
  <2>3. Calls(r, "return")
    BY <1>1, <1>8, <2>1 DEF CmdChecks
  <2>4. sdstack' = Push(r, Push(c2, t))
    BY <1>1, <1>5, <1>6, <2>2, <2>3, StackCalls
  <2> QED BY <1>1, <1>4, <1>7, <1>8, <2>2, <2>4
<1>9. CASE ~(sderr # {} /\ c.cmd # "ABT")
  <2>1. GoesTo("return")
    BY <1>1, <1>9 DEF CmdChecks
  <2>2. sdstack' = Push(c2, t)
    BY <1>1, <1>5, <1>6, <2>1, StackGoes
  <2>3. (c2.cmd # "ABT" => sderr' = {}) /\ (c2.cmd = "CMD16" => SdTran')
    <3>1. c2.cmd # "ABT" => sderr' = {}
      BY <1>2, <1>7, <1>9
    <3>2. c2.cmd = "CMD16" => SdTran'
      BY <1>2, <1>3, <1>7, <1>9 DEF SdTran
    <3> QED BY <3>1, <3>2
  <2>4. CmdOk(c2)'
    BY <1>4, <1>7, <2>3 DEF CmdOk
  <2> QED BY <1>1, <1>4, <1>7, <2>2, <2>4
<1> QED BY <1>8, <1>9

LEMMA StackTypes ==
  /\ <<>> \in Seq(SdFrame)
  /\ \A b \in SdFrame : Push(b, <<>>) \in Seq(SdFrame)
  /\ \A b, c \in SdFrame : Push(c, Push(b, <<>>)) \in Seq(SdFrame)
  /\ \A b, c, r \in SdFrame : Push(r, Push(c, Push(b, <<>>))) \in Seq(SdFrame)
  /\ \A b, c, r, a \in SdFrame : Push(a, Push(r, Push(c, Push(b, <<>>)))) \in Seq(SdFrame)
<1>1. <<>> \in Seq(SdFrame)
  OBVIOUS
<1>2. ASSUME NEW f \in SdFrame, NEW t \in Seq(SdFrame) PROVE Push(f, t) \in Seq(SdFrame)
  BY PushIs DEF Push
<1> QED BY <1>1, <1>2

LEMMA OnCmdStep ==
  ASSUME SdTypes, OnCmd, CmdSteps
  PROVE  OnCall' \/ OnCmd' \/ OnRecovery'
<1>1. PICK b \in SdFrame, c \in SdFrame :
        sdstack = Push(c, Push(b, <<>>)) /\ BaseFrame(b) /\ CmdOver(c, b) /\ CmdOk(c)
  BY DEF OnCmd
<1>2. PICK t : t = Push(b, <<>>) /\ t \in Seq(SdFrame)
  BY StackTypes
<1>3. CmdTop(c, t)
  BY <1>1, <1>2 DEF CmdTop, CmdOver
<1>4. /\ c.fn = "cmd" /\ c.cmd # "ABT" /\ (b.fn = "read" /\ b.pc = "data" => c.cmd = "CMD16")
      /\ (c.pc = "issue" => SdHome)
      /\ (c.pc # "issue" => c.sig = InitSignals /\ InitSignals \subseteq c.sten)
  BY <1>1 DEF CmdOver
<1>5. ASSUME NEW c2 \in SdFrame, c2.fn = "cmd", c2.cmd = c.cmd, c2.pc # "issue",
             c2.sig = InitSignals, InitSignals \subseteq c2.sten
      PROVE  CmdOver(c2, b)'
  BY <1>4, <1>5 DEF CmdOver
<1>6. CASE CmdIssues
  <2>1. PICK c2 \in SdFrame :
           /\ sdstack' = Push(c2, t) /\ c2.fn = "cmd" /\ c2.cmd = c.cmd /\ c2.pc # "issue"
           /\ c2.sig = sdsig /\ c2.sten = sdsten /\ CmdOk(c2)'
    BY <1>3, <1>6, IssuesOk
  <2>2. c.pc = "issue"
    BY <1>1, <1>2, <1>6, TopIs DEF CmdIssues
  <2>3. CmdOver(c2, b)'
    BY <1>4, <1>5, <2>1, <2>2 DEF SdHome
  <2>4. OnCmd'
    BY <1>1, <1>2, <2>1, <2>3 DEF OnCmd, BaseFrame
  <2> QED BY <2>4
<1>7. CASE CmdSeesEnd \/ CmdSeesData
  <2>1. c.pc # "issue"
    BY <1>3, <1>7, SeesOk
  <2>2. PICK c2 \in SdFrame :
           /\ sdstack' = Push(c2, t) /\ c2.fn = "cmd" /\ c2.cmd = c.cmd /\ c2.pc # "issue"
           /\ c2.sig = c.sig /\ c2.sten = c.sten /\ CmdOk(c2)'
    BY <1>3, <1>7, SeesOk
  <2>3. CmdOver(c2, b)'
    BY <1>4, <1>5, <2>1, <2>2
  <2>4. OnCmd'
    BY <1>1, <1>2, <2>2, <2>3 DEF OnCmd, BaseFrame
  <2> QED BY <2>4
<1>8. CASE CmdChecks
  <2>1. c.pc = "errors" /\ SdIdle'
    BY <1>3, <1>8, ChecksOk
  <2>2. PICK c2 \in SdFrame :
              /\ c2.fn = "cmd" /\ c2.cmd = c.cmd /\ c2.pc = "return"
              /\ c2.sig = c.sig /\ c2.sten = c.sten
              /\ \/ sdstack' = Push(c2, t) /\ CmdOk(c2)'
                 \/ /\ c.cmd # "ABT"
                    /\ \E r \in SdFrame : r.fn = "rcvy" /\ sdstack' = Push(r, Push(c2, t))
    BY <1>3, <1>8, ChecksOk
  <2>3. CmdOver(c2, b)'
    BY <1>4, <1>5, <2>1, <2>2
  <2>4. CASE sdstack' = Push(c2, t) /\ CmdOk(c2)'
    <3>1. OnCmd'
      BY <1>1, <1>2, <2>3, <2>4 DEF OnCmd, BaseFrame
    <3> QED BY <3>1
  <2>5. CASE \E r \in SdFrame : r.fn = "rcvy" /\ sdstack' = Push(r, Push(c2, t))
    <3>1. PICK r \in SdFrame : r.fn = "rcvy" /\ sdstack' = Push(r, Push(c2, t))
      BY <2>5
    <3>2. OnRecovery'
      BY <1>1, <1>2, <2>1, <2>2, <2>3, <3>1 DEF OnRecovery, BaseFrame, RcvyOver
    <3> QED BY <3>2
  <2> QED BY <2>2, <2>4, <2>5
<1>9. CASE CmdReturns
  <2>1. Innermost = c /\ c.pc = "return"
    BY <1>1, <1>2, <1>9, TopIs DEF CmdReturns
  <2>2. /\ sdsig' = c.sig /\ sdsten' = c.sten /\ Returns(c.rc)
        /\ UNCHANGED <<sdnml, sderr, sdbusy, sdcard, sdfresh>>
    BY <1>9, <2>1 DEF CmdReturns, Restores, SdUnchanged
  <2>3. SdIdle /\ sderr = {} /\ (c.cmd = "CMD16" /\ c.rc = "OK" => SdTran)
    BY <1>1, <1>4, <2>1 DEF CmdOk
  <2>4. c.rc \in SdWords
    BY DEF SdFrame
  <2>5. PICK h \in SdFrame : h = [b EXCEPT !.rc = c.rc] /\ sdstack' = Push(h, <<>>)
    <3>1. <<>> \in Seq(SdFrame) /\ sdstack = Push(c, Push(b, <<>>)) /\ Returns(c.rc)
      BY <1>1, <2>2, StackTypes
    <3>2. b \in SdFrame /\ c \in SdFrame
      BY <1>1
    <3>3. PICK e : e = <<>>
      OBVIOUS
    <3>4. e \in Seq(SdFrame) /\ sdstack = Push(c, Push(b, e))
      BY <3>1, <3>3
    <3>5. \E h \in SdFrame : h = [b EXCEPT !.rc = c.rc] /\ sdstack' = Push(h, e)
      BY <2>4, <3>1, <3>2, <3>4, StackReturns
    <3> QED BY <3>3, <3>5
  <2>6. h.rc = c.rc /\ h.fn = b.fn /\ h.pc = b.pc
    BY <2>4, <2>5, FrameReturned
  <2>7. SdHome' /\ SdIdle' /\ sderr' = {}
    BY <1>4, <2>1, <2>2, <2>3 DEF SdHome, SdIdle
  <2>8. (h.fn = "read" /\ h.pc = "data" /\ h.rc = "OK" => SdTran)'
    BY <1>4, <2>2, <2>3, <2>6 DEF SdTran
  <2>9. OnCall'
    BY <1>1, <2>5, <2>6, <2>7, <2>8 DEF OnCall, BaseFrame, AtRest
  <2> QED BY <2>9
<1> QED BY <1>6, <1>7, <1>8, <1>9 DEF CmdSteps

LEMMA OnAbortStep ==
  ASSUME SdTypes, OnAbort, CmdSteps
  PROVE  OnAbort' \/ OnRecovery'
<1>1. PICK b \in SdFrame, c \in SdFrame, r \in SdFrame, a \in SdFrame :
        /\ sdstack = Push(a, Push(r, Push(c, Push(b, <<>>))))
        /\ BaseFrame(b) /\ CmdOver(c, b) /\ RcvyOver(r, c) /\ AbortOver(a) /\ CmdOk(a)
  BY DEF OnAbort
<1>2. PICK u : u = Push(c, Push(b, <<>>)) /\ u \in Seq(SdFrame)
  BY StackTypes
<1>3. PICK t : t = Push(r, u) /\ t \in Seq(SdFrame)
  BY <1>2, StackTypes
<1>4. CmdTop(a, t)
  BY <1>1, <1>2, <1>3 DEF CmdTop, AbortOver
<1>5. BaseFrame(b)' /\ CmdOver(c, b)' /\ RcvyOver(r, c)'
  BY <1>1 DEF BaseFrame, CmdOver, RcvyOver
<1>6. ASSUME NEW a2 \in SdFrame, sdstack' = Push(a2, t), a2.fn = "cmd", a2.cmd = a.cmd, CmdOk(a2)'
      PROVE  OnAbort'
  BY <1>1, <1>2, <1>3, <1>5, <1>6 DEF OnAbort, AbortOver
<1>7. CASE CmdIssues
  <2>1. PICK a2 \in SdFrame : sdstack' = Push(a2, t) /\ a2.fn = "cmd" /\ a2.cmd = a.cmd /\ CmdOk(a2)'
    BY <1>4, <1>7, IssuesOk
  <2> QED BY <1>6, <2>1
<1>8. CASE CmdSeesEnd \/ CmdSeesData
  <2>1. PICK a2 \in SdFrame : sdstack' = Push(a2, t) /\ a2.fn = "cmd" /\ a2.cmd = a.cmd /\ CmdOk(a2)'
    BY <1>4, <1>8, SeesOk
  <2> QED BY <1>6, <2>1
<1>9. CASE CmdChecks
  <2>1. PICK a2 \in SdFrame :
          a2.fn = "cmd" /\ a2.cmd = a.cmd /\ (a.cmd # "ABT" \/ (sdstack' = Push(a2, t) /\ CmdOk(a2)'))
    BY <1>4, <1>9, ChecksOk
  <2> QED BY <1>1, <1>6, <2>1 DEF AbortOver
<1>10. CASE CmdReturns
  <2>1. Innermost = a /\ a.pc = "return"
    BY <1>1, <1>2, <1>3, <1>10, TopIs DEF CmdReturns
  <2>2. Returns(a.rc) /\ UNCHANGED <<sdnml, sdbusy>>
    BY <1>10, <2>1 DEF CmdReturns
  <2>3. SdIdle'
    BY <1>1, <2>1, <2>2 DEF CmdOk, SdIdle
  <2>4. a.rc \in SdWords
    BY DEF SdFrame
  <2>5. PICK h \in SdFrame : h = [r EXCEPT !.rc = a.rc] /\ sdstack' = Push(h, u)
    BY <1>1, <1>2, <2>2, <2>4, StackReturns
  <2>6. h.fn = r.fn
    BY <2>4, <2>5, FrameReturned
  <2>7. RcvyOver(h, c)'
    BY <1>1, <2>6 DEF RcvyOver
  <2>8. OnRecovery'
    BY <1>2, <1>5, <2>3, <2>5, <2>7 DEF OnRecovery
  <2> QED BY <2>8
<1> QED BY <1>7, <1>8, <1>9, <1>10 DEF CmdSteps

LEMMA OnRecoveryStep ==
  ASSUME SdTypes, OnRecovery, RcvyResets \/ RcvyChecks
  PROVE  OnAbort' \/ OnCmd'
<1>1. PICK b \in SdFrame, c \in SdFrame, r \in SdFrame :
        /\ sdstack = Push(r, Push(c, Push(b, <<>>)))
        /\ BaseFrame(b) /\ CmdOver(c, b) /\ RcvyOver(r, c) /\ SdIdle
  BY DEF OnRecovery
<1>2. PICK t : t = Push(b, <<>>) /\ t \in Seq(SdFrame)
  BY StackTypes
<1>3. PICK u : u = Push(c, t) /\ u \in Seq(SdFrame)
  BY <1>2, StackTypes
<1>4. sdstack = Push(r, u)
  BY <1>1, <1>2, <1>3
<1>5. CASE RcvyResets
  <2>1. PICK a : a = Issue("ABT")
    OBVIOUS
  <2>2. a \in SdFrame /\ a.fn = "cmd" /\ a.pc = "issue" /\ a.cmd = "ABT"
    <3>1. "cmd" \in SdWords /\ "issue" \in SdWords /\ "ABT" \in SdWords
      BY DEF SdWords
    <3> QED BY <2>1, <3>1, FrameIs DEF Issue
  <2>3. Calls(a, "check") /\ sdbusy' = NoCmd /\ sderr' = {} /\ sdnml' = sdnml
    BY <1>5, <2>1 DEF RcvyResets
  <2>4. "check" \in SdWords
    BY DEF SdWords
  <2>5. PICK r2 \in SdFrame : r2 = [r EXCEPT !.pc = "check"] /\ sdstack' = Push(a, Push(r2, u))
    BY <1>3, <1>4, <2>2, <2>3, <2>4, StackCalls
  <2>6. r2.fn = r.fn
    BY <2>4, <2>5, FrameGoes
  <2>7. BaseFrame(b)' /\ CmdOver(c, b)' /\ RcvyOver(r2, c)'
    BY <1>1, <2>6 DEF BaseFrame, CmdOver, RcvyOver
  <2>8. CmdOk(a)'
    <3>1. SdIdle'
      BY <1>1, <2>3 DEF SdIdle
    <3> QED BY <2>2, <2>3, <3>1 DEF CmdOk, NoCmd
  <2>9. OnAbort'
    BY <1>2, <1>3, <2>2, <2>5, <2>7, <2>8 DEF OnAbort, AbortOver
  <2> QED BY <2>9
<1>6. CASE RcvyChecks
  <2>1. PICK rc \in {"RECOVERABLE", "NON_RECOVERABLE"} : Returns(rc)
    BY <1>6 DEF RcvyChecks
  <2>2. rc \in SdWords /\ rc # "OK"
    BY DEF SdWords
  <2>3. PICK h \in SdFrame : h = [c EXCEPT !.rc = rc] /\ sdstack' = Push(h, t)
    BY <1>2, <1>3, <1>4, <2>1, <2>2, StackReturns
  <2>4. h.rc = rc /\ h.fn = c.fn /\ h.cmd = c.cmd /\ h.pc = c.pc /\ h.sig = c.sig /\ h.sten = c.sten
    BY <2>2, <2>3, FrameReturned
  <2>5. c.pc = "return"
    BY <1>1 DEF RcvyOver
  <2>6. BaseFrame(b)' /\ CmdOver(h, b)'
    BY <1>1, <2>4, <2>5 DEF BaseFrame, CmdOver
  <2>7. SdIdle' /\ sderr' = {}
    BY <1>1, <1>6 DEF RcvyChecks, BitCleared, SdIdle
  <2>8. CmdOk(h)'
    BY <2>2, <2>4, <2>5, <2>7 DEF CmdOk
  <2>9. OnCmd'
    BY <1>2, <2>3, <2>6, <2>8 DEF OnCmd
  <2> QED BY <2>9
<1> QED BY <1>5, <1>6

(* The calls themselves: each step sends a command, goes on or returns.    *)
OpenSteps == OpenIssues \/ OpenInitialises \/ OpenWaits \/ OpenEnds
ReadSteps == ReadStatus \/ ReadState \/ ReadLength \/ ReadData \/ ReadAfter \/ ReadEnds
CallTop(b) == b \in SdFrame /\ sdstack = Push(b, <<>>) /\ BaseFrame(b) /\ AtRest(b)

LEMMA CallPushes ==
  ASSUME NEW b \in SdFrame, sdstack = Push(b, <<>>), NEW c \in SdFrame, NEW pc \in SdWords, Calls(c, pc)
  PROVE  \E g \in SdFrame : g = [b EXCEPT !.pc = pc] /\ sdstack' = Push(c, Push(g, <<>>))
<1>1. PICK t \in Seq(SdFrame) : t = <<>>
  BY StackTypes
<1>2. sdstack = Push(b, t)
  BY <1>1
<1>3. \E g \in SdFrame : g = [b EXCEPT !.pc = pc] /\ sdstack' = Push(c, Push(g, t))
  BY <1>2, StackCalls
<1> QED BY <1>1, <1>3
LEMMA CallSends ==
  ASSUME SdTypes, NEW b \in SdFrame, CallTop(b), NEW cmd \in SdWords, cmd \notin {"ABT", NoCmd, "data"},
         NEW pc \in SdWords, Calls(Issue(cmd), pc),
         b.fn = "read" /\ pc = "data" => cmd = "CMD16",
         SdHome', SdIdle', sderr' = {}, cmd = "CMD17" => SdTran'
  PROVE  OnCmd'
<1>1. PICK c : c = Issue(cmd)
  OBVIOUS
<1>2. c \in SdFrame /\ c.fn = "cmd" /\ c.pc = "issue" /\ c.cmd = cmd
  <2>1. "cmd" \in SdWords /\ "issue" \in SdWords
    BY DEF SdWords
  <2> QED BY <1>1, <2>1, FrameIs DEF Issue
<1>3. b \in SdFrame /\ sdstack = Push(b, <<>>) /\ Calls(c, pc) /\ <<>> \in Seq(SdFrame)
  BY <1>1, StackTypes DEF CallTop
<1>4. PICK g \in SdFrame : g = [b EXCEPT !.pc = pc] /\ sdstack' = Push(c, Push(g, <<>>))
  BY <1>2, <1>3, CallPushes
<1>5. g.pc = pc /\ g.fn = b.fn
  BY <1>3, <1>4, FrameGoes
<1>6. BaseFrame(g)' /\ CmdOver(c, g)'
  BY <1>2, <1>5 DEF CallTop, BaseFrame, CmdOver
<1>7. CmdOk(c)'
  BY <1>2 DEF CmdOk
<1> QED BY <1>2, <1>4, <1>6, <1>7 DEF OnCmd

LEMMA CallGoes ==
  ASSUME SdTypes, NEW b \in SdFrame, CallTop(b), NEW pc \in SdWords, pc # "data", GoesTo(pc),
         UNCHANGED <<sdsig, sdsten, sdnml, sderr, sdbusy>>
  PROVE  OnCall'
<1>1. b \in SdFrame /\ sdstack = Push(b, <<>>) /\ <<>> \in Seq(SdFrame)
  BY StackTypes DEF CallTop
<1>2. PICK g \in SdFrame : g = [b EXCEPT !.pc = pc] /\ sdstack' = Push(g, <<>>)
  BY <1>1, StackGoes
<1>3. g.pc = pc /\ g.fn = b.fn
  BY <1>1, <1>2, FrameGoes
<1>4. BaseFrame(g)' /\ AtRest(g)'
  BY <1>3 DEF CallTop, BaseFrame, AtRest, SdHome, SdIdle
<1> QED BY <1>2, <1>4 DEF OnCall

LEMMA CallEnds ==
  ASSUME SdTypes, NEW b \in SdFrame, CallTop(b), NEW rc, Returns(rc),
         UNCHANGED <<sdsig, sdsten, sdnml, sderr, sdbusy>>
  PROVE  OnNothing'
<1>1. sdstack' = <<>>
  BY StackEmpties DEF CallTop
<1> QED BY <1>1 DEF OnNothing, CallTop, AtRest, SdHome, SdIdle

LEMMA CallTopIs ==
  ASSUME NEW b \in SdFrame, CallTop(b)
  PROVE  Innermost = b /\ \A fn, pc : At(fn, pc) <=> b.fn = fn /\ b.pc = pc
<1>1. b \in SdFrame /\ sdstack = Push(b, <<>>) /\ <<>> \in Seq(SdFrame)
  BY StackTypes DEF CallTop
<1> QED BY <1>1, TopIs

LEMMA QuietStep ==
  ASSUME SdTypes, NEW b \in SdFrame, CallTop(b), SdQuiet
  PROVE  /\ SdHome' /\ SdIdle' /\ sderr' = {} /\ UNCHANGED <<sdsig, sdsten, sdnml, sderr, sdbusy>>
BY DEF SdQuiet, CallTop, AtRest, SdHome, SdIdle

LEMMA OpenStep ==
  ASSUME SdTypes, NEW b \in SdFrame, CallTop(b), OpenSteps
  PROVE  OnNothing' \/ OnCall' \/ OnCmd'
<1>1. Innermost = b /\ \A fn, pc : At(fn, pc) <=> b.fn = fn /\ b.pc = pc
  BY CallTopIs
<1>2. /\ SdHome' /\ SdIdle' /\ sderr' = {} /\ UNCHANGED <<sdsig, sdsten, sdnml, sderr, sdbusy>>
  <2>1. SdQuiet
    BY DEF OpenSteps, OpenIssues, OpenInitialises, OpenWaits, OpenEnds
  <2> QED BY <2>1, QuietStep
<1>3. CASE OpenIssues
  <2>1. b.pc \in DOMAIN OpenNext /\ b.fn = "open" /\ Calls(Issue(OpenCmd[b.pc]), OpenNext[b.pc])
    BY <1>1, <1>3 DEF OpenIssues
  <2>2. /\ OpenNext[b.pc] \in SdWords /\ OpenCmd[b.pc] \in SdWords
        /\ OpenCmd[b.pc] \notin {"ABT", "CMD16", "CMD17", NoCmd, "data"}
    BY <2>1, OpenWords
  <2>3. PICK cmd, pc : cmd = OpenCmd[b.pc] /\ pc = OpenNext[b.pc]
    OBVIOUS
  <2>4. /\ cmd \in SdWords /\ cmd \notin {"ABT", NoCmd, "data"} /\ cmd # "CMD17" /\ pc \in SdWords
        /\ Calls(Issue(cmd), pc) /\ b.fn # "read"
    BY <2>1, <2>2, <2>3
  <2> QED BY <1>2, <2>4, CallSends
<1>4. CASE OpenInitialises
  <2>1. Calls(Issue("ACMD41"), "busy") /\ b.fn = "open"
    BY <1>1, <1>4 DEF OpenInitialises
  <2>2. /\ "ACMD41" \in SdWords /\ "busy" \in SdWords /\ "ACMD41" # "CMD17"
        /\ "ACMD41" \notin {"ABT", NoCmd, "data"} /\ b.fn # "read"
    BY <2>1 DEF SdWords, NoCmd
  <2> QED BY <1>2, <2>1, <2>2, CallSends
<1>5. CASE OpenWaits
  <2>1. PICK pc \in {"again", "CMD2"} : GoesTo(pc)
    BY <1>5 DEF OpenWaits
  <2>2. pc \in SdWords /\ pc # "data"
    BY DEF SdWords
  <2> QED BY <1>2, <2>1, <2>2, CallGoes
<1>6. CASE OpenEnds
  <2>1. Returns("OK")
    BY <1>6 DEF OpenEnds
  <2> QED BY <1>2, <2>1, CallEnds
<1> QED BY <1>3, <1>4, <1>5, <1>6 DEF OpenSteps

LEMMA ReadStep ==
  ASSUME SdTypes, NEW b \in SdFrame, CallTop(b), ReadSteps
  PROVE  OnNothing' \/ OnCall' \/ OnCmd'
<1>1. Innermost = b /\ \A fn, pc : At(fn, pc) <=> b.fn = fn /\ b.pc = pc
  BY CallTopIs
<1>2. /\ "CMD13" \in SdWords /\ "CMD7" \in SdWords /\ "CMD16" \in SdWords /\ "CMD17" \in SdWords
      /\ "state" \in SdWords /\ "length" \in SdWords /\ "data" \in SdWords /\ "after" \in SdWords
      /\ "end" \in SdWords
  BY DEF SdWords
<1>3. /\ "CMD13" \notin {"ABT", NoCmd, "data"} /\ "CMD7" \notin {"ABT", NoCmd, "data"}
      /\ "CMD16" \notin {"ABT", NoCmd, "data"} /\ "CMD17" \notin {"ABT", NoCmd, "data"}
  BY DEF NoCmd
<1>4. CASE ReadStatus
  <2>1. Calls(Issue("CMD13"), "state") /\ SdQuiet
    BY <1>4 DEF ReadStatus
  <2>2. SdHome' /\ SdIdle' /\ sderr' = {}
    BY <2>1, QuietStep
  <2> QED BY <1>2, <1>3, <2>1, <2>2, CallSends
<1>5. CASE ReadState
  <2>1. SdQuiet /\ (Returns("SYSERR") \/ Calls(Issue("CMD7"), "length") \/ GoesTo("length"))
    BY <1>5 DEF ReadState
  <2>2. /\ SdHome' /\ SdIdle' /\ sderr' = {} /\ UNCHANGED <<sdsig, sdsten, sdnml, sderr, sdbusy>>
    BY <2>1, QuietStep
  <2>3. CASE Returns("SYSERR")
    BY <2>2, <2>3, CallEnds
  <2>4. CASE Calls(Issue("CMD7"), "length")
    BY <1>2, <1>3, <2>2, <2>4, CallSends
  <2>5. CASE GoesTo("length")
    BY <1>2, <2>2, <2>5, CallGoes
  <2> QED BY <2>1, <2>3, <2>4, <2>5
<1>6. CASE ReadLength
  <2>1. SdQuiet /\ (Returns("SYSERR") \/ Calls(Issue("CMD16"), "data"))
    BY <1>6 DEF ReadLength
  <2>2. /\ SdHome' /\ SdIdle' /\ sderr' = {} /\ UNCHANGED <<sdsig, sdsten, sdnml, sderr, sdbusy>>
    BY <2>1, QuietStep
  <2>3. CASE Returns("SYSERR")
    BY <2>2, <2>3, CallEnds
  <2>4. CASE Calls(Issue("CMD16"), "data")
    BY <1>2, <1>3, <2>2, <2>4, CallSends
  <2> QED BY <2>1, <2>3, <2>4
<1>7. CASE ReadData
  <2>1. b.fn = "read" /\ b.pc = "data" /\ UNCHANGED <<sdsig, sdnml, sderr, sdbusy, sdcard, sdfresh>>
    BY <1>1, <1>7 DEF ReadData
  <2>2. CASE Selected
    <3>1. Calls(Issue("CMD17"), "after") /\ sdsten' = CmdSignals \cup InitSignals
      BY <1>7, <2>2 DEF ReadData
    <3>2. SdHome' /\ SdIdle' /\ sderr' = {}
      BY <2>1, <3>1 DEF CallTop, AtRest, SdHome, SdIdle
    <3>3. SdTran'
      BY <1>1, <2>1, <2>2 DEF CallTop, AtRest, Selected, SdTran
    <3> QED BY <1>2, <1>3, <3>1, <3>2, <3>3, CallSends
  <2>3. CASE ~Selected
    <3>1. Returns("OK") /\ UNCHANGED <<sdsig, sdsten, sdnml, sderr, sdbusy>>
      BY <1>7, <2>1, <2>3 DEF ReadData
    <3> QED BY <3>1, CallEnds
  <2> QED BY <2>2, <2>3
<1>8. CASE ReadAfter
  <2>1. Calls(Issue("CMD13"), "end") /\ SdQuiet
    BY <1>8 DEF ReadAfter
  <2>2. SdHome' /\ SdIdle' /\ sderr' = {}
    BY <2>1, QuietStep
  <2> QED BY <1>2, <1>3, <2>1, <2>2, CallSends
<1>9. CASE ReadEnds
  <2>1. Returns("OK") /\ SdQuiet
    BY <1>9 DEF ReadEnds
  <2>2. UNCHANGED <<sdsig, sdsten, sdnml, sderr, sdbusy>>
    BY <2>1, QuietStep
  <2> QED BY <2>1, <2>2, CallEnds
<1> QED BY <1>4, <1>5, <1>6, <1>7, <1>8, <1>9 DEF ReadSteps

LEMMA OnCallIs == OnCall <=> \E b \in SdFrame : CallTop(b)
BY DEF OnCall, CallTop

LEMMA OnNothingStep ==
  ASSUME SdTypes, OnNothing, Interrupted \/ SdStarts("open", "CMD0") \/ SdStarts("read", "status")
  PROVE  OnNothing' \/ OnCall'
<1>1. SdHome /\ SdIdle /\ sderr = {}
  BY DEF OnNothing
<1>2. SdHome' /\ SdIdle' /\ sderr' = {}
  BY <1>1 DEF Interrupted, SdStarts, SdRegs, SdHome, SdIdle
<1>3. CASE sdstack' = <<>>
  BY <1>2, <1>3 DEF OnNothing
<1>4. CASE sdstack' # <<>>
  <2>1. PICK fn \in {"open", "read"}, pc \in {"CMD0", "status"} : sdstack' = <<Frame(fn, pc, NoCmd)>>
    BY <1>4 DEF Interrupted, SdStarts
  <2>2. PICK g : g = Frame(fn, pc, NoCmd)
    OBVIOUS
  <2>3. fn \in SdWords /\ pc \in SdWords /\ NoCmd \in SdWords
    BY DEF SdWords, NoCmd
  <2>4. g \in SdFrame /\ g.fn = fn /\ g.pc = pc
    BY <2>2, <2>3, FrameIs
  <2>5. Push(g, <<>>) = <<g>>
    <3>1. <<g>> \in Seq(SdFrame)
      BY <2>4
    <3> QED BY <3>1, ConcatEmptySeq DEF Push
  <2>6. BaseFrame(g)' /\ AtRest(g)'
    BY <1>2, <2>4 DEF BaseFrame, AtRest
  <2> QED BY <2>1, <2>2, <2>4, <2>5, <2>6 DEF OnCall
<1> QED BY <1>3, <1>4

(* The invariant, step by step.                                            *)
DriverSteps == \/ CmdSteps \/ RcvyResets \/ RcvyChecks \/ OpenSteps \/ ReadSteps
               \/ Interrupted \/ SdStarts("open", "CMD0") \/ SdStarts("read", "status")

LEMMA StepsAre ==
  SdNext <=> CmdCompletes \/ DataCompletes \/ CardIn \/ CardOut \/ DriverSteps
BY DEF SdNext, DriverSteps, CmdSteps, OpenSteps, ReadSteps

LEMMA RegTypes ==
  ASSUME SdInv, DriverSteps
  PROVE  /\ sdsig' \in SUBSET SdBits /\ sdsten' \in SUBSET SdBits /\ sdnml' \in SUBSET SdBits
         /\ sderr' \in SUBSET {"cmd", "data"} /\ sdcard' \in [n : Nat, state : SdWords]
<1>1. SdTypes
  BY DEF SdInv
<1>2. sdcard' = sdcard /\ sdnml' \in {sdnml, {}} /\ sderr' \in {sderr, {}}
  BY DEF DriverSteps, CmdSteps, OpenSteps, ReadSteps, CmdIssues, CmdSeesEnd, CmdSeesData, CmdChecks,
         CmdReturns, RcvyResets, RcvyChecks, OpenIssues, OpenInitialises, OpenWaits, OpenEnds, ReadStatus,
         ReadState, ReadLength, ReadData, ReadAfter, ReadEnds, Interrupted, SdStarts, SdRegs, SdQuiet,
         SdUnchanged, BitCleared
<1>3. CASE CmdReturns
  <2>1. sdstack # <<>>
    BY <1>3 DEF CmdReturns, At
  <2>2. Innermost \in SdFrame
    BY <1>1, <2>1, HeadTailProperties DEF SdTypes, Innermost
  <2>3. sdsig' \in SUBSET SdBits /\ sdsten' \in SUBSET SdBits
    BY <1>3, <2>2 DEF CmdReturns, Restores, SdFrame
  <2> QED BY <1>1, <1>2, <2>3 DEF SdTypes
<1>4. CASE ~CmdReturns
  <2>1. /\ sdsig' \in {sdsig, Silenced(sdsig)}
        /\ sdsten' \in {sdsten, sdsten \cup CmdSignals, CmdSignals \cup InitSignals}
    BY <1>4 DEF DriverSteps, CmdSteps, OpenSteps, ReadSteps, CmdIssues, CmdSeesEnd, CmdSeesData, CmdChecks,
         RcvyResets, RcvyChecks, OpenIssues, OpenInitialises, OpenWaits, OpenEnds, ReadStatus,
         ReadState, ReadLength, ReadData, ReadAfter, ReadEnds, Interrupted, SdStarts, SdRegs, SdQuiet
  <2>2. sdsig' \in SUBSET SdBits /\ sdsten' \in SUBSET SdBits
    BY <1>1, <2>1 DEF SdTypes, Silenced, SdBits
  <2> QED BY <1>1, <1>2, <2>2 DEF SdTypes
<1> QED BY <1>3, <1>4

LEMMA StackTyped ==
  ASSUME OnNothing \/ OnCall \/ OnCmd \/ OnRecovery \/ OnAbort
  PROVE  sdstack \in Seq(SdFrame)
<1>1. CASE OnNothing
  BY <1>1, StackTypes DEF OnNothing
<1>2. CASE OnCall
  BY <1>2, StackTypes DEF OnCall
<1>3. CASE OnCmd
  BY <1>3, StackTypes DEF OnCmd
<1>4. CASE OnRecovery
  BY <1>4, StackTypes DEF OnRecovery
<1>5. CASE OnAbort
  BY <1>5, StackTypes DEF OnAbort
<1> QED BY <1>1, <1>2, <1>3, <1>4, <1>5

(* What is on top says whose step it can be.                               *)
LEMMA WhoMoves ==
  ASSUME SdTypes, DriverSteps
  PROVE  /\ OnNothing => Interrupted \/ SdStarts("open", "CMD0") \/ SdStarts("read", "status")
         /\ \A b \in SdFrame : CallTop(b) => OpenSteps \/ ReadSteps
         /\ OnCmd \/ OnAbort => CmdSteps
         /\ OnRecovery => RcvyResets \/ RcvyChecks
<1>1. CmdSteps => sdstack # <<>> /\ Innermost.fn = "cmd"
  BY DEF CmdSteps, CmdIssues, CmdSeesEnd, CmdSeesData, CmdChecks, CmdReturns, At
<1>2. RcvyResets \/ RcvyChecks => sdstack # <<>> /\ Innermost.fn = "rcvy"
  BY DEF RcvyResets, RcvyChecks, At
<1>3. OpenSteps => sdstack # <<>> /\ Innermost.fn = "open"
  BY DEF OpenSteps, OpenIssues, OpenInitialises, OpenWaits, OpenEnds, OpenFails, At
<1>4. ReadSteps => sdstack # <<>> /\ Innermost.fn = "read"
  BY DEF ReadSteps, ReadStatus, ReadState, ReadLength, ReadData, ReadAfter, ReadEnds, At
<1>5. Interrupted \/ SdStarts("open", "CMD0") \/ SdStarts("read", "status") => sdstack = <<>>
  BY DEF Interrupted, SdStarts
<1>6. OnNothing => sdstack = <<>>
  BY DEF OnNothing
<1>7. ASSUME NEW b \in SdFrame, CallTop(b) PROVE sdstack # <<>> /\ Innermost.fn \in {"open", "read"}
  <2>1. b \in SdFrame /\ sdstack = Push(b, <<>>) /\ b.fn \in {"open", "read"} /\ <<>> \in Seq(SdFrame)
    BY <1>7, StackTypes DEF CallTop, BaseFrame
  <2> QED BY <2>1, TopIs
<1>8. OnCmd => sdstack # <<>> /\ Innermost.fn = "cmd"
  <2> SUFFICES ASSUME OnCmd PROVE sdstack # <<>> /\ Innermost.fn = "cmd"
    OBVIOUS
  <2>1. PICK b \in SdFrame, c \in SdFrame : sdstack = Push(c, Push(b, <<>>)) /\ CmdOver(c, b)
    BY DEF OnCmd
  <2>2. Push(b, <<>>) \in Seq(SdFrame)
    BY StackTypes
  <2> QED BY <2>1, <2>2, TopIs DEF CmdOver
<1>9. OnRecovery => sdstack # <<>> /\ Innermost.fn = "rcvy"
  <2> SUFFICES ASSUME OnRecovery PROVE sdstack # <<>> /\ Innermost.fn = "rcvy"
    OBVIOUS
  <2>1. PICK b \in SdFrame, c \in SdFrame, r \in SdFrame :
          sdstack = Push(r, Push(c, Push(b, <<>>))) /\ RcvyOver(r, c)
    BY DEF OnRecovery
  <2>2. Push(c, Push(b, <<>>)) \in Seq(SdFrame)
    BY StackTypes
  <2> QED BY <2>1, <2>2, TopIs DEF RcvyOver
<1>10. OnAbort => sdstack # <<>> /\ Innermost.fn = "cmd"
  <2> SUFFICES ASSUME OnAbort PROVE sdstack # <<>> /\ Innermost.fn = "cmd"
    OBVIOUS
  <2>1. PICK b \in SdFrame, c \in SdFrame, r \in SdFrame, a \in SdFrame :
          sdstack = Push(a, Push(r, Push(c, Push(b, <<>>)))) /\ AbortOver(a)
    BY DEF OnAbort
  <2>2. Push(r, Push(c, Push(b, <<>>))) \in Seq(SdFrame)
    BY StackTypes
  <2> QED BY <2>1, <2>2, TopIs DEF AbortOver
<1>11. OnNothing => Interrupted \/ SdStarts("open", "CMD0") \/ SdStarts("read", "status")
  BY <1>1, <1>2, <1>3, <1>4, <1>6 DEF DriverSteps
<1>12. \A b \in SdFrame : CallTop(b) => OpenSteps \/ ReadSteps
  BY <1>1, <1>2, <1>5, <1>7 DEF DriverSteps
<1>13. OnCmd \/ OnAbort => CmdSteps
  BY <1>2, <1>3, <1>4, <1>5, <1>8, <1>10 DEF DriverSteps
<1>14. OnRecovery => RcvyResets \/ RcvyChecks
  BY <1>1, <1>3, <1>4, <1>5, <1>9 DEF DriverSteps
<1> QED BY <1>11, <1>12, <1>13, <1>14

LEMMA DriverKeeps ==
  ASSUME SdInv, DriverSteps
  PROVE  SdInv'
<1>1. SdTypes /\ (OnNothing \/ OnCall \/ OnCmd \/ OnRecovery \/ OnAbort)
  BY DEF SdInv
<1>2. (OnNothing \/ OnCall \/ OnCmd \/ OnRecovery \/ OnAbort)'
  <2>1. CASE OnNothing
    BY <1>1, <2>1, WhoMoves, OnNothingStep
  <2>2. CASE OnCall
    <3>1. PICK b \in SdFrame : CallTop(b)
      BY <2>2, OnCallIs
    <3>2. OpenSteps \/ ReadSteps
      BY <1>1, <3>1, WhoMoves
    <3> QED BY <1>1, <3>1, <3>2, OpenStep, ReadStep
  <2>3. CASE OnCmd
    BY <1>1, <2>3, WhoMoves, OnCmdStep
  <2>4. CASE OnRecovery
    BY <1>1, <2>4, WhoMoves, OnRecoveryStep
  <2>5. CASE OnAbort
    BY <1>1, <2>5, WhoMoves, OnAbortStep
  <2> QED BY <1>1, <2>1, <2>2, <2>3, <2>4, <2>5
<1>3. sdstack' \in Seq(SdFrame)
  <2>1. CASE OnNothing'
    BY <2>1, StackTypes DEF OnNothing
  <2>2. CASE OnCall'
    BY <2>2, StackTypes DEF OnCall
  <2>3. CASE OnCmd'
    BY <2>3, StackTypes DEF OnCmd
  <2>4. CASE OnRecovery'
    BY <2>4, StackTypes DEF OnRecovery
  <2>5. CASE OnAbort'
    BY <2>5, StackTypes DEF OnAbort
  <2> QED BY <1>2, <2>1, <2>2, <2>3, <2>4, <2>5
<1> QED BY <1>2, <1>3, RegTypes DEF SdInv, SdTypes

LEMMA HardwareKeeps ==
  ASSUME SdInv, CmdCompletes \/ DataCompletes \/ CardIn \/ CardOut
  PROVE  SdInv'
<1>1. SdTypes /\ (OnNothing \/ OnCall \/ OnCmd \/ OnRecovery \/ OnAbort)
  BY DEF SdInv
<1>2. SdTypes' /\ sdstack' = sdstack /\ sdsig' = sdsig /\ sdsten' = sdsten
  BY <1>1, HardwareTypes
<1>3. SdHome => SdHome'
  BY <1>2 DEF SdHome
<1>4. SdIdle => SdIdle' /\ sderr' = sderr /\ (SdTran => SdTran')
  BY <1>1, HardwareKeepsIdle
<1>5. ASSUME NEW c \in SdFrame, CmdOk(c) PROVE CmdOk(c)'
  BY <1>1, <1>5, HardwareKeepsCmd
<1>6. ASSUME NEW c, NEW b, CmdOver(c, b) PROVE CmdOver(c, b)'
  BY <1>3, <1>6 DEF CmdOver
<1>7. \A b, c : (BaseFrame(b) => BaseFrame(b)') /\ (RcvyOver(b, c) => RcvyOver(b, c)')
                /\ (AbortOver(b) => AbortOver(b)')
  BY DEF BaseFrame, RcvyOver, AbortOver
<1>8. CASE OnNothing
  <2>1. OnNothing'
    BY <1>2, <1>3, <1>4, <1>8 DEF OnNothing
  <2> QED BY <1>2, <2>1 DEF SdInv
<1>9. CASE OnCall
  <2>1. OnCall'
    BY <1>2, <1>3, <1>4, <1>7, <1>9 DEF OnCall, AtRest
  <2> QED BY <1>2, <2>1 DEF SdInv
<1>10. CASE OnCmd
  <2>1. OnCmd'
    BY <1>2, <1>5, <1>6, <1>7, <1>10 DEF OnCmd
  <2> QED BY <1>2, <2>1 DEF SdInv
<1>11. CASE OnRecovery
  <2>1. OnRecovery'
    BY <1>2, <1>4, <1>6, <1>7, <1>11 DEF OnRecovery
  <2> QED BY <1>2, <2>1 DEF SdInv
<1>12. CASE OnAbort
  <2>1. OnAbort'
    BY <1>2, <1>5, <1>6, <1>7, <1>12 DEF OnAbort
  <2> QED BY <1>2, <2>1 DEF SdInv
<1> QED BY <1>1, <1>8, <1>9, <1>10, <1>11, <1>12

LEMMA SdInitInv == SdInit => SdInv
<1> SUFFICES ASSUME SdInit PROVE SdInv
  OBVIOUS
<1>1. SdTypes
  <2>1. "none" \in SdWords /\ 0 \in Nat /\ <<>> \in Seq(SdFrame)
    BY DEF SdWords
  <2> QED BY <2>1 DEF SdInit, SdTypes, SdBits
<1>2. OnNothing
  BY DEF SdInit, OnNothing, SdHome, SdIdle
<1> QED BY <1>1, <1>2 DEF SdInv

LEMMA SdInvGives == SdInv => SdReadsSelectedCard
<1> SUFFICES ASSUME SdInv PROVE SdReadsSelectedCard
  OBVIOUS
<1>1. SdTypes /\ (OnNothing \/ OnCall \/ OnCmd \/ OnRecovery \/ OnAbort)
  BY DEF SdInv
<1>2. ASSUME sdbusy = "CMD17" PROVE SdTran
  <2>1. ~SdIdle
    BY <1>2 DEF SdIdle, NoCmd
  <2>2. PICK c \in SdFrame : CmdOk(c)
    BY <1>1, <2>1 DEF OnNothing, OnCall, OnCmd, OnRecovery, OnAbort, AtRest
  <2>3. c.pc \in {"complete", "transfer"}
    BY <2>1, <2>2 DEF CmdOk
  <2> QED BY <1>2, <2>2, <2>3 DEF CmdOk, AtComplete, NoCmd
<1>3. ASSUME sdstack = <<>> PROVE SdHome
  <2>1. \A b \in SdFrame, t \in Seq(SdFrame) : Push(b, t) # <<>>
    BY PushIs DEF Push
  <2>2. OnNothing
    BY <1>1, <1>3, <2>1, StackTypes DEF OnCall, OnCmd, OnRecovery, OnAbort
  <2> QED BY <2>2 DEF OnNothing
<1> QED BY <1>2, <1>3 DEF SdReadsSelectedCard, SdTran, SdHome

(* For any number of cards put in and taken out at any time, whatever      *)
(* errors the controller reports and whatever the recovery answers: a      *)
(* block is asked for only of the selected card the read has looked at,    *)
(* and between calls the driver listens for the next card.                 *)
THEOREM SdReadsSelectedCardAlways == SdSpec => []SdReadsSelectedCard
<1>1. SdInit => SdInv
  BY SdInitInv
<1>2. SdInv /\ [SdNext]_SdVars => SdInv'
  <2> SUFFICES ASSUME SdInv, [SdNext]_SdVars PROVE SdInv'
    OBVIOUS
  <2>1. CASE SdNext
    BY <2>1, StepsAre, DriverKeeps, HardwareKeeps
  <2>2. CASE UNCHANGED SdVars
    <3>1. SdTypes' /\ SdHome' = SdHome /\ SdIdle' = SdIdle /\ SdTran' = SdTran /\ sderr' = sderr /\ sdstack' = sdstack
      BY <2>2 DEF SdVars, SdInv, SdTypes, SdHome, SdIdle, SdTran
    <3>2. ASSUME NEW b PROVE AtRest(b)' = AtRest(b)
      BY <3>1 DEF AtRest
    <3>3. ASSUME NEW cmd PROVE AtComplete(cmd)' = AtComplete(cmd)
      BY <2>2, <3>1 DEF AtComplete, SdVars
    <3>4. ASSUME NEW c PROVE CmdOk(c)' = CmdOk(c)
      BY <2>2, <3>1, <3>3 DEF CmdOk, SdVars
    <3>5. ASSUME NEW b, NEW c PROVE CmdOver(c, b)' = CmdOver(c, b)
      BY <3>1 DEF CmdOver
    <3>6. OnNothing => OnNothing'
      BY <3>1 DEF OnNothing
    <3>7. OnCall => OnCall'
      BY <3>1, <3>2 DEF OnCall, BaseFrame
    <3>8. OnCmd => OnCmd'
      BY <3>1, <3>4, <3>5 DEF OnCmd, BaseFrame
    <3>9. OnRecovery => OnRecovery'
      BY <3>1, <3>5 DEF OnRecovery, BaseFrame, RcvyOver
    <3>10. OnAbort => OnAbort'
      BY <3>1, <3>4, <3>5 DEF OnAbort, BaseFrame, RcvyOver, AbortOver
    <3> QED BY <3>1, <3>6, <3>7, <3>8, <3>9, <3>10 DEF SdInv
  <2> QED BY <2>1, <2>2
<1>3. SdInv => SdReadsSelectedCard
  BY SdInvGives
<1> QED BY <1>1, <1>2, <1>3, PTL DEF SdSpec

-----------------------------------------------------------------------------
(***************************************************************************)
(* The lexical analyser.  Between two tokens, lexan() and the automaton    *)
(* that reads one character at a time agree on the tokens so far: either   *)
(* the automaton is in a gap, or in a word that the next character ends.   *)
(***************************************************************************)
(* What a character does, by the state it is read in.                      *)
LEMMA ReadsBad == ASSUME NEW c, NEW a, a.in = "bad" PROVE LxRead(c, a) = a
BY DEF LxRead

LEMMA ReadsQuote ==
  ASSUME NEW c, NEW a, a.in = "quote", NEW r, r = LxRead(c, a)
  PROVE  /\ c = a.open => r.in = "gap" /\ r.toks = Append(a.toks, LxToken("OTHER", a.text)) /\ r.text = <<>>
         /\ c # a.open => r.in = "quote" /\ r.open = a.open /\ r.toks = a.toks /\ r.text = Append(a.text, c)
<1>1. CASE c = a.open
  <2>1. r = LxState("gap", "", Append(a.toks, LxToken("OTHER", a.text)), <<>>)
    BY <1>1 DEF LxRead
  <2>2. r.in = "gap" /\ r.toks = Append(a.toks, LxToken("OTHER", a.text)) /\ r.text = <<>>
    BY ONLY <2>1 DEF LxState
  <2> QED BY <1>1, <2>2
<1>2. CASE c # a.open
  <2>1. r = LxState("quote", a.open, a.toks, Append(a.text, c))
    BY <1>2 DEF LxRead
  <2>2. r.in = "quote" /\ r.open = a.open /\ r.toks = a.toks /\ r.text = Append(a.text, c)
    BY ONLY <2>1 DEF LxState
  <2> QED BY <1>2, <2>2
<1> QED BY <1>1, <1>2

LEMMA ReadsOther ==
  ASSUME NEW c \in Others, NEW a, a.in \in {"gap", "word"}, NEW r, r = LxRead(c, a)
  PROVE  r.in = "word" /\ r.toks = a.toks /\ r.text = Append(a.text, c)
<1>1. r = LxState("word", "", a.toks, Append(a.text, c))
  BY DEF LxRead
<1> QED BY ONLY <1>1 DEF LxState

LEMMA ReadsBeyond ==
  ASSUME NEW c, c \notin Others, NEW a, a.in = "word", c \in Quotes \cup {"<", ">"}, NEW r, r = LxRead(c, a)
  PROVE  r.in = "bad" /\ r.toks = a.toks /\ r.text = a.text
<1>1. r = LxState("bad", "", a.toks, a.text)
  BY DEF LxRead
<1> QED BY ONLY <1>1 DEF LxState

(* A character that may end a word, or comes in a gap.                     *)
LEMMA ReadsNext ==
  ASSUME NEW c, c \notin Others, NEW a, a.in \in {"gap", "word"},
         ~(a.in = "word" /\ c \in Quotes \cup {"<", ">"}), NEW r, r = LxRead(c, a)
  PROVE  /\ r.text = <<>>
         /\ c \in Quotes => r.in = "quote" /\ r.open = c /\ r.toks = LxClosed(a)
         /\ c \notin Quotes => r.in = "gap"
         /\ c \in Operators => r.toks = Append(LxClosed(a), LxToken(c, <<c>>))
         /\ c \notin Quotes \cup Operators => r.toks = LxClosed(a)
<1>0. ~(c \in Quotes /\ c \in Operators)
  BY DEF Quotes, Operators
<1>1. CASE c \in Quotes
  <2>1. r = LxState("quote", c, LxClosed(a), <<>>)
    BY <1>1 DEF LxRead
  <2>2. r.in = "quote" /\ r.open = c /\ r.toks = LxClosed(a) /\ r.text = <<>>
    BY ONLY <2>1 DEF LxState
  <2> QED BY <1>0, <1>1, <2>2
<1>2. CASE c \in Operators
  <2>1. r = LxState("gap", "", Append(LxClosed(a), LxToken(c, <<c>>)), <<>>)
    BY <1>0, <1>2 DEF LxRead
  <2>2. r.in = "gap" /\ r.toks = Append(LxClosed(a), LxToken(c, <<c>>)) /\ r.text = <<>>
    BY ONLY <2>1 DEF LxState
  <2> QED BY <1>0, <1>2, <2>2
<1>3. CASE c \notin Quotes \cup Operators
  <2>1. r = LxState("gap", "", LxClosed(a), <<>>)
    BY <1>3 DEF LxRead
  <2>2. r.in = "gap" /\ r.toks = LxClosed(a) /\ r.text = <<>>
    BY ONLY <2>1 DEF LxState
  <2> QED BY <1>3, <2>2
<1> QED BY <1>1, <1>2, <1>3

LxStarts(c, a, r) ==
  /\ r.text = <<>>
  /\ c \in Quotes => r.in = "quote" /\ r.open = c /\ r.toks = LxClosed(a)
  /\ c \notin Quotes => r.in = "gap"
  /\ c \in Operators => r.toks = Append(LxClosed(a), LxToken(c, <<c>>))
LEMMA StartsNext ==
  ASSUME NEW c, c \notin Others, NEW a, a.in \in {"gap", "word"},
         ~(a.in = "word" /\ c \in Quotes \cup {"<", ">"}), NEW r, r = LxRead(c, a)
  PROVE  LxStarts(c, a, r)
<1>1. /\ r.text = <<>>
      /\ c \in Quotes => r.in = "quote" /\ r.open = c /\ r.toks = LxClosed(a)
      /\ c \notin Quotes => r.in = "gap"
      /\ c \in Operators => r.toks = Append(LxClosed(a), LxToken(c, <<c>>))
      /\ c \notin Quotes \cup Operators => r.toks = LxClosed(a)
  BY ReadsNext
<1> QED BY <1>1 DEF LxStarts

LEMMA ReadsBlank ==
  ASSUME NEW c \in Blanks, NEW a, a.in \in {"gap", "word"}, NEW r, r = LxRead(c, a)
  PROVE  r.in = "gap" /\ r.text = <<>> /\ r.toks = LxClosed(a)
<1>1. c \notin Others /\ c \notin Quotes /\ c \notin {"<", ">"} /\ c \notin Operators
  BY DEF Others, Blanks, Quotes, Operators
<1>2. r = LxState("gap", "", LxClosed(a), <<>>)
  BY <1>1 DEF LxRead
<1> QED BY ONLY <1>2 DEF LxState

(* The automaton has a state after each character.                         *)
LxRun(line, a, m) ==
  a = [i \in 0..m |-> IF i = 0 THEN LxState("gap", "", <<>>, <<>>) ELSE LxRead(line[i], a[i - 1])]
LEMMA RunGoesOn ==
  ASSUME NEW line, NEW m \in Nat, NEW a, LxRun(line, a, m)
  PROVE  \E b : LxRun(line, b, m + 1)
<1>1. PICK s : s = LxState("gap", "", <<>>, <<>>)
  OBVIOUS
<1>2. a = [i \in 0..m |-> IF i = 0 THEN s ELSE LxRead(line[i], a[i - 1])]
  BY <1>1 DEF LxRun
<1>3. PICK b : b = [i \in 0..m + 1 |-> IF i = m + 1 THEN LxRead(line[m + 1], a[m]) ELSE a[i]]
  OBVIOUS
<1>4. ASSUME NEW i \in 0..m + 1
      PROVE  b[i] = IF i = 0 THEN s ELSE LxRead(line[i], b[i - 1])
  <2>1. CASE i = 0
    <3>1. i \in 0..m /\ i # m + 1
      BY <2>1
    <3>2. b[i] = a[i] /\ a[i] = s
      BY <1>2, <1>3, <2>1, <3>1
    <3> QED BY <2>1, <3>2
  <2>2. CASE i = m + 1
    <3>1. i # 0 /\ i - 1 = m /\ m \in 0..m + 1 /\ m # m + 1
      BY <2>2
    <3>2. b[i] = LxRead(line[m + 1], a[m]) /\ b[m] = a[m]
      BY <1>3, <2>2, <3>1
    <3> QED BY <2>2, <3>1, <3>2
  <2>3. CASE i # 0 /\ i # m + 1
    <3>1. i \in 0..m /\ i - 1 \in 0..m + 1 /\ i - 1 # m + 1
      BY <2>3
    <3>2. b[i] = a[i] /\ b[i - 1] = a[i - 1] /\ a[i] = LxRead(line[i], a[i - 1])
      BY <1>2, <1>3, <2>3, <3>1
    <3> QED BY <2>3, <3>2
  <2> QED BY <2>1, <2>2, <2>3
<1>5. b = [i \in 0..m + 1 |-> IF i = 0 THEN s ELSE LxRead(line[i], b[i - 1])]
  BY <1>3, <1>4
<1> QED BY <1>1, <1>5 DEF LxRun

LEMMA StatesStep ==
  ASSUME NEW S, NEW line \in Seq(S)
  PROVE  /\ LxStates(line)[0] = LxState("gap", "", <<>>, <<>>)
         /\ \A i \in 1..Len(line) : LxStates(line)[i] = LxRead(line[i], LxStates(line)[i - 1])
<1>1. PICK n \in Nat : n = Len(line)
  OBVIOUS
<1>2. PICK P : P = {m \in 0..n : \E b : LxRun(line, b, m)}
  OBVIOUS
<1>3. 0 \in P
  <2>1. PICK s, a : s = LxState("gap", "", <<>>, <<>>) /\ a = [i \in 0..0 |-> s]
    OBVIOUS
  <2>2. a = [i \in 0..0 |-> IF i = 0 THEN s ELSE LxRead(line[i], a[i - 1])]
    <3>1. \A i \in 0..0 : i = 0
      OBVIOUS
    <3>2. [i \in 0..0 |-> s] = [i \in 0..0 |-> IF i = 0 THEN s ELSE LxRead(line[i], a[i - 1])]
      BY <3>1
    <3> QED BY <2>1, <3>2
  <2>3. LxRun(line, a, 0)
    BY <2>1, <2>2 DEF LxRun
  <2> QED BY <1>2, <2>3
<1>4. ASSUME NEW m \in 0..n - 1, m \in P PROVE m + 1 \in P
  <2>1. PICK a : LxRun(line, a, m)
    BY <1>2, <1>4
  <2>2. m \in Nat /\ m + 1 \in 0..n
    OBVIOUS
  <2>3. \E b : LxRun(line, b, m + 1)
    BY <2>1, <2>2, RunGoesOn
  <2> QED BY <1>2, <2>2, <2>3
<1>5. 0..n \subseteq P
  BY <1>3, <1>4, CountUp
<1>6. PICK a : LxRun(line, a, n)
  BY <1>2, <1>5
<1>7. LxRun(line, LxStates(line), n)
  <2>1. LxStates(line) = CHOOSE f : LxRun(line, f, n)
    BY <1>1, Zenon DEF LxStates, LxRun
  <2> QED BY <1>6, <2>1
<1>8. PICK f : f = LxStates(line)
  OBVIOUS
<1>9. f = [i \in 0..n |-> IF i = 0 THEN LxState("gap", "", <<>>, <<>>) ELSE LxRead(line[i], f[i - 1])]
  BY <1>7, <1>8 DEF LxRun
<1>10. 0 \in 0..n /\ \A i \in 1..n : i \in 0..n /\ i # 0
  OBVIOUS
<1> QED BY <1>1, <1>8, <1>9, <1>10

(* The states are such, and what was read of the line is in them.          *)
LxTok == [type : {"OTHER"} \cup Operators, text : Seq(LxChar)]
LxTyped(a) ==
  a.in \in {"gap", "word", "quote", "bad"} /\ a.toks \in Seq(LxTok) /\ a.text \in Seq(LxChar)
LEMMA ClosedTyped ==
  ASSUME NEW a, LxTyped(a)
  PROVE  /\ LxClosed(a) \in Seq(LxTok)
         /\ a.in = "word" => Len(LxClosed(a)) = Len(a.toks) + 1
         /\ a.in # "word" => LxClosed(a) = a.toks
<1>1. PICK t : t = LxToken("OTHER", a.text)
  OBVIOUS
<1>2. t \in LxTok
  BY <1>1 DEF LxTyped, LxTok, LxToken
<1>3. PICK q : q = a.toks
  OBVIOUS
<1>4. q \in Seq(LxTok)
  BY <1>3 DEF LxTyped
<1>5. Append(q, t) \in Seq(LxTok) /\ Len(Append(q, t)) = Len(q) + 1
  BY <1>2, <1>4
<1>6. LxClosed(a) = IF a.in = "word" THEN Append(q, t) ELSE q
  BY <1>1, <1>3 DEF LxClosed
<1> QED BY <1>3, <1>4, <1>5, <1>6

LEMMA ReadTyped ==
  ASSUME NEW a, LxTyped(a), NEW c \in LxChar, NEW r, r = LxRead(c, a)
  PROVE  LxTyped(r)
<1>1. PICK t, x : t = LxToken("OTHER", a.text) /\ x = Append(a.text, c)
  OBVIOUS
<1>2. a.toks \in Seq(LxTok) /\ a.text \in Seq(LxChar) /\ a.in \in {"gap", "word", "quote", "bad"}
  BY DEF LxTyped
<1>3. t \in LxTok
  BY <1>1, <1>2 DEF LxTok, LxToken
<1>4. x \in Seq(LxChar)
  BY <1>1, <1>2
<1>5. Append(a.toks, t) \in Seq(LxTok)
  BY <1>2, <1>3
<1>6. LxClosed(a) \in Seq(LxTok)
  BY ClosedTyped
<1>7. CASE a.in = "bad"
  BY <1>7, ReadsBad
<1>8. CASE a.in = "quote"
  <2>1. /\ c = a.open => r.in = "gap" /\ r.toks = Append(a.toks, t) /\ r.text = <<>>
        /\ c # a.open => r.in = "quote" /\ r.toks = a.toks /\ r.text = x
    BY <1>1, <1>8, ReadsQuote
  <2>2. <<>> \in Seq(LxChar)
    OBVIOUS
  <2>3. CASE c = a.open
    <3>1. r.in = "gap" /\ r.toks \in Seq(LxTok) /\ r.text \in Seq(LxChar)
      BY <2>1, <2>2, <2>3, <1>5
    <3> QED BY <3>1 DEF LxTyped
  <2>4. CASE c # a.open
    <3>1. r.in = "quote" /\ r.toks \in Seq(LxTok) /\ r.text \in Seq(LxChar)
      BY <2>1, <2>4, <1>2, <1>4
    <3> QED BY <3>1 DEF LxTyped
  <2> QED BY <2>3, <2>4
<1>9. CASE a.in \in {"gap", "word"}
  <2>1. CASE c \in Others
    <3>1. r.in = "word" /\ r.toks = a.toks /\ r.text = x
      BY <1>1, <1>9, <2>1, ReadsOther
    <3>2. r.in = "word" /\ r.toks \in Seq(LxTok) /\ r.text \in Seq(LxChar)
      BY <3>1, <1>2, <1>4
    <3> QED BY <3>2 DEF LxTyped
  <2>2. CASE c \notin Others /\ a.in = "word" /\ c \in Quotes \cup {"<", ">"}
    <3>1. r.in = "bad" /\ r.toks = a.toks /\ r.text = a.text
      BY <2>2, ReadsBeyond
    <3> QED BY <3>1, <1>2 DEF LxTyped
  <2>3. CASE c \notin Others /\ ~(a.in = "word" /\ c \in Quotes \cup {"<", ">"})
    <3>1. /\ r.text = <<>>
          /\ c \in Quotes => r.in = "quote" /\ r.toks = LxClosed(a)
          /\ c \notin Quotes => r.in = "gap"
          /\ c \in Operators => r.toks = Append(LxClosed(a), LxToken(c, <<c>>))
          /\ c \notin Quotes \cup Operators => r.toks = LxClosed(a)
      BY <1>9, <2>3, ReadsNext
    <3>2. r.text \in Seq(LxChar) /\ r.in \in {"gap", "word", "quote", "bad"}
      BY <3>1
    <3>3. CASE c \in Operators
      <4>1. PICK o : o = LxToken(c, <<c>>)
        OBVIOUS
      <4>2. <<c>> \in Seq(LxChar)
        OBVIOUS
      <4>3. o \in LxTok
        BY <3>3, <4>1, <4>2 DEF LxTok, LxToken
      <4>4. Append(LxClosed(a), o) \in Seq(LxTok)
        BY <1>6, <4>3
      <4>5. r.toks \in Seq(LxTok)
        BY <3>1, <3>3, <4>1, <4>4
      <4> QED BY <3>2, <4>5 DEF LxTyped
    <3>4. CASE c \notin Operators
      <4>1. r.toks = LxClosed(a)
        BY <3>1, <3>4
      <4> QED BY <3>2, <4>1, <1>6 DEF LxTyped
    <3> QED BY <3>3, <3>4
  <2> QED BY <2>1, <2>2, <2>3
<1> QED BY <1>2, <1>7, <1>8, <1>9

LEMMA StatesTyped ==
  ASSUME NEW line \in Seq(LxChar), NEW a, a = LxStates(line)
  PROVE  \A j \in 0..Len(line) : LxTyped(a[j])
<1>1. PICK n \in Nat : n = Len(line)
  OBVIOUS
<1>2. PICK P : P = {j \in 0..n : LxTyped(a[j])}
  OBVIOUS
<1>3. 0 \in P
  <2>0. PICK r : r = a[0]
    OBVIOUS
  <2>1. r = LxState("gap", "", <<>>, <<>>)
    BY <2>0, StatesStep
  <2>2. r.in = "gap" /\ r.toks = <<>> /\ r.text = <<>>
    BY ONLY <2>1 DEF LxState
  <2>3. <<>> \in Seq(LxTok) /\ <<>> \in Seq(LxChar)
    OBVIOUS
  <2>4. LxTyped(r)
    BY <2>2, <2>3 DEF LxTyped
  <2> QED BY <1>2, <2>0, <2>4
<1>4. ASSUME NEW j \in 0..n - 1, j \in P PROVE j + 1 \in P
  <2>1. j + 1 \in 1..n /\ (j + 1) - 1 = j
    OBVIOUS
  <2>2. a[j + 1] = LxRead(line[j + 1], a[j])
    BY <1>1, <2>1, StatesStep
  <2>3. line[j + 1] \in LxChar /\ LxTyped(a[j])
    BY <1>1, <1>2, <1>4, <2>1
  <2>4. LxTyped(a[j + 1])
    BY <2>2, <2>3, ReadTyped
  <2> QED BY <1>2, <2>1, <2>4
<1>5. 0..n \subseteq P
  BY <1>3, <1>4, CountUp
<1> QED BY <1>1, <1>2, <1>5

(* What a stretch of the line does to the automaton: blanks, characters of *)
(* a word, and characters of a string.                                     *)
LxQuiet(a, toks) ==
  a.in \in {"gap", "word"} /\ (a.in = "gap" => a.text = <<>>) /\ LxClosed(a) = toks
LxBlankRun(line, p, m) == p \in 0..Len(line) /\ m \in p..Len(line) /\ \A k \in p + 1..m : line[k] \in Blanks
LxQuietRun(a, p, m, toks) == \A j \in p..m : LxQuiet(a[j], toks) /\ (a[j].in = "word" => j = p)
LEMMA ReadsBlanks ==
  ASSUME NEW line \in Seq(LxChar), NEW a, a = LxStates(line), NEW p, NEW m, LxBlankRun(line, p, m),
         NEW toks, LxQuiet(a[p], toks)
  PROVE  LxQuietRun(a, p, m, toks)
<1>0. p \in 0..Len(line) /\ m \in p..Len(line) /\ \A k \in p + 1..m : line[k] \in Blanks
  BY DEF LxBlankRun
<1>1. PICK d \in Nat : d = m - p
  BY <1>0
<1>2. PICK P : P = {i \in 0..d : LxQuiet(a[p + i], toks) /\ (a[p + i].in = "word" => i = 0)}
  OBVIOUS
<1>3. 0 \in P
  <2>1. p + 0 = p /\ 0 \in 0..d
    BY <1>0
  <2> QED BY <1>2, <2>1
<1>4. ASSUME NEW i \in 0..d - 1, i \in P PROVE i + 1 \in P
  <2>1. PICK c : c = line[p + (i + 1)]
    OBVIOUS
  <2>2. p + (i + 1) \in 1..Len(line) /\ (p + (i + 1)) - 1 = p + i /\ p + (i + 1) \in p + 1..m /\ i + 1 \in 0..d
    BY <1>0, <1>1
  <2>3. PICK r, s : r = a[p + (i + 1)] /\ s = a[p + i]
    OBVIOUS
  <2>4. r = LxRead(c, s)
    BY <2>1, <2>2, <2>3, StatesStep
  <2>5. c \in Blanks
    BY <1>0, <2>1, <2>2
  <2>7. s.in \in {"gap", "word"} /\ LxClosed(s) = toks
    BY <1>2, <1>4, <2>3 DEF LxQuiet
  <2>8. r.in = "gap" /\ r.text = <<>> /\ r.toks = LxClosed(s)
    <3>1. s.in \in {"gap", "word"}
      BY <2>7
    <3> QED BY ONLY <2>4, <2>5, <3>1, ReadsBlank
  <2>9. LxQuiet(r, toks) /\ r.in # "word"
    BY <2>7, <2>8 DEF LxQuiet, LxClosed
  <2> QED BY <1>2, <2>2, <2>3, <2>9
<1>5. 0..d \subseteq P
  BY <1>3, <1>4, CountUp
<1>6. ASSUME NEW j \in p..m PROVE LxQuiet(a[j], toks) /\ (a[j].in = "word" => j = p)
  <2>1. PICK i : i = j - p
    OBVIOUS
  <2>2. i \in 0..d /\ p + i = j /\ (i = 0 => j = p)
    BY <1>0, <1>1, <2>1
  <2>3. i \in P
    BY <1>5, <2>2
  <2>4. LxQuiet(a[p + i], toks) /\ (a[p + i].in = "word" => i = 0)
    BY ONLY <1>2, <2>3
  <2> QED BY <2>2, <2>4
<1> QED BY <1>6 DEF LxQuietRun

LEMMA TextGrows ==
  ASSUME NEW S, NEW line \in Seq(S), NEW s \in 1..Len(line), NEW j \in s - 1..Len(line) - 1
  PROVE  Append(SubSeq(line, s, j), line[j + 1]) = SubSeq(line, s, j + 1)
<1>1. PICK x, y : x = SubSeq(line, s, j) /\ y = SubSeq(line, s, j + 1)
  OBVIOUS
<1>2. s \in Int /\ j \in Int /\ Len(line) \in Nat /\ s >= 1 /\ s <= j + 1 /\ j + 1 <= Len(line)
  OBVIOUS
<1>3. PICK c \in S : c = line[j + 1]
  BY <1>2
<1>4. \A i \in s..j + 1 : line[i] \in S
  BY <1>2
<1>5. x \in Seq(S) /\ Len(x) = j - s + 1 /\ \A i \in 1..(j - s + 1) : x[i] = line[s + i - 1]
  <2>1. \A i \in s..j : line[i] \in S
    BY <1>2, <1>4
  <2>2. Len(SubSeq(line, s, j)) = IF s <= j THEN j - s + 1 ELSE 0
    BY <1>2, <2>1, SubSeqProperties
  <2>3. SubSeq(line, s, j) \in Seq(S) /\ \A i \in 1..(j - s + 1) : SubSeq(line, s, j)[i] = line[s + i - 1]
    BY <1>2, <2>1, SubSeqProperties
  <2>4. (IF s <= j THEN j - s + 1 ELSE 0) = j - s + 1
    BY <1>2
  <2> QED BY <1>1, <2>2, <2>3, <2>4
<1>6. y \in Seq(S) /\ Len(y) = j - s + 2 /\ \A i \in 1..(j - s + 2) : y[i] = line[s + i - 1]
  <2>1. j + 1 \in Int /\ (j + 1) - s + 1 = j - s + 2
    BY <1>2
  <2>2. Len(SubSeq(line, s, j + 1)) = IF s <= j + 1 THEN (j + 1) - s + 1 ELSE 0
    BY <1>2, <1>4, <2>1, SubSeqProperties
  <2>3. SubSeq(line, s, j + 1) \in Seq(S) /\ \A i \in 1..((j + 1) - s + 1) : SubSeq(line, s, j + 1)[i] = line[s + i - 1]
    BY <1>2, <1>4, <2>1, SubSeqProperties
  <2> QED BY <1>1, <1>2, <2>1, <2>2, <2>3
<1>7. PICK z \in Seq(S) : z = Append(x, c)
  <2>1. x \in Seq(S) /\ c \in S
    BY <1>5
  <2>2. Append(x, c) \in Seq(S)
    BY ONLY <2>1
  <2> QED BY <2>2
<1>8. Len(z) = j - s + 2 /\ (\A i \in 1..(j - s + 1) : z[i] = x[i]) /\ z[j - s + 2] = c
  <2>1. PICK l \in Nat : l = j - s + 1 /\ l + 1 = j - s + 2
    BY <1>2
  <2>2. Len(x) = l /\ x \in Seq(S)
    BY <1>5, <2>1
  <2>3. Len(z) = l + 1 /\ (\A i \in 1..l : z[i] = x[i]) /\ z[l + 1] = c
    BY ONLY <2>2, <1>7, c \in S
  <2> QED BY <2>1, <2>3
<1>10. ASSUME NEW i \in 1..(j - s + 2) PROVE z[i] = y[i]
  <2>1. CASE i = j - s + 2
    <3>1. s + i - 1 = j + 1
      BY <1>2, <2>1
    <3> QED BY <3>1, <2>1, <1>3, <1>6, <1>8
  <2>2. CASE i # j - s + 2
    <3>1. i \in 1..(j - s + 1)
      BY <1>2, <2>2
    <3> QED BY <3>1, <1>5, <1>6, <1>8
  <2> QED BY <2>1, <2>2
<1>11. z = y
  BY <1>6, <1>7, <1>8, <1>10, SeqEqual
<1> QED BY <1>1, <1>3, <1>7, <1>11

LEMMA NoText ==
  ASSUME NEW S, NEW line \in Seq(S), NEW s \in Nat
  PROVE  SubSeq(line, s, s - 1) = <<>>
OBVIOUS

LxInside(a, in, toks, text) == a.in = in /\ a.toks = toks /\ a.text = text
LEMMA ReadsWord ==
  ASSUME NEW line \in Seq(LxChar), NEW a, a = LxStates(line), NEW s \in 1..Len(line), NEW m \in s..Len(line),
         NEW toks, LxInside(a[s - 1], "gap", toks, <<>>), \A k \in s..m : line[k] \in Others
  PROVE  \A j \in s..m : LxInside(a[j], "word", toks, SubSeq(line, s, j))
<1>1. PICK d \in Nat : d = m - s + 1
  OBVIOUS
<1>2. PICK P : P = {i \in 0..d : /\ a[s - 1 + i].in = (IF i = 0 THEN "gap" ELSE "word")
                                 /\ a[s - 1 + i].toks = toks /\ a[s - 1 + i].text = SubSeq(line, s, s - 1 + i)}
  OBVIOUS
<1>3. 0 \in P
  <2>1. s - 1 + 0 = s - 1 /\ 0 \in 0..d
    OBVIOUS
  <2>2. SubSeq(line, s, s - 1) = <<>>
    BY NoText
  <2>3. a[s - 1].in = "gap" /\ a[s - 1].toks = toks /\ a[s - 1].text = <<>>
    BY DEF LxInside
  <2> QED BY <1>2, <2>1, <2>2, <2>3
<1>4. ASSUME NEW i \in 0..d - 1, i \in P PROVE i + 1 \in P
  <2>1. PICK j : j = s - 1 + i
    OBVIOUS
  <2>2. j \in s - 1..Len(line) - 1 /\ j + 1 \in 1..Len(line) /\ (j + 1) - 1 = j /\ j + 1 \in s..m
        /\ i + 1 \in 0..d /\ s - 1 + (i + 1) = j + 1 /\ i + 1 # 0
    BY <1>1, <2>1
  <2>3. PICK r, t, c : r = a[j + 1] /\ t = a[j] /\ c = line[j + 1]
    OBVIOUS
  <2>4. r = LxRead(c, t)
    BY <2>2, <2>3, StatesStep
  <2>5. c \in Others
    BY <2>2, <2>3
  <2>6. t.in \in {"gap", "word"} /\ t.toks = toks /\ t.text = SubSeq(line, s, j)
    BY <1>2, <1>4, <2>1, <2>3
  <2>7. r.in = "word" /\ r.toks = t.toks /\ r.text = Append(t.text, c)
    <3>1. t.in \in {"gap", "word"}
      BY <2>6
    <3> QED BY ONLY <2>4, <2>5, <3>1, ReadsOther
  <2>8. Append(SubSeq(line, s, j), line[j + 1]) = SubSeq(line, s, j + 1)
    BY <2>2, TextGrows
  <2>9. r.in = "word" /\ r.toks = toks /\ r.text = SubSeq(line, s, j + 1)
    BY <2>3, <2>6, <2>7, <2>8
  <2> QED BY <1>2, <2>2, <2>3, <2>9
<1>5. 0..d \subseteq P
  BY <1>3, <1>4, CountUp
<1>6. ASSUME NEW j \in s..m PROVE LxInside(a[j], "word", toks, SubSeq(line, s, j))
  <2>1. PICK i : i = j - s + 1
    OBVIOUS
  <2>2. i \in 0..d /\ s - 1 + i = j /\ i # 0
    BY <1>1, <2>1
  <2>3. a[j].in = "word" /\ a[j].toks = toks /\ a[j].text = SubSeq(line, s, j)
    BY <1>2, <1>5, <2>2
  <2> QED BY <2>3 DEF LxInside
<1> QED BY <1>6

LxNoQuote(line, s, m, q) == s \in 1..Len(line) /\ m \in s..Len(line) /\ \A k \in s + 1..m : line[k] # q
LxString(line, a, s, m, q, toks) ==
  \A j \in s..m : LxInside(a[j], "quote", toks, SubSeq(line, s + 1, j)) /\ a[j].open = q
LEMMA ReadsString ==
  ASSUME NEW line \in Seq(LxChar), NEW a, a = LxStates(line), NEW s, NEW m, NEW q, LxNoQuote(line, s, m, q),
         NEW toks, LxInside(a[s], "quote", toks, <<>>), a[s].open = q
  PROVE  LxString(line, a, s, m, q, toks)
<1>0. s \in 1..Len(line) /\ m \in s..Len(line) /\ \A k \in s + 1..m : line[k] # q
  BY DEF LxNoQuote
<1>1. PICK d \in Nat : d = m - s
  BY <1>0
<1>2. PICK P : P = {i \in 0..d : /\ a[s + i].in = "quote" /\ a[s + i].open = q
                                 /\ a[s + i].toks = toks /\ a[s + i].text = SubSeq(line, s + 1, s + i)}
  OBVIOUS
<1>3. 0 \in P
  <2>1. s + 0 = s /\ 0 \in 0..d /\ s + 1 \in Nat /\ (s + 1) - 1 = s
    BY <1>0
  <2>2. SubSeq(line, s + 1, (s + 1) - 1) = <<>>
    BY <2>1, NoText
  <2>3. a[s].in = "quote" /\ a[s].toks = toks /\ a[s].text = <<>>
    BY DEF LxInside
  <2> QED BY <1>2, <2>1, <2>2, <2>3
<1>4. ASSUME NEW i \in 0..d - 1, i \in P PROVE i + 1 \in P
  <2>1. PICK j : j = s + i
    OBVIOUS
  <2>2. j \in (s + 1) - 1..Len(line) - 1 /\ j + 1 \in 1..Len(line) /\ (j + 1) - 1 = j /\ j + 1 \in s + 1..m
        /\ i + 1 \in 0..d /\ s + (i + 1) = j + 1 /\ s + 1 \in 1..Len(line)
    BY <1>0, <1>1, <2>1
  <2>3. PICK r, t, c : r = a[j + 1] /\ t = a[j] /\ c = line[j + 1]
    OBVIOUS
  <2>4. r = LxRead(c, t)
    BY <2>2, <2>3, StatesStep
  <2>5. c # q
    BY <1>0, <2>2, <2>3
  <2>6. t.in = "quote" /\ t.open = q /\ t.toks = toks /\ t.text = SubSeq(line, s + 1, j)
    BY <1>2, <1>4, <2>1, <2>3
  <2>7. r.in = "quote" /\ r.open = t.open /\ r.toks = t.toks /\ r.text = Append(t.text, c)
    <3>1. t.in = "quote" /\ c # t.open
      BY <2>5, <2>6
    <3> QED BY ONLY <2>4, <3>1, ReadsQuote
  <2>8. Append(SubSeq(line, s + 1, j), line[j + 1]) = SubSeq(line, s + 1, j + 1)
    BY <2>2, TextGrows
  <2>9. r.in = "quote" /\ r.open = q /\ r.toks = toks /\ r.text = SubSeq(line, s + 1, j + 1)
    BY <2>3, <2>6, <2>7, <2>8
  <2> QED BY <1>2, <2>2, <2>3, <2>9
<1>5. 0..d \subseteq P
  BY <1>3, <1>4, CountUp
<1>6. ASSUME NEW j \in s..m PROVE LxInside(a[j], "quote", toks, SubSeq(line, s + 1, j)) /\ a[j].open = q
  <2>1. PICK i : i = j - s
    OBVIOUS
  <2>2. i \in 0..d /\ s + i = j
    BY <1>0, <1>1, <2>1
  <2>3. a[j].in = "quote" /\ a[j].open = q /\ a[j].toks = toks /\ a[j].text = SubSeq(line, s + 1, j)
    BY <1>2, <1>5, <2>2
  <2> QED BY <2>3 DEF LxInside
<1> QED BY <1>6 DEF LxString

(* After a character too many the line has more than m tokens, or an error *)
(* that the automaton sees.                                                *)
LxEnded(a, m) ==
  \/ a.in = "bad"
  \/ a.in \in {"quote", "word"} /\ Len(a.toks) >= m
  \/ a.in = "gap" /\ Len(a.toks) >= m + 1
LEMMA EndedGoesOn ==
  ASSUME NEW m \in Nat, NEW a, LxTyped(a), LxEnded(a, m), NEW c \in LxChar, NEW r, r = LxRead(c, a)
  PROVE  LxEnded(r, m)
<1>0. a.toks \in Seq(LxTok) /\ LxClosed(a) \in Seq(LxTok) /\ a.text \in Seq(LxChar)
  BY ClosedTyped DEF LxTyped
<1>1. CASE a.in = "bad"
  BY <1>1, ReadsBad DEF LxEnded
<1>2. CASE a.in = "quote"
  <2>1. PICK t : t = LxToken("OTHER", a.text)
    OBVIOUS
  <2>2. t \in LxTok
    BY <1>0, <2>1 DEF LxTok, LxToken
  <2>3. /\ c = a.open => r.in = "gap" /\ r.toks = Append(a.toks, t)
        /\ c # a.open => r.in = "quote" /\ r.toks = a.toks
    BY <1>2, <2>1, ReadsQuote
  <2>4. Len(Append(a.toks, t)) = Len(a.toks) + 1 /\ Len(a.toks) \in Nat
    BY <1>0, <2>2
  <2>5. Len(a.toks) >= m
    BY <1>2 DEF LxEnded
  <2>6. CASE c = a.open
    <3>1. r.in = "gap" /\ Len(r.toks) >= m + 1
      BY <2>3, <2>4, <2>5, <2>6
    <3> QED BY <3>1 DEF LxEnded
  <2>7. CASE c # a.open
    <3>1. r.in = "quote" /\ Len(r.toks) >= m
      BY <2>3, <2>5, <2>7
    <3> QED BY <3>1 DEF LxEnded
  <2> QED BY <2>6, <2>7
<1>3. CASE a.in \in {"gap", "word"}
  <2>1. Len(a.toks) \in Nat /\ Len(a.toks) >= m /\ Len(LxClosed(a)) \in Nat /\ Len(LxClosed(a)) >= m + 1
    <3>1. Len(a.toks) \in Nat
      BY <1>0
    <3>2. CASE a.in = "word"
      <4>1. Len(LxClosed(a)) = Len(a.toks) + 1 /\ Len(a.toks) >= m
        BY <3>2, ClosedTyped DEF LxEnded
      <4> QED BY <3>1, <4>1
    <3>3. CASE a.in = "gap"
      <4>1. LxClosed(a) = a.toks /\ Len(a.toks) >= m + 1
        BY <3>3, ClosedTyped DEF LxEnded
      <4> QED BY <3>1, <4>1
    <3> QED BY <1>3, <3>2, <3>3
  <2>2. CASE c \in Others
    <3>1. r.in = "word" /\ r.toks = a.toks
      BY <1>3, <2>2, ReadsOther
    <3>2. r.in = "word" /\ Len(r.toks) >= m
      BY <3>1, <2>1
    <3> QED BY <3>2 DEF LxEnded
  <2>3. CASE c \notin Others /\ a.in = "word" /\ c \in Quotes \cup {"<", ">"}
    <3>1. r.in = "bad"
      BY <2>3, ReadsBeyond
    <3> QED BY <3>1 DEF LxEnded
  <2>4. CASE c \notin Others /\ ~(a.in = "word" /\ c \in Quotes \cup {"<", ">"})
    <3>1. /\ r.text = <<>>
          /\ c \in Quotes => r.in = "quote" /\ r.toks = LxClosed(a)
          /\ c \notin Quotes => r.in = "gap"
          /\ c \in Operators => r.toks = Append(LxClosed(a), LxToken(c, <<c>>))
          /\ c \notin Quotes \cup Operators => r.toks = LxClosed(a)
      BY <1>3, <2>4, ReadsNext
    <3>2. CASE c \in Quotes
      <4>1. r.in = "quote" /\ r.toks = LxClosed(a)
        BY <3>1, <3>2
      <4>2. Len(r.toks) >= m
        BY <4>1, <2>1
      <4> QED BY <4>1, <4>2 DEF LxEnded
    <3>3. CASE c \notin Quotes /\ c \in Operators
      <4>1. PICK o : o = LxToken(c, <<c>>)
        OBVIOUS
      <4>2. <<c>> \in Seq(LxChar)
        OBVIOUS
      <4>3. o \in LxTok
        BY <3>3, <4>1, <4>2 DEF LxTok, LxToken
      <4>4. Len(Append(LxClosed(a), o)) = Len(LxClosed(a)) + 1
        BY <1>0, <4>3
      <4>5. r.in = "gap" /\ r.toks = Append(LxClosed(a), o)
        BY <3>1, <3>3, <4>1
      <4>6. Len(r.toks) >= m + 1
        BY <4>4, <4>5, <2>1
      <4> QED BY <4>5, <4>6 DEF LxEnded
    <3>4. CASE c \notin Quotes /\ c \notin Operators
      <4>1. r.in = "gap" /\ r.toks = LxClosed(a)
        BY <3>1, <3>4
      <4>2. Len(r.toks) >= m + 1
        BY <4>1, <2>1
      <4> QED BY <4>1, <4>2 DEF LxEnded
    <3> QED BY <3>2, <3>3, <3>4
  <2> QED BY <2>2, <2>3, <2>4
<1> QED BY <1>1, <1>2, <1>3 DEF LxEnded

LEMMA StaysEnded ==
  ASSUME NEW line \in Seq(LxChar), NEW a, a = LxStates(line), NEW s \in 0..Len(line), NEW m \in Nat, LxEnded(a[s], m)
  PROVE  LxEnded(a[Len(line)], m)
<1>1. PICK d \in Nat : d = Len(line) - s
  OBVIOUS
<1>2. PICK P : P = {i \in 0..d : LxEnded(a[s + i], m)}
  OBVIOUS
<1>3. 0 \in P
  <2>1. s + 0 = s /\ 0 \in 0..d
    OBVIOUS
  <2> QED BY <1>2, <2>1
<1>4. ASSUME NEW i \in 0..d - 1, i \in P PROVE i + 1 \in P
  <2>1. PICK j : j = s + i
    OBVIOUS
  <2>2. j \in 0..Len(line) /\ j + 1 \in 1..Len(line) /\ (j + 1) - 1 = j /\ i + 1 \in 0..d /\ s + (i + 1) = j + 1
    BY <1>1, <2>1
  <2>3. a[j + 1] = LxRead(line[j + 1], a[j])
    BY <2>2, StatesStep
  <2>4. line[j + 1] \in LxChar
    BY <2>2
  <2>5. LxTyped(a[j])
    BY <2>2, StatesTyped
  <2>6. LxEnded(a[j], m)
    BY <1>2, <1>4, <2>1
  <2>7. LxEnded(a[j + 1], m)
    BY <2>3, <2>4, <2>5, <2>6, EndedGoesOn
  <2> QED BY <1>2, <2>2, <2>7
<1>5. 0..d \subseteq P
  BY <1>3, <1>4, CountUp
<1>6. d \in 0..d /\ s + d = Len(line)
  BY <1>1
<1> QED BY <1>2, <1>5, <1>6

LEMMA StaysBad ==
  ASSUME NEW line \in Seq(LxChar), NEW a, a = LxStates(line), NEW s \in 0..Len(line), a[s].in = "bad"
  PROVE  a[Len(line)].in = "bad"
<1>1. PICK d \in Nat : d = Len(line) - s
  OBVIOUS
<1>2. PICK P : P = {i \in 0..d : a[s + i].in = "bad"}
  OBVIOUS
<1>3. 0 \in P
  <2>1. s + 0 = s /\ 0 \in 0..d
    OBVIOUS
  <2> QED BY <1>2, <2>1
<1>4. ASSUME NEW i \in 0..d - 1, i \in P PROVE i + 1 \in P
  <2>1. PICK j : j = s + i
    OBVIOUS
  <2>2. j + 1 \in 1..Len(line) /\ (j + 1) - 1 = j /\ i + 1 \in 0..d /\ s + (i + 1) = j + 1
    BY <1>1, <2>1
  <2>3. a[j + 1] = LxRead(line[j + 1], a[j])
    BY <2>2, StatesStep
  <2>4. a[j].in = "bad"
    BY <1>2, <1>4, <2>1
  <2>5. a[j + 1] = a[j]
    BY <2>3, <2>4, ReadsBad
  <2> QED BY <1>2, <2>2, <2>4, <2>5
<1>5. 0..d \subseteq P
  BY <1>3, <1>4, CountUp
<1>6. d \in 0..d /\ s + d = Len(line)
  BY <1>1
<1> QED BY <1>2, <1>5, <1>6

(* The first position with a character of a set.                           *)
LEMMA UntilIs ==
  ASSUME lxline \in Seq(LxChar), NEW i \in 1..Len(lxline) + 1, NEW S
  PROVE  /\ Until(i, S) \in i..Len(lxline) + 1
         /\ \A k \in i..Until(i, S) - 1 : lxline[k] \notin S
         /\ Until(i, S) <= Len(lxline) => lxline[Until(i, S)] \in S
<1>1. PICK n \in Nat : n = Len(lxline)
  OBVIOUS
<1>2. PICK F : F = {j \in i..n : lxline[j] \in S} \cup {n + 1}
  OBVIOUS
<1>3. F \subseteq Nat /\ F # {} /\ F \subseteq i..n + 1
  BY <1>1, <1>2
<1>4. Until(i, S) = CHOOSE j \in F : \A k \in F : j <= k
  BY <1>1, <1>2 DEF Until
<1>5. \E j \in F : \A k \in F : j <= k
  BY <1>3, Smallest
<1>6. PICK u \in F : u = Until(i, S) /\ \A k \in F : u <= k
  BY <1>4, <1>5
<1>7. u \in i..n + 1
  BY <1>3
<1>8. ASSUME NEW k \in i..u - 1 PROVE lxline[k] \notin S
  <2>1. ~(u <= k) /\ k \in i..n
    BY <1>7
  <2>2. k \notin F
    BY <1>6, <2>1
  <2> QED BY <1>2, <2>1, <2>2
<1>9. u <= n => lxline[u] \in S
  <2>1. u <= n => u # n + 1
    BY <1>7
  <2> QED BY <1>2, <2>1
<1> QED BY <1>1, <1>6, <1>7, <1>8, <1>9

(***************************************************************************)
(* The turns of the loop.                                                  *)
(***************************************************************************)
LxFull(line, toks) ==
  Len(toks) > SHELL_MAXTOK \/ (Len(toks) = SHELL_MAXTOK /\ line[Len(line)] \in Blanks)
LxRight(line, toks) ==
  /\ toks = LxClosed(LxStates(line)[Len(line)]) /\ LxStates(line)[Len(line)].in \notin {"bad", "quote"}
  /\ ~LxFull(line, toks)
LxWrong(line) ==
  LxStates(line)[Len(line)].in \in {"bad", "quote"} \/ LxFull(line, LxClosed(LxStates(line)[Len(line)]))
LxScan(line, pos, toks) ==
  /\ pos \in 0..Len(line) /\ LxQuiet(LxStates(line)[pos], toks) /\ Len(toks) <= SHELL_MAXTOK
  /\ LxStates(line)[pos].in = "word" /\ pos < Len(line) => line[pos + 1] \in Blanks \cup {"&"}
  /\ IF pos = 0 THEN toks = <<>> ELSE line[pos] \notin Blanks

LEMMA ScanTyped ==
  ASSUME NEW line \in Seq(LxChar), NEW pos, NEW toks, LxScan(line, pos, toks)
  PROVE  toks \in Seq(LxTok) /\ Len(toks) \in Nat
<1>1. LxTyped(LxStates(line)[pos])
  BY StatesTyped DEF LxScan
<1>2. LxClosed(LxStates(line)[pos]) = toks
  BY DEF LxScan, LxQuiet
<1>3. LxClosed(LxStates(line)[pos]) \in Seq(LxTok)
  BY <1>1, ClosedTyped
<1>4. toks \in Seq(LxTok)
  BY <1>2, <1>3
<1> QED BY <1>4

LEMMA EndsAtOnce ==
  ASSUME NEW line \in Seq(LxChar), NEW pos, NEW toks, LxScan(line, pos, toks), ~(pos + 1 <= Len(line))
  PROVE  LxRight(line, toks)
<1>1. pos = Len(line) /\ Len(line) \in Nat /\ SHELL_MAXTOK \in Nat \ {0}
  BY LexanAssumption DEF LxScan
<1>2. LxQuiet(LxStates(line)[Len(line)], toks)
  BY <1>1 DEF LxScan
<1>3. toks = LxClosed(LxStates(line)[Len(line)]) /\ LxStates(line)[Len(line)].in \notin {"bad", "quote"}
  BY <1>2 DEF LxQuiet
<1>4. Len(toks) <= SHELL_MAXTOK /\ IF pos = 0 THEN toks = <<>> ELSE line[pos] \notin Blanks
  BY DEF LxScan
<1>5. Len(toks) \in Nat
  BY ScanTyped
<1>6. ~LxFull(line, toks)
  <2>1. CASE pos = 0
    <3>1. Len(toks) = 0
      BY <2>1, <1>4
    <3> QED BY <3>1, <1>1 DEF LxFull
  <2>2. CASE pos # 0
    BY <2>2, <1>1, <1>4, <1>5 DEF LxFull
  <2> QED BY <2>1, <2>2
<1> QED BY <1>3, <1>6 DEF LxRight

LEMMA EndsInBlanks ==
  ASSUME NEW line \in Seq(LxChar), NEW pos, NEW toks, LxScan(line, pos, toks), ~(Len(toks) >= SHELL_MAXTOK),
         \A k \in pos + 1..Len(line) : line[k] \in Blanks
  PROVE  LxRight(line, toks)
<1>1. pos \in 0..Len(line) /\ Len(line) \in pos..Len(line) /\ Len(line) \in Nat /\ SHELL_MAXTOK \in Nat
  BY LexanAssumption DEF LxScan
<1>2. PICK a : a = LxStates(line)
  OBVIOUS
<1>3. LxQuiet(a[pos], toks)
  BY <1>2 DEF LxScan
<1>4. \A j \in pos..Len(line) : LxQuiet(a[j], toks) /\ (a[j].in = "word" => j = pos)
  <2>1. PICK n : n = Len(line)
    OBVIOUS
  <2>2. line \in Seq(LxChar) /\ a = LxStates(line) /\ n \in pos..Len(line) /\ pos \in 0..Len(line)
    BY <1>1, <1>2, <2>1
  <2>3. LxBlankRun(line, pos, n)
    BY <2>1, <2>2 DEF LxBlankRun
  <2>4. LxQuietRun(a, pos, n, toks)
    BY ONLY <2>2, <2>3, <1>3, ReadsBlanks
  <2> QED BY <2>1, <2>4 DEF LxQuietRun
<1>5. LxQuiet(a[Len(line)], toks)
  BY <1>1, <1>4
<1>6. toks = LxClosed(a[Len(line)]) /\ a[Len(line)].in \notin {"bad", "quote"}
  BY <1>5 DEF LxQuiet
<1>7. ~LxFull(line, toks)
  BY <1>1, ScanTyped DEF LxFull
<1> QED BY <1>2, <1>6, <1>7 DEF LxRight

(* Where the next token starts.                                            *)
LEMMA AtStart ==
  ASSUME NEW line \in Seq(LxChar), NEW pos, NEW toks, LxScan(line, pos, toks), NEW st \in pos + 1..Len(line),
         \A k \in pos + 1..st - 1 : line[k] \in Blanks, line[st] \notin Blanks,
         NEW a, a = LxStates(line)
  PROVE  /\ st \in 1..Len(line) /\ st - 1 \in 0..Len(line)
         /\ LxQuiet(a[st - 1], toks) /\ (a[st - 1].in = "word" => line[st] = "&")
         /\ a[st] = LxRead(line[st], a[st - 1])
<1>1. pos \in 0..Len(line) /\ Len(line) \in Nat
  BY DEF LxScan
<1>2. st \in 1..Len(line) /\ st - 1 \in pos..Len(line) /\ st - 1 \in 0..Len(line)
  BY <1>1
<1>3. PICK e : e = st - 1
  OBVIOUS
<1>4. LxQuiet(a[pos], toks)
  BY DEF LxScan
<1>5. e \in pos..Len(line) /\ (\A k \in pos + 1..e : line[k] \in Blanks) /\ e \in pos..e
  BY <1>1, <1>2, <1>3
<1>6. \A j \in pos..e : LxQuiet(a[j], toks) /\ (a[j].in = "word" => j = pos)
  <2>1. line \in Seq(LxChar) /\ a = LxStates(line) /\ e \in pos..Len(line) /\ pos \in 0..Len(line)
    BY <1>1, <1>5
  <2>2. LxBlankRun(line, pos, e)
    BY <1>5, <2>1 DEF LxBlankRun
  <2>3. LxQuietRun(a, pos, e, toks)
    BY ONLY <2>1, <2>2, <1>4, ReadsBlanks
  <2> QED BY <2>3 DEF LxQuietRun
<1>7. LxQuiet(a[e], toks) /\ (a[e].in = "word" => e = pos)
  BY <1>5, <1>6
<1>8. ASSUME a[e].in = "word" PROVE line[st] = "&"
  <2>1. e = pos /\ st = pos + 1 /\ pos < Len(line)
    BY <1>1, <1>2, <1>3, <1>7, <1>8
  <2>2. line[pos + 1] \in Blanks \cup {"&"}
    BY <1>8, <2>1 DEF LxScan
  <2> QED BY <2>1, <2>2
<1>9. a[st] = LxRead(line[st], a[st - 1])
  BY <1>2, StatesStep
<1> QED BY <1>2, <1>3, <1>7, <1>8, <1>9

LEMMA ScanNotSeen ==
  ASSUME NEW line \in Seq(LxChar), NEW pos, NEW toks, LxScan(line, pos, toks),
         Len(toks) >= SHELL_MAXTOK, pos + 1 <= Len(line)
  PROVE  LxWrong(line)
<1>1. pos \in 0..Len(line) /\ Len(line) \in Nat /\ SHELL_MAXTOK \in Nat \ {0} /\ toks \in Seq(LxTok) /\ Len(toks) \in Nat
      /\ Len(toks) <= SHELL_MAXTOK
  BY LexanAssumption, ScanTyped DEF LxScan
<1>2. PICK a, n : a = LxStates(line) /\ n = Len(line)
  OBVIOUS
<1>3. CASE \A k \in pos + 1..n : line[k] \in Blanks
  <2>1. LxQuiet(a[pos], toks)
    BY <1>2 DEF LxScan
  <2>2. \A j \in pos..n : LxQuiet(a[j], toks) /\ (a[j].in = "word" => j = pos)
    <3>1. line \in Seq(LxChar) /\ a = LxStates(line) /\ n \in pos..Len(line) /\ pos \in 0..Len(line)
      BY <1>1, <1>2
    <3>2. LxBlankRun(line, pos, n)
      BY <1>3, <3>1 DEF LxBlankRun
    <3>3. LxQuietRun(a, pos, n, toks)
      BY ONLY <3>1, <3>2, <2>1, ReadsBlanks
    <3> QED BY <3>3 DEF LxQuietRun
  <2>3. n \in pos..n /\ n \in pos + 1..n
    BY <1>1, <1>2
  <2>4. LxClosed(a[n]) = toks /\ line[n] \in Blanks
    BY <1>3, <2>2, <2>3 DEF LxQuiet
  <2>5. Len(toks) = SHELL_MAXTOK
    BY <1>1
  <2>6. LxFull(line, LxClosed(a[n]))
    BY <1>2, <2>4, <2>5 DEF LxFull
  <2> QED BY <1>2, <2>6 DEF LxWrong
<1>4. CASE ~(\A k \in pos + 1..n : line[k] \in Blanks)
  <2>1. PICK K : K = {k \in pos + 1..n : line[k] \notin Blanks}
    OBVIOUS
  <2>2. K \subseteq Nat /\ K # {}
    BY <1>1, <1>2, <1>4, <2>1
  <2>3. PICK st \in K : \A k \in K : st <= k
    BY <2>2, Smallest
  <2>4. st \in pos + 1..Len(line) /\ line[st] \notin Blanks
    BY <1>2, <2>1
  <2>5. ASSUME NEW k \in pos + 1..st - 1 PROVE line[k] \in Blanks
    <3>1. k \in pos + 1..n /\ ~(st <= k)
      BY <1>1, <1>2, <2>4
    <3> QED BY <2>1, <2>3, <3>1
  <2>6. /\ st \in 1..Len(line) /\ st - 1 \in 0..Len(line)
        /\ LxQuiet(a[st - 1], toks) /\ (a[st - 1].in = "word" => line[st] = "&")
        /\ a[st] = LxRead(line[st], a[st - 1])
    <3>1. line \in Seq(LxChar) /\ LxScan(line, pos, toks) /\ a = LxStates(line)
      BY <1>2
    <3> QED BY ONLY <2>4, <2>5, <3>1, AtStart
  <2>7. PICK r, t, c : r = a[st] /\ t = a[st - 1] /\ c = line[st]
    OBVIOUS
  <2>8. r = LxRead(c, t) /\ c \in LxChar /\ c \notin Blanks
    BY <2>4, <2>6, <2>7
  <2>9. t.in \in {"gap", "word"} /\ LxClosed(t) = toks
    BY <2>6, <2>7 DEF LxQuiet
  <2>10. LxTyped(r) /\ LxTyped(t)
    BY <1>2, <2>6, <2>7, StatesTyped
  <2>11. LxEnded(r, SHELL_MAXTOK)
    <3>1. CASE c \in Others
      <4>1. c # "&"
        BY <3>1 DEF Others, Operators
      <4>2. t.in # "word"
        BY <2>6, <2>7, <4>1
      <4>3. LxClosed(t) = t.toks
        BY <2>10, <4>2, ClosedTyped
      <4>4. r.in = "word" /\ r.toks = t.toks
        BY ONLY <2>8, <2>9, <3>1, ReadsOther
      <4>5. r.in = "word" /\ Len(r.toks) >= SHELL_MAXTOK
        BY <2>9, <4>3, <4>4
      <4> QED BY <4>5 DEF LxEnded
    <3>2. CASE c \notin Others
      <4>1. ~(t.in = "word" /\ c \in Quotes \cup {"<", ">"})
        BY <2>6, <2>7 DEF Quotes
      <4>2. t.in \in {"gap", "word"}
        BY <2>9
      <4>3. LxStarts(c, t, r)
        BY <2>8, <3>2, <4>1, <4>2, StartsNext
      <4>4. c \in Quotes \cup Operators
        BY <2>8, <3>2 DEF Others
      <4>5. CASE c \in Quotes
        <5>1. r.in = "quote" /\ r.toks = toks
          BY <4>3, <4>5, <2>9 DEF LxStarts
        <5>2. Len(r.toks) >= SHELL_MAXTOK
          BY <5>1
        <5> QED BY <5>1, <5>2 DEF LxEnded
      <4>6. CASE c \notin Quotes
        <5>1. PICK o : o = LxToken(c, <<c>>)
          OBVIOUS
        <5>2. r.in = "gap" /\ r.toks = Append(toks, o)
          BY <4>3, <4>4, <4>6, <2>9, <5>1 DEF LxStarts
        <5>3. <<c>> \in Seq(LxChar)
          BY <2>8
        <5>4. o \in LxTok
          BY <4>4, <4>6, <5>1, <5>3 DEF LxTok, LxToken
        <5>5. Len(Append(toks, o)) = Len(toks) + 1
          BY <1>1, <5>4
        <5>6. Len(r.toks) >= SHELL_MAXTOK + 1
          BY <1>1, <5>2, <5>5
        <5> QED BY <5>2, <5>6 DEF LxEnded
      <4> QED BY <4>5, <4>6
    <3> QED BY <3>1, <3>2
  <2>12. SHELL_MAXTOK \in Nat /\ st \in 0..Len(line) /\ LxEnded(a[st], SHELL_MAXTOK)
    BY <1>1, <2>6, <2>7, <2>11
  <2>13. LxEnded(a[n], SHELL_MAXTOK)
    BY <1>2, <2>12, StaysEnded
  <2>14. LxTyped(a[n])
    BY <1>1, <1>2, StatesTyped
  <2>15. Len(a[n].toks) \in Nat
    BY <2>14 DEF LxTyped
  <2>16. a[n].in \in {"bad", "quote"} \/ Len(LxClosed(a[n])) > SHELL_MAXTOK
    BY <1>1, <2>13, <2>14, <2>15, ClosedTyped DEF LxEnded
  <2> QED BY <1>2, <2>16 DEF LxWrong, LxFull
<1> QED BY <1>3, <1>4

(* The automaton before the first character of a token, the tokens so far  *)
(* being fewer than SHELL_MAXTOK.                                          *)
LxAt(line, a, toks, st) ==
  /\ st \in 1..Len(line) /\ st - 1 \in 0..Len(line)
  /\ line[st] \in LxChar /\ line[st] \notin Blanks /\ a[st] = LxRead(line[st], a[st - 1])
  /\ LxQuiet(a[st - 1], toks) /\ (a[st - 1].in = "word" => line[st] = "&")
  /\ toks \in Seq(LxTok) /\ Len(toks) \in Nat /\ Len(toks) + 1 <= SHELL_MAXTOK
LEMMA ScanAt ==
  ASSUME NEW line \in Seq(LxChar), NEW pos, NEW toks, LxScan(line, pos, toks), ~(Len(toks) >= SHELL_MAXTOK),
         NEW st \in pos + 1..Len(line), \A k \in pos + 1..st - 1 : line[k] \in Blanks, line[st] \notin Blanks,
         NEW a, a = LxStates(line)
  PROVE  LxAt(line, a, toks, st)
<1>1. /\ st \in 1..Len(line) /\ st - 1 \in 0..Len(line)
      /\ LxQuiet(a[st - 1], toks) /\ (a[st - 1].in = "word" => line[st] = "&")
      /\ a[st] = LxRead(line[st], a[st - 1])
  BY AtStart
<1>2. toks \in Seq(LxTok) /\ Len(toks) \in Nat
  BY ScanTyped
<1>3. SHELL_MAXTOK \in Nat
  BY LexanAssumption
<1>4. Len(toks) + 1 <= SHELL_MAXTOK
  BY <1>2, <1>3
<1>5. line[st] \in LxChar
  BY <1>1
<1> QED BY <1>1, <1>2, <1>4, <1>5 DEF LxAt

(* A token more: what it takes to be back between two tokens.              *)
LEMMA OneMore ==
  ASSUME NEW toks \in Seq(LxTok), Len(toks) + 1 <= SHELL_MAXTOK, NEW o \in LxTok, NEW more, more = Append(toks, o)
  PROVE  Len(more) <= SHELL_MAXTOK
<1>1. Len(more) = Len(toks) + 1
  OBVIOUS
<1> QED BY <1>1

LEMMA ScanOneChar ==
  ASSUME NEW line \in Seq(LxChar), NEW a, a = LxStates(line), NEW toks, NEW st, LxAt(line, a, toks, st),
         line[st] \in Operators, NEW more, more = Append(toks, LxToken(line[st], <<line[st]>>))
  PROVE  LxScan(line, st, more)
<1>1. PICK r, t, c : r = a[st] /\ t = a[st - 1] /\ c = line[st]
  OBVIOUS
<1>2. r = LxRead(c, t) /\ c \in LxChar /\ t.in \in {"gap", "word"} /\ LxClosed(t) = toks
  BY <1>1 DEF LxAt, LxQuiet
<1>3. c \in Operators /\ c \notin Others /\ c \notin Quotes /\ (t.in = "word" => c = "&")
  BY <1>1 DEF LxAt, Others, Operators, Quotes
<1>4. ~(t.in = "word" /\ c \in Quotes \cup {"<", ">"})
  BY <1>3
<1>5. LxStarts(c, t, r)
  BY <1>2, <1>3, <1>4, StartsNext
<1>6. r.in = "gap" /\ r.text = <<>> /\ r.toks = more
  BY <1>1, <1>2, <1>3, <1>5 DEF LxStarts
<1>7. LxQuiet(r, more)
  BY <1>6 DEF LxQuiet, LxClosed
<1>8. PICK o : o = LxToken(c, <<c>>)
  OBVIOUS
<1>9. <<c>> \in Seq(LxChar)
  BY <1>2
<1>10. o \in LxTok
  BY <1>3, <1>8, <1>9 DEF LxTok, LxToken
<1>11. Len(more) <= SHELL_MAXTOK
  <2>1. more = Append(toks, o) /\ toks \in Seq(LxTok) /\ Len(toks) + 1 <= SHELL_MAXTOK
    BY <1>1, <1>8 DEF LxAt
  <2> QED BY <1>10, <2>1, OneMore
<1>12. st \in 0..Len(line) /\ st # 0 /\ line[st] \notin Blanks /\ r.in # "word"
  BY <1>6 DEF LxAt
<1> QED BY <1>1, <1>7, <1>11, <1>12 DEF LxScan

(* A string: the state behind the quote that opens it, its end, and a      *)
(* string without an end.                                                  *)
LEMMA StringOpens ==
  ASSUME NEW line \in Seq(LxChar), NEW a, a = LxStates(line), NEW toks, NEW st, LxAt(line, a, toks, st),
         NEW q, q = line[st], q \in Quotes
  PROVE  LxInside(a[st], "quote", toks, <<>>) /\ a[st].open = q
<1>1. PICK r, t : r = a[st] /\ t = a[st - 1]
  OBVIOUS
<1>2. r = LxRead(q, t) /\ t.in \in {"gap", "word"} /\ LxClosed(t) = toks
  BY <1>1 DEF LxAt, LxQuiet
<1>3. q \notin Others /\ q # "&"
  BY DEF Others, Quotes
<1>4. t.in # "word"
  BY <1>1, <1>3 DEF LxAt
<1>5. LxStarts(q, t, r)
  BY <1>2, <1>3, <1>4, StartsNext
<1>6. r.in = "quote" /\ r.open = q /\ r.toks = toks /\ r.text = <<>>
  BY <1>2, <1>5 DEF LxStarts
<1> QED BY <1>1, <1>6 DEF LxInside
LEMMA ScanQuoted ==
  ASSUME NEW line \in Seq(LxChar), NEW a, a = LxStates(line), NEW toks, NEW st, LxAt(line, a, toks, st),
         NEW q, q = line[st], q \in Quotes, NEW close \in st + 1..Len(line), line[close] = q,
         \A k \in st + 1..close - 1 : line[k] # q,
         NEW more, more = Append(toks, LxToken("OTHER", SubSeq(line, st + 1, close - 1)))
  PROVE  LxScan(line, close, more)
<1>1. LxInside(a[st], "quote", toks, <<>>) /\ a[st].open = q
  BY StringOpens
<1>2. st \in 1..Len(line) /\ Len(line) \in Nat
  BY DEF LxAt
<1>3. PICK m : m = close - 1
  OBVIOUS
<1>4. /\ m \in st..Len(line) /\ m \in st..m /\ close \in 1..Len(line) /\ close \in 0..Len(line) /\ close # 0
      /\ st + 1 \in 1..Len(line) /\ m \in 0..Len(line)
  BY <1>2, <1>3
<1>5. LxNoQuote(line, st, m, q)
  BY <1>2, <1>3, <1>4 DEF LxNoQuote
<1>6. LxString(line, a, st, m, q, toks)
  BY <1>1, <1>5, ReadsString
<1>7. PICK r, t : r = a[close] /\ t = a[m]
  OBVIOUS
<1>8. t.in = "quote" /\ t.toks = toks /\ t.text = SubSeq(line, st + 1, m) /\ t.open = q
  BY <1>4, <1>6, <1>7 DEF LxInside, LxString
<1>9. r = LxRead(q, t)
  BY <1>3, <1>4, <1>7, StatesStep
<1>10. r.in = "gap" /\ r.toks = Append(t.toks, LxToken("OTHER", t.text)) /\ r.text = <<>>
  <2>1. t.in = "quote" /\ q = t.open
    BY <1>8
  <2> QED BY ONLY <2>1, <1>9, ReadsQuote
<1>11. r.toks = more
  BY <1>3, <1>8, <1>10
<1>12. LxQuiet(r, more)
  BY <1>10, <1>11 DEF LxQuiet, LxClosed
<1>13. PICK o : o = LxToken("OTHER", t.text)
  OBVIOUS
<1>14. t.text \in Seq(LxChar)
  BY <1>4, <1>7, StatesTyped DEF LxTyped
<1>15. o \in LxTok
  BY <1>13, <1>14 DEF LxTok, LxToken
<1>16. Len(more) <= SHELL_MAXTOK
  <2>1. more = Append(toks, o) /\ toks \in Seq(LxTok) /\ Len(toks) + 1 <= SHELL_MAXTOK
    BY <1>8, <1>10, <1>11, <1>13 DEF LxAt
  <2> QED BY <1>15, <2>1, OneMore
<1>17. line[close] \notin Blanks
  BY DEF Quotes, Blanks
<1> QED BY <1>4, <1>7, <1>10, <1>12, <1>16, <1>17 DEF LxScan
LEMMA OpenQuote ==
  ASSUME NEW line \in Seq(LxChar), NEW a, a = LxStates(line), NEW toks, NEW st, LxAt(line, a, toks, st),
         NEW q, q = line[st], q \in Quotes, \A k \in st + 1..Len(line) : line[k] # q
  PROVE  LxWrong(line)
<1>1. LxInside(a[st], "quote", toks, <<>>) /\ a[st].open = q
  BY StringOpens
<1>2. PICK m : m = Len(line)
  OBVIOUS
<1>3. st \in 1..Len(line) /\ m \in st..Len(line) /\ m \in st..m
  BY <1>2 DEF LxAt
<1>4. LxNoQuote(line, st, m, q)
  BY <1>2, <1>3 DEF LxNoQuote
<1>5. LxString(line, a, st, m, q, toks)
  BY <1>1, <1>4, ReadsString
<1>6. a[m].in = "quote"
  BY <1>3, <1>5 DEF LxInside, LxString
<1> QED BY <1>2, <1>6 DEF LxWrong

(* A word, which ends before position e.                                   *)
LEMMA WordRead ==
  ASSUME NEW line \in Seq(LxChar), NEW a, a = LxStates(line), NEW toks, NEW st, LxAt(line, a, toks, st),
         NEW m \in st..Len(line), \A k \in st..m : line[k] \in Others
  PROVE  LxInside(a[m], "word", toks, SubSeq(line, st, m))
<1>1. st \in 1..Len(line) /\ m \in st..m /\ st \in st..m
  BY DEF LxAt
<1>2. PICK t : t = a[st - 1]
  OBVIOUS
<1>3. line[st] # "&"
  BY <1>1 DEF Others, Operators
<1>4. t.in = "gap" /\ t.text = <<>> /\ LxClosed(t) = toks
  BY <1>2, <1>3 DEF LxAt, LxQuiet
<1>5. t.toks = toks
  BY <1>4 DEF LxClosed
<1>6. LxInside(a[st - 1], "gap", toks, <<>>)
  BY <1>2, <1>4, <1>5 DEF LxInside
<1>7. \A j \in st..m : LxInside(a[j], "word", toks, SubSeq(line, st, j))
  BY <1>1, <1>6, ReadsWord
<1> QED BY <1>1, <1>7
LEMMA ScanWord ==
  ASSUME NEW line \in Seq(LxChar), NEW a, a = LxStates(line), NEW toks, NEW st, LxAt(line, a, toks, st),
         NEW m \in st..Len(line), \A k \in st..m : line[k] \in Others,
         m < Len(line) => line[m + 1] \in Blanks \cup {"&"},
         NEW more, more = Append(toks, LxToken("OTHER", SubSeq(line, st, m)))
  PROVE  LxScan(line, m, more)
<1>1. st \in 1..Len(line) /\ m \in st..m /\ m \in 0..Len(line) /\ m # 0
  BY DEF LxAt
<1>2. PICK r : r = a[m]
  OBVIOUS
<1>3. LxInside(r, "word", toks, SubSeq(line, st, m))
  BY <1>2, WordRead
<1>4. LxQuiet(r, more)
  BY <1>3 DEF LxInside, LxQuiet, LxClosed
<1>5. PICK o : o = LxToken("OTHER", r.text)
  OBVIOUS
<1>6. r.text \in Seq(LxChar)
  BY <1>1, <1>2, StatesTyped DEF LxTyped
<1>7. o \in LxTok
  BY <1>5, <1>6 DEF LxTok, LxToken
<1>8. Len(more) <= SHELL_MAXTOK
  <2>1. more = Append(toks, o) /\ toks \in Seq(LxTok) /\ Len(toks) + 1 <= SHELL_MAXTOK
    BY <1>3, <1>5 DEF LxAt, LxInside
  <2> QED BY <1>7, <2>1, OneMore
<1>9. line[m] \notin Blanks
  BY <1>1 DEF Others
<1> QED BY <1>1, <1>2, <1>4, <1>8, <1>9 DEF LxScan
LEMMA WordWrong ==
  ASSUME NEW line \in Seq(LxChar), NEW a, a = LxStates(line), NEW toks, NEW st, LxAt(line, a, toks, st),
         NEW m \in st..Len(line), \A k \in st..m : line[k] \in Others,
         m < Len(line), line[m + 1] \in Quotes \cup {"<", ">"}
  PROVE  LxWrong(line)
<1>1. st \in 1..Len(line) /\ m + 1 \in 1..Len(line) /\ m + 1 \in 0..Len(line) /\ (m + 1) - 1 = m
  BY DEF LxAt
<1>2. PICK r, t, c : r = a[m + 1] /\ t = a[m] /\ c = line[m + 1]
  OBVIOUS
<1>3. t.in = "word"
  BY <1>2, WordRead DEF LxInside
<1>4. r = LxRead(c, t)
  BY <1>1, <1>2, StatesStep
<1>5. c \notin Others /\ c \in Quotes \cup {"<", ">"}
  BY <1>2 DEF Others, Operators
<1>6. r.in = "bad"
  BY <1>3, <1>4, <1>5, ReadsBeyond
<1>7. a[Len(line)].in = "bad"
  BY <1>1, <1>2, <1>6, StaysBad
<1> QED BY <1>7 DEF LxWrong

(***************************************************************************)
(* The theorem.                                                            *)
(***************************************************************************)
LxInv ==
  /\ lxline \in Seq(LxChar) /\ lxpc \in {"scan", "ok", "SYSERR"}
  /\ lxpc = "scan" => LxScan(lxline, lxpos, lxtoks)
  /\ lxpc = "ok" => LxRight(lxline, lxtoks)
  /\ lxpc = "SYSERR" => LxWrong(lxline)

LEMMA LxFaithful == LxInv => LexanFaithful
<1>1. SUFFICES ASSUME LxInv PROVE LexanFaithful
  OBVIOUS
<1>2. PICK ref, toks : ref = LxStates(lxline)[Len(lxline)] /\ toks = LxClosed(ref)
  OBVIOUS
<1>3. ASSUME lxpc = "ok"
      PROVE  lxtoks = toks /\ ref.in \notin {"bad", "quote"} /\ ~LxFull(lxline, toks)
  BY <1>1, <1>2, <1>3 DEF LxInv, LxRight
<1>4. ASSUME lxpc = "SYSERR" PROVE ref.in \in {"bad", "quote"} \/ LxFull(lxline, toks)
  BY <1>1, <1>2, <1>4 DEF LxInv, LxWrong
<1>5. ASSUME lxpc = "scan" PROVE Len(lxtoks) <= SHELL_MAXTOK
  BY <1>1, <1>5 DEF LxInv, LxScan
<1> QED BY <1>2, <1>3, <1>4, <1>5 DEF LexanFaithful, LxFull

LEMMA LxStarted == LexInit => LxInv
<1>1. SUFFICES ASSUME LexInit PROVE LxInv
  OBVIOUS
<1>2. lxline \in Seq(LxChar)
  <2>1. lxline \in BoundedSeq(LxChar, LxMaxLen)
    BY <1>1 DEF LexInit
  <2>2. PICK m \in 0..LxMaxLen : lxline \in [1..m -> LxChar]
    BY <2>1 DEF BoundedSeq, SeqOf
  <2>3. m \in Nat
    BY LexanAssumption
  <2> QED BY <2>2, <2>3
<1>3. lxpos = 0 /\ lxtoks = <<>> /\ lxpc = "scan"
  BY <1>1 DEF LexInit
<1>4. PICK r : r = LxStates(lxline)[0]
  OBVIOUS
<1>5. r = LxState("gap", "", <<>>, <<>>)
  BY <1>2, <1>4, StatesStep
<1>6. r.in = "gap" /\ r.toks = <<>> /\ r.text = <<>>
  BY ONLY <1>5 DEF LxState
<1>7. LxQuiet(r, <<>>)
  BY <1>6 DEF LxQuiet, LxClosed
<1>8. Len(<<>>) <= SHELL_MAXTOK
  <2>1. Len(<<>>) = 0 /\ SHELL_MAXTOK \in Nat
    BY LexanAssumption
  <2> QED BY <2>1
<1>9. 0 \in 0..Len(lxline) /\ r.in # "word"
  BY <1>2, <1>6
<1>10. LxScan(lxline, 0, <<>>)
  BY <1>4, <1>7, <1>8, <1>9 DEF LxScan
<1> QED BY <1>2, <1>3, <1>10 DEF LxInv

(* The blanks before a token, and where Until says that it ends.           *)
LEMMA NotOf ==
  ASSUME lxline \in Seq(LxChar), NEW S, NEW i \in 1..Len(lxline) + 1, NEW u, u = Until(i, LxChar \ S)
  PROVE  /\ u \in i..Len(lxline) + 1 /\ \A k \in i..u - 1 : lxline[k] \in S
         /\ u <= Len(lxline) => lxline[u] \notin S
<1>1. /\ u \in i..Len(lxline) + 1 /\ \A k \in i..u - 1 : lxline[k] \notin LxChar \ S
      /\ u <= Len(lxline) => lxline[u] \in LxChar \ S
  BY UntilIs
<1>2. ASSUME NEW k \in i..u - 1 PROVE lxline[k] \in S
  <2>1. k \in 1..Len(lxline)
    BY <1>1
  <2>2. lxline[k] \in LxChar
    BY <2>1
  <2> QED BY <1>1, <2>2
<1> QED BY <1>1, <1>2

LEMMA OneCharKeeps ==
  ASSUME lxline \in Seq(LxChar), UNCHANGED lxline, lxpc = "scan", NEW i, LxAt(lxline, LxStates(lxline), lxtoks, i), OneChar(i)
  PROVE  LxInv'
<1>1. PICK line, a, toks : line = lxline /\ a = LxStates(line) /\ toks = lxtoks
  OBVIOUS
<1>2. LxAt(line, a, toks, i) /\ line \in Seq(LxChar)
  BY <1>1
<1>3. lxtoks' = Append(toks, LxToken(line[i], <<line[i]>>)) /\ lxpos' = (i + 1) - 1 /\ lxpc' = "scan"
      /\ line[i] \in Operators /\ lxline' = line
  BY <1>1 DEF OneChar, Counts
<1>4. PICK more : more = Append(toks, LxToken(line[i], <<line[i]>>))
  OBVIOUS
<1>5. LxScan(line, i, more)
  BY <1>1, <1>2, <1>3, <1>4, ScanOneChar
<1>6. (i + 1) - 1 = i
  BY <1>2 DEF LxAt
<1>7. LxScan(lxline', lxpos', lxtoks')
  BY <1>3, <1>4, <1>5, <1>6
<1> QED BY <1>2, <1>3, <1>7 DEF LxInv

LEMMA QuotedKeeps ==
  ASSUME lxline \in Seq(LxChar), UNCHANGED lxline, lxpc = "scan", NEW i, LxAt(lxline, LxStates(lxline), lxtoks, i), Quoted(i)
  PROVE  LxInv'
<1>1. PICK line, a, toks, q : line = lxline /\ a = LxStates(line) /\ toks = lxtoks /\ q = line[i]
  OBVIOUS
<1>2. LxAt(line, a, toks, i) /\ line \in Seq(LxChar) /\ q \in Quotes /\ lxline' = line
  BY <1>1 DEF Quoted
<1>3. PICK close : close = Until(i + 1, {q})
  OBVIOUS
<1>4. i \in 1..Len(line) /\ i + 1 \in 1..Len(line) + 1
  BY <1>2 DEF LxAt
<1>5. /\ close \in i + 1..Len(line) + 1 /\ \A k \in i + 1..close - 1 : line[k] \notin {q}
      /\ close <= Len(line) => line[close] \in {q}
  BY <1>1, <1>2, <1>3, <1>4, UntilIs
<1>6. CASE AtEnd(close)
  <2>1. lxpc' = "SYSERR"
    BY <1>1, <1>3, <1>6 DEF Quoted, Fails
  <2>2. close > Len(line)
    BY <1>1, <1>6 DEF AtEnd
  <2>3. \A k \in i + 1..Len(line) : line[k] # q
    BY <1>4, <1>5, <2>2
  <2>4. LxWrong(line)
    BY <1>1, <1>2, <2>3, OpenQuote
  <2> QED BY <1>2, <2>1, <2>4 DEF LxInv
<1>7. CASE ~AtEnd(close)
  <2>1. lxtoks' = Append(toks, LxToken("OTHER", SubSeq(line, i + 1, close - 1))) /\ lxpos' = (close + 1) - 1 /\ lxpc' = "scan"
    BY <1>1, <1>3, <1>7 DEF Quoted, Counts, Text
  <2>2. close \in i + 1..Len(line) /\ line[close] = q /\ (close + 1) - 1 = close
    BY <1>1, <1>4, <1>5, <1>7 DEF AtEnd
  <2>3. \A k \in i + 1..close - 1 : line[k] # q
    BY <1>5
  <2>4. PICK more : more = Append(toks, LxToken("OTHER", SubSeq(line, i + 1, close - 1)))
    OBVIOUS
  <2>5. LxScan(line, close, more)
    BY <1>1, <1>2, <2>2, <2>3, <2>4, ScanQuoted
  <2>6. LxScan(lxline', lxpos', lxtoks')
    BY <1>2, <2>1, <2>2, <2>4, <2>5
  <2> QED BY <1>2, <2>1, <2>6 DEF LxInv
<1> QED BY <1>6, <1>7

LEMMA WordKeeps ==
  ASSUME lxline \in Seq(LxChar), UNCHANGED lxline, lxpc = "scan", NEW i, LxAt(lxline, LxStates(lxline), lxtoks, i), Word(i)
  PROVE  LxInv'
<1>1. PICK line, a, toks : line = lxline /\ a = LxStates(line) /\ toks = lxtoks
  OBVIOUS
<1>2. LxAt(line, a, toks, i) /\ line \in Seq(LxChar) /\ line[i] \in Others /\ lxline' = line
  BY <1>1 DEF Word
<1>3. PICK end : end = Until(i, LxChar \ Others)
  OBVIOUS
<1>4. i \in 1..Len(line) /\ i \in 1..Len(line) + 1
  BY <1>2 DEF LxAt
<1>5. /\ end \in i..Len(line) + 1 /\ \A k \in i..end - 1 : line[k] \in Others
      /\ end <= Len(line) => line[end] \notin Others
  BY <1>1, <1>2, <1>3, <1>4, NotOf
<1>6. end # i
  BY <1>2, <1>4, <1>5
<1>7. PICK m : m = end - 1
  OBVIOUS
<1>8. m \in i..Len(line) /\ m + 1 = end
  BY <1>4, <1>5, <1>6, <1>7
<1>9. \A k \in i..m : line[k] \in Others
  BY <1>5, <1>7
<1>10. CASE ~AtEnd(end) /\ line[end] \in Quotes \cup {"<", ">"}
  <2>1. lxpc' = "SYSERR"
    BY <1>1, <1>3, <1>10 DEF Word, Fails
  <2>2. m < Len(line) /\ line[m + 1] \in Quotes \cup {"<", ">"}
    BY <1>1, <1>4, <1>5, <1>7, <1>8, <1>10 DEF AtEnd
  <2>3. LxWrong(line)
    BY <1>1, <1>2, <1>8, <1>9, <2>2, WordWrong
  <2> QED BY <1>2, <2>1, <2>3 DEF LxInv
<1>11. CASE ~(~AtEnd(end) /\ line[end] \in Quotes \cup {"<", ">"})
  <2>1. lxtoks' = Append(toks, LxToken("OTHER", SubSeq(line, i, m))) /\ lxpos' = m /\ lxpc' = "scan"
    BY <1>1, <1>3, <1>7, <1>11 DEF Word, Counts, Text
  <2>2. ASSUME m < Len(line) PROVE line[m + 1] \in Blanks \cup {"&"}
    <3>1. end <= Len(line) /\ end \in 1..Len(line)
      BY <1>4, <1>5, <1>7, <2>2
    <3>2. ~AtEnd(end)
      BY <1>1, <3>1 DEF AtEnd
    <3>3. line[end] \in LxChar /\ line[end] \notin Others
      BY <1>2, <1>5, <3>1
    <3>4. line[end] \notin Quotes \cup {"<", ">"}
      BY <1>11, <3>2
    <3>5. line[end] \in Blanks \cup {"&"}
      BY <3>3, <3>4 DEF Others, Operators
    <3> QED BY <1>8, <3>5
  <2>3. PICK more : more = Append(toks, LxToken("OTHER", SubSeq(line, i, m)))
    OBVIOUS
  <2>4. LxScan(line, m, more)
    BY <1>1, <1>2, <1>8, <1>9, <2>2, <2>3, ScanWord
  <2>5. LxScan(lxline', lxpos', lxtoks')
    BY <1>2, <2>1, <2>3, <2>4
  <2> QED BY <1>2, <2>1, <2>5 DEF LxInv
<1> QED BY <1>10, <1>11

LEMMA LxStep == LxInv /\ [lexan]_LxVars => LxInv'
<1>1. ASSUME LxInv, lexan PROVE LxInv'
  <2>1. lxline \in Seq(LxChar) /\ UNCHANGED lxline /\ lxpc = "scan" /\ LxScan(lxline, lxpos, lxtoks)
    BY <1>1 DEF LxInv, lexan
  <2>2. PICK line, pos, toks, st : line = lxline /\ pos = lxpos /\ toks = lxtoks /\ st = Until(lxpos + 1, LxChar \ Blanks)
    OBVIOUS
  <2>3. line \in Seq(LxChar) /\ LxScan(line, pos, toks) /\ lxline' = line
    BY <2>1, <2>2
  <2>4. pos \in 0..Len(line) /\ pos + 1 \in 1..Len(line) + 1
    BY <2>3 DEF LxScan
  <2>5. /\ st \in pos + 1..Len(line) + 1 /\ \A k \in pos + 1..st - 1 : line[k] \in Blanks
        /\ st <= Len(line) => line[st] \notin Blanks
    <3>1. PICK i : i = pos + 1
      OBVIOUS
    <3>2. lxline \in Seq(LxChar) /\ i \in 1..Len(lxline) + 1 /\ st = Until(i, LxChar \ Blanks)
      BY <2>1, <2>2, <2>4, <3>1
    <3>3. /\ st \in i..Len(lxline) + 1 /\ \A k \in i..st - 1 : lxline[k] \in Blanks
          /\ st <= Len(lxline) => lxline[st] \notin Blanks
      BY <3>2, NotOf
    <3> QED BY <2>2, <3>1, <3>3
  <2>6. CASE AtEnd(pos + 1)
    <3>1. lxpc' = "ok" /\ lxtoks' = toks
      BY <1>1, <2>2, <2>6 DEF lexan
    <3>2. ~(pos + 1 <= Len(line))
      BY <2>2, <2>3, <2>4, <2>6 DEF AtEnd
    <3>3. LxRight(line, toks)
      BY <2>3, <3>2, EndsAtOnce
    <3> QED BY <2>3, <3>1, <3>3 DEF LxInv
  <2>7. CASE ~AtEnd(pos + 1) /\ Len(toks) >= SHELL_MAXTOK
    <3>1. lxpc' = "SYSERR"
      BY <1>1, <2>2, <2>7 DEF lexan, Fails
    <3>2. pos + 1 <= Len(line)
      BY <2>2, <2>3, <2>4, <2>7 DEF AtEnd
    <3>3. LxWrong(line)
      BY <2>3, <2>7, <3>2, ScanNotSeen
    <3> QED BY <2>3, <3>1, <3>3 DEF LxInv
  <2>8. CASE ~AtEnd(pos + 1) /\ ~(Len(toks) >= SHELL_MAXTOK) /\ AtEnd(st)
    <3>1. lxpc' = "ok" /\ lxtoks' = toks
      BY <1>1, <2>2, <2>8 DEF lexan
    <3>2. \A k \in pos + 1..Len(line) : line[k] \in Blanks
      <4>1. st > Len(line)
        BY <2>2, <2>8 DEF AtEnd
      <4>2. Len(line) \in Nat /\ pos \in Nat /\ st \in Nat
        BY <2>3, <2>4, <2>5
      <4>3. \A k \in pos + 1..Len(line) : k \in pos + 1..st - 1
        BY <4>1, <4>2
      <4> QED BY <2>5, <4>3
    <3>3. LxRight(line, toks)
      BY <2>3, <2>8, <3>2, EndsInBlanks
    <3> QED BY <2>3, <3>1, <3>3 DEF LxInv
  <2>9. CASE ~AtEnd(pos + 1) /\ ~(Len(toks) >= SHELL_MAXTOK) /\ ~AtEnd(st)
    <3>1. OneChar(st) \/ Quoted(st) \/ Word(st)
      BY <1>1, <2>2, <2>9 DEF lexan
    <3>2. st \in pos + 1..Len(line) /\ line[st] \notin Blanks
      BY <2>2, <2>3, <2>4, <2>5, <2>9 DEF AtEnd
    <3>3. PICK a : a = LxStates(line)
      OBVIOUS
    <3>4. LxAt(line, a, toks, st)
      BY <2>3, <2>5, <2>9, <3>2, <3>3, ScanAt
    <3>5. LxAt(lxline, LxStates(lxline), lxtoks, st)
      BY <2>2, <3>3, <3>4
    <3> QED BY <2>1, <3>1, <3>5, OneCharKeeps, QuotedKeeps, WordKeeps
  <2> QED BY <2>6, <2>7, <2>8, <2>9
<1>2. ASSUME LxInv, UNCHANGED LxVars PROVE LxInv'
  BY <1>2 DEF LxInv, LxVars
<1> QED BY <1>1, <1>2

(* LexanFaithful for every line and every limit: lexan() returns exactly   *)
(* the tokens of the line, and SYSERR exactly where there is an error.     *)
THEOREM LexanFaithfulAlways == LexSpec => []LexanFaithful
<1>1. LexInit => LxInv
  BY LxStarted
<1>2. LxInv /\ [lexan]_LxVars => LxInv'
  BY LxStep
<1>3. LxInv => LexanFaithful
  BY LxFaithful
<1> QED BY <1>1, <1>2, <1>3, PTL DEF LexSpec

-----------------------------------------------------------------------------
(***************************************************************************)
(* The shell.  What the parser leaves of a line is always the beginning of *)
(* it, as far as token k, and the redirections it took off its end; a line *)
(* has at most one reading, because no operator can stand for a name.      *)
(***************************************************************************)
ParsedTo(line, k, b, files) ==
  [toks |-> SubSeq(line, 1, k), tlen |-> 2 * k, backgnd |-> b, files |-> files, err |-> FALSE]
FailedAt(line, k, b, files) ==
  [toks |-> SubSeq(line, 1, k), tlen |-> 2 * k, backgnd |-> b, files |-> files, err |-> TRUE]
ShReads(line, n, r, a) ==
  /\ n \in 1..Len(line) /\ r \in Redirections(Range(line) \ ShOps) /\ a \in {<<>>, <<"&">>}
  /\ \A i \in 1..n : line[i] \notin ShOps
  /\ line = SubSeq(line, 1, n) \o r \o a

LEMMA ReadingIsRead ==
  ASSUME NEW line, NEW d \in Readings(line)
  PROVE  ShReads(line, d.n, d.redirection, d.amper)
<1>1. /\ d.n \in 1..Len(line) /\ d.redirection \in Redirections(Range(line) \ ShOps)
      /\ d.amper \in {<<>>, <<"&">>}
  BY DEF Readings
<1>2. /\ \A i \in 1..d.n : line[i] \notin ShOps
      /\ line = SubSeq(line, 1, d.n) \o d.redirection \o d.amper
  BY DEF Readings
<1> QED BY <1>1, <1>2 DEF ShReads

LEMMA ReadIsReading ==
  ASSUME NEW line, NEW n, NEW r, NEW a, ShReads(line, n, r, a)
  PROVE  \E d \in Readings(line) : d.n = n /\ d.redirection = r /\ d.amper = a
<1> DEFINE d == [n |-> n, redirection |-> r, amper |-> a]
<1>1. d \in [n : 1..Len(line), redirection : Redirections(Range(line) \ ShOps), amper : {<<>>, <<"&">>}]
  BY DEF ShReads
<1>2. d.n = n /\ d.redirection = r /\ d.amper = a
  OBVIOUS
<1>3. d \in Readings(line)
  BY <1>1, <1>2 DEF Readings, ShReads
<1> QED BY <1>2, <1>3

(* A line by the places of its tokens.                                     *)
ShRedirs(line) ==
  {<<>>} \cup {<<op, f>> : op \in {"<", ">"}, f \in Range(line) \ ShOps}
LEMMA LinePrefix ==
  ASSUME NEW V, NEW line \in Seq(V), NEW k \in 0..Len(line)
  PROVE  /\ SubSeq(line, 1, k) \in Seq(V) /\ Len(SubSeq(line, 1, k)) = k
         /\ \A i \in 1..k : SubSeq(line, 1, k)[i] = line[i]
<1>1. \A i \in 1..k : line[i] \in V
  BY ElementOfSeq
<1>2. 1 \in Int /\ k \in Int
  OBVIOUS
<1>3. /\ SubSeq(line, 1, k) \in Seq(V)
      /\ Len(SubSeq(line, 1, k)) = IF 1 <= k THEN k - 1 + 1 ELSE 0
      /\ \A i \in 1..(k - 1 + 1) : SubSeq(line, 1, k)[i] = line[1 + i - 1]
  BY <1>1, <1>2, SubSeqProperties
<1>4. k - 1 + 1 = k /\ \A i \in 1..k : 1 + i - 1 = i
  OBVIOUS
<1> QED BY <1>3, <1>4

ShJoined(line, n, r, a) == SubSeq(line, 1, n) \o r \o a
ShInParts(line, n, r, a) ==
  /\ Len(line) = n + Len(r) + Len(a)
  /\ \A i \in 1..Len(r) : line[n + i] = r[i]
  /\ \A i \in 1..Len(a) : line[n + Len(r) + i] = a[i]
LEMMA LineOfParts ==
  ASSUME NEW V, NEW line \in Seq(V), NEW n \in 1..Len(line), NEW r \in Seq(V), NEW a \in Seq(V)
  PROVE  line = ShJoined(line, n, r, a) <=> ShInParts(line, n, r, a)
<1>0. n \in 0..Len(line)
  OBVIOUS
<1>1a. /\ SubSeq(line, 1, n) \in Seq(V) /\ Len(SubSeq(line, 1, n)) = n
       /\ \A i \in 1..n : SubSeq(line, 1, n)[i] = line[i]
  BY <1>0, LinePrefix
<1>1. PICK s \in Seq(V) : s = SubSeq(line, 1, n) /\ Len(s) = n /\ \A i \in 1..n : s[i] = line[i]
  BY <1>1a
<1>2a. PICK t : t = s \o r
  OBVIOUS
<1>2b. /\ t \in Seq(V) /\ Len(t) = Len(s) + Len(r)
       /\ \A i \in 1..(Len(s) + Len(r)) : t[i] = IF i <= Len(s) THEN s[i] ELSE r[i - Len(s)]
  BY <1>2a, ConcatProperties
<1>2. /\ t \in Seq(V) /\ Len(t) = n + Len(r)
      /\ \A i \in 1..(n + Len(r)) : t[i] = IF i <= n THEN s[i] ELSE r[i - n]
  BY ONLY <1>1, <1>2b
<1>3a. PICK u : u = t \o a
  OBVIOUS
<1>3b. /\ u \in Seq(V) /\ Len(u) = Len(t) + Len(a)
       /\ \A i \in 1..(Len(t) + Len(a)) : u[i] = IF i <= Len(t) THEN t[i] ELSE a[i - Len(t)]
  BY <1>2, <1>3a, ConcatProperties
<1>3. /\ u \in Seq(V) /\ Len(u) = n + Len(r) + Len(a)
      /\ \A i \in 1..(n + Len(r) + Len(a)) : u[i] = IF i <= n + Len(r) THEN t[i] ELSE a[i - (n + Len(r))]
  BY ONLY <1>2, <1>3b
<1>4. Len(r) \in Nat /\ Len(a) \in Nat /\ Len(line) \in Nat
  OBVIOUS
<1>5. u = SubSeq(line, 1, n) \o r \o a
  BY <1>1, <1>2a, <1>3a
<1>6. ASSUME line = u
      PROVE  /\ Len(line) = n + Len(r) + Len(a)
             /\ \A i \in 1..Len(r) : line[n + i] = r[i]
             /\ \A i \in 1..Len(a) : line[n + Len(r) + i] = a[i]
  <2>1. Len(line) = n + Len(r) + Len(a)
    BY <1>6, <1>3
  <2>2. ASSUME NEW i \in 1..Len(r) PROVE u[n + i] = r[i]
    <3>0. PICK j \in Int : j = n + i
      OBVIOUS
    <3>1. /\ j \in 1..(n + Len(r) + Len(a)) /\ j <= n + Len(r)
          /\ j \in 1..(n + Len(r)) /\ ~(j <= n) /\ j - n = i
      BY <3>0, <1>4
    <3>2. u[j] = t[j] /\ t[j] = r[j - n]
      BY <3>1, <1>2, <1>3
    <3> QED BY <3>0, <3>1, <3>2
  <2>3. ASSUME NEW i \in 1..Len(a) PROVE u[n + Len(r) + i] = a[i]
    <3>0. PICK j \in Int : j = n + Len(r) + i
      BY <1>4
    <3>1. /\ j \in 1..(n + Len(r) + Len(a)) /\ ~(j <= n + Len(r))
          /\ j - (n + Len(r)) = i
      BY <3>0, <1>4
    <3>2. u[j] = a[j - (n + Len(r))]
      BY <3>1, <1>3
    <3> QED BY <3>0, <3>1, <3>2
  <2> QED BY <1>6, <2>1, <2>2, <2>3
<1>7. ASSUME Len(line) = n + Len(r) + Len(a),
             \A i \in 1..Len(r) : line[n + i] = r[i],
             \A i \in 1..Len(a) : line[n + Len(r) + i] = a[i]
      PROVE  line = u
  <2>1. ASSUME NEW i \in 1..Len(line) PROVE line[i] = u[i]
    <3>0. i \in 1..(n + Len(r) + Len(a))
      BY <1>7
    <3>1. CASE i <= n
      <4>1. i \in 1..n /\ i \in 1..(n + Len(r)) /\ i <= n + Len(r)
        BY <3>1, <1>4
      <4> QED BY <4>1, <3>0, <1>1, <1>2, <1>3
    <3>2. CASE n < i /\ i <= n + Len(r)
      <4>1. i \in 1..(n + Len(r)) /\ ~(i <= n) /\ i - n \in 1..Len(r) /\ n + (i - n) = i
        BY <3>2, <1>4
      <4>2. u[i] = r[i - n]
        BY <4>1, <3>2, <3>0, <1>2, <1>3
      <4>3. line[n + (i - n)] = r[i - n]
        BY <4>1, <1>7
      <4> QED BY <4>1, <4>2, <4>3
    <3>3. CASE n + Len(r) < i
      <4>1. /\ ~(i <= n + Len(r)) /\ i - (n + Len(r)) \in 1..Len(a)
            /\ n + Len(r) + (i - (n + Len(r))) = i
        BY <3>0, <3>3, <1>4
      <4>2. u[i] = a[i - (n + Len(r))]
        BY <4>1, <3>0, <1>3
      <4>3. line[n + Len(r) + (i - (n + Len(r)))] = a[i - (n + Len(r))]
        BY <4>1, <1>7
      <4> QED BY <4>1, <4>2, <4>3
    <3> QED BY <3>1, <3>2, <3>3, <1>4
  <2>2. Len(line) = Len(u)
    BY <1>7, <1>3
  <2> QED BY <2>1, <2>2, <1>3, SeqEqual
<1> QED BY <1>5, <1>6, <1>7 DEF ShInParts, ShJoined

(***************************************************************************)
(* The parser, one block at a time.                                        *)
(***************************************************************************)
LEMMA ParsedToFields ==
  ASSUME NEW line, NEW k, NEW b, NEW files
  PROVE  /\ ParsedTo(line, k, b, files).toks = SubSeq(line, 1, k)
         /\ ParsedTo(line, k, b, files).tlen = 2 * k
         /\ ParsedTo(line, k, b, files).backgnd = b
         /\ ParsedTo(line, k, b, files).files = files
         /\ ParsedTo(line, k, b, files).err = FALSE
BY DEF ParsedTo

ShLine(t, n, b, f, e) == [toks |-> t, tlen |-> n, backgnd |-> b, files |-> f, err |-> e]
WithoutAmper(p, t1, n1, b1) == [p EXCEPT !.toks = t1, !.tlen = n1, !.backgnd = b1]
WithoutRedirection(p, t1, n1, f1) == [p EXCEPT !.toks = t1, !.tlen = n1, !.files = f1]
LEMMA TakenAmper ==
  ASSUME NEW p, NEW t, NEW n, NEW b, NEW f, NEW e, NEW t1, NEW n1, NEW b1,
         p = ShLine(t, n, b, f, e)
  PROVE  WithoutAmper(p, t1, n1, b1)
           = ShLine(t1, n1, b1, f, e)
<1>1. PICK q : q = [p EXCEPT !.toks = t1]
  OBVIOUS
<1>2. q = [toks |-> t1, tlen |-> n, backgnd |-> b, files |-> f, err |-> e]
  BY <1>1 DEF ShLine
<1>3. PICK r : r = [q EXCEPT !.tlen = n1]
  OBVIOUS
<1>4. r = [toks |-> t1, tlen |-> n1, backgnd |-> b, files |-> f, err |-> e]
  BY <1>2, <1>3
<1>5. [r EXCEPT !.backgnd = b1] = [toks |-> t1, tlen |-> n1, backgnd |-> b1, files |-> f, err |-> e]
  BY <1>4
<1>6. [p EXCEPT !.toks = t1, !.tlen = n1, !.backgnd = b1] = [r EXCEPT !.backgnd = b1]
  BY <1>1, <1>3
<1> QED BY <1>5, <1>6 DEF WithoutAmper, ShLine

LEMMA TakenRedirection ==
  ASSUME NEW p, NEW t, NEW n, NEW b, NEW f, NEW e, NEW t1, NEW n1, NEW f1,
         p = ShLine(t, n, b, f, e)
  PROVE  WithoutRedirection(p, t1, n1, f1)
           = ShLine(t1, n1, b, f1, e)
<1>1. PICK q : q = [p EXCEPT !.toks = t1]
  OBVIOUS
<1>2. q = [toks |-> t1, tlen |-> n, backgnd |-> b, files |-> f, err |-> e]
  BY <1>1 DEF ShLine
<1>3. PICK r : r = [q EXCEPT !.tlen = n1]
  OBVIOUS
<1>4. r = [toks |-> t1, tlen |-> n1, backgnd |-> b, files |-> f, err |-> e]
  BY <1>2, <1>3
<1>5. [r EXCEPT !.files = f1] = [toks |-> t1, tlen |-> n1, backgnd |-> b, files |-> f1, err |-> e]
  BY <1>4
<1>6. [p EXCEPT !.toks = t1, !.tlen = n1, !.files = f1] = [r EXCEPT !.files = f1]
  BY <1>1, <1>3
<1> QED BY <1>5, <1>6 DEF WithoutRedirection, ShLine

LEMMA NotedError ==
  ASSUME NEW p, NEW t, NEW n, NEW b, NEW f, NEW e, NEW e1,
         p = [toks |-> t, tlen |-> n, backgnd |-> b, files |-> f, err |-> e]
  PROVE  [p EXCEPT !.err = e1]
           = [toks |-> t, tlen |-> n, backgnd |-> b, files |-> f, err |-> e1]
OBVIOUS

LEMMA AmperIsStripped ==
  ASSUME NEW V, NEW line \in Seq(V), line # <<>>
  PROVE  /\ line[Len(line)] # "&" => StripAmper(Lexed(line)) = ParsedTo(line, Len(line), FALSE, {})
         /\ line[Len(line)] = "&" => StripAmper(Lexed(line)) = ParsedTo(line, Len(line) - 1, TRUE, {})
<1>1. line = SubSeq(line, 1, Len(line))
  BY SubSeqFull
<1>2. Lexed(line) = ParsedTo(line, Len(line), FALSE, {})
  BY <1>1 DEF Lexed, ParsedTo
<1>3. Last(Lexed(line).toks) = line[Len(line)]
  BY DEF Lexed, Last
<1>4. PICK m \in Nat : m = Len(line)
  OBVIOUS
<1>5. 2 * m - 2 = 2 * (m - 1)
  OBVIOUS
<1>6. Front(line) = SubSeq(line, 1, m - 1)
  BY <1>4 DEF Front
<1>7. [Lexed(line) EXCEPT !.toks = Front(@), !.tlen = @ - 2, !.backgnd = TRUE]
        = [toks |-> Front(line), tlen |-> 2 * m - 2, backgnd |-> TRUE, files |-> {}, err |-> FALSE]
  <2>1. PICK q : q = [toks |-> line, tlen |-> 2 * m, backgnd |-> FALSE, files |-> {}, err |-> FALSE]
    OBVIOUS
  <2>2. Lexed(line) = q /\ q.toks = line /\ q.tlen = 2 * m
    BY <1>4, <2>1 DEF Lexed
  <2>3. [q EXCEPT !.toks = Front(@), !.tlen = @ - 2, !.backgnd = TRUE]
          = [q EXCEPT !.toks = Front(line), !.tlen = 2 * m - 2, !.backgnd = TRUE]
    BY <2>2
  <2>4. [q EXCEPT !.toks = Front(line), !.tlen = 2 * m - 2, !.backgnd = TRUE]
          = [toks |-> Front(line), tlen |-> 2 * m - 2, backgnd |-> TRUE, files |-> {}, err |-> FALSE]
    <3>1. PICK yes, no : yes = TRUE /\ no = FALSE
      OBVIOUS
    <3>2. q = ShLine(line, 2 * m, no, {}, no)
      BY <2>1, <3>1 DEF ShLine
    <3>3. WithoutAmper(q, Front(line), 2 * m - 2, yes)
            = ShLine(Front(line), 2 * m - 2, yes, {}, no)
      BY <3>2, TakenAmper
    <3> QED BY <3>1, <3>3 DEF WithoutAmper, ShLine
  <2> QED BY <2>2, <2>3, <2>4
<1>8. @ = ParsedTo(line, m - 1, TRUE, {})
  BY <1>5, <1>6 DEF ParsedTo
<1> QED BY <1>2, <1>3, <1>4, <1>7, <1>8 DEF StripAmper

LEMMA FailedStaysFailed ==
  ASSUME NEW line, NEW k, NEW b, NEW files
  PROVE  Redirects(FailedAt(line, k, b, files)) = FailedAt(line, k, b, files)
<1>1. FailedAt(line, k, b, files).err
  BY DEF FailedAt
<1> QED BY <1>1 DEF Redirects

LEMMA NoRedirection ==
  ASSUME NEW V, NEW line \in Seq(V), NEW k \in 0..Len(line), NEW b, NEW files,
         k >= 3 => line[k - 1] \notin {"<", ">"}
  PROVE  Redirects(ParsedTo(line, k, b, files)) = ParsedTo(line, k, b, files)
<1>1. PICK p : p = ParsedTo(line, k, b, files)
  OBVIOUS
<1>2. p.toks = SubSeq(line, 1, k)
  BY <1>1 DEF ParsedTo
<1>3. Len(p.toks) = k /\ \A i \in 1..k : p.toks[i] = line[i]
  BY <1>2, LinePrefix
<1>4. CASE k < 3
  <2>1. Redirects(p) = p
    BY <1>3, <1>4 DEF Redirects
  <2> QED BY <2>1, <1>1
<1>5. CASE k >= 3
  <2>1. p.toks[k - 1] = line[k - 1]
    BY <1>3, <1>5
  <2>2. Redirects(p) = p
    BY <1>3, <1>5, <2>1 DEF Redirects
  <2> QED BY <2>2, <1>1
<1> QED BY <1>4, <1>5

LEMMA OneRedirection ==
  ASSUME NEW V, NEW line \in Seq(V), NEW k \in 0..Len(line), NEW b, NEW files
  PROVE  /\ k < 3 => Redirects(ParsedTo(line, k, b, files)) = ParsedTo(line, k, b, files)
         /\ k >= 3 /\ line[k - 1] \notin {"<", ">"} =>
              Redirects(ParsedTo(line, k, b, files)) = ParsedTo(line, k, b, files)
         /\ /\ k >= 3 /\ line[k - 1] \in {"<", ">"}
            /\ line[k] \in ShOps \/ line[k - 1] \in {f[1] : f \in files}
            => Redirects(ParsedTo(line, k, b, files)) = FailedAt(line, k, b, files)
         /\ /\ k >= 3 /\ line[k - 1] \in {"<", ">"}
            /\ line[k] \notin ShOps /\ line[k - 1] \notin {f[1] : f \in files}
            => Redirects(ParsedTo(line, k, b, files))
                 = ParsedTo(line, k - 2, b, files \cup {<<line[k - 1], line[k]>>})
<1>1. PICK p : p = ParsedTo(line, k, b, files)
  OBVIOUS
<1>2. /\ p.toks = SubSeq(line, 1, k) /\ p.tlen = 2 * k /\ p.backgnd = b /\ p.files = files /\ p.err = FALSE
  BY <1>1 DEF ParsedTo
<1>3. /\ p.toks \in Seq(V) /\ Len(p.toks) = k
      /\ \A i \in 1..k : p.toks[i] = line[i]
  BY <1>2, LinePrefix
<1>4. CASE k < 3
  <2>1. Redirects(p) = p
    BY <1>3, <1>4 DEF Redirects
  <2> QED BY <2>1, <1>1, <1>4
<1>5. CASE k >= 3
  <2>1. p.toks[k - 1] = line[k - 1] /\ p.toks[k] = line[k]
    BY <1>3, <1>5
  <2>2. CASE line[k - 1] \notin {"<", ">"}
    <3>1. Redirects(p) = p
      BY <1>3, <2>1, <2>2 DEF Redirects
    <3> QED BY <3>1, <1>1, <2>2
  <2>3. CASE line[k - 1] \in {"<", ">"} /\ (line[k] \in ShOps \/ line[k - 1] \in {f[1] : f \in files})
    <3>1. Redirects(p) = [p EXCEPT !.err = TRUE]
      BY <1>2, <1>3, <1>5, <2>1, <2>3 DEF Redirects
    <3>2. [p EXCEPT !.err = TRUE] = FailedAt(line, k, b, files)
      <4>1. PICK yes : yes = TRUE
        OBVIOUS
      <4>2. p = [toks |-> p.toks, tlen |-> p.tlen, backgnd |-> p.backgnd, files |-> p.files, err |-> p.err]
        BY <1>1, <1>2 DEF ParsedTo
      <4>3. [p EXCEPT !.err = yes]
              = [toks |-> p.toks, tlen |-> p.tlen, backgnd |-> p.backgnd, files |-> p.files, err |-> yes]
        BY <4>2
      <4> QED BY <4>1, <4>3, <1>2 DEF FailedAt
    <3>3. Redirects(p) = FailedAt(line, k, b, files)
      BY <3>1, <3>2
    <3> QED BY <3>3, <1>1, <2>3, <1>5
  <2>4. CASE line[k - 1] \in {"<", ">"} /\ line[k] \notin ShOps /\ line[k - 1] \notin {f[1] : f \in files}
    <3>a. /\ ~p.err /\ ~(Len(p.toks) < 3) /\ p.toks[Len(p.toks) - 1] \in {"<", ">"}
          /\ p.toks[Len(p.toks)] \notin ShOps /\ p.toks[Len(p.toks) - 1] \notin {f[1] : f \in p.files}
      BY <1>2, <1>3, <1>5, <2>1, <2>4
    <3>b. Redirects(p) = [p EXCEPT !.toks = SubSeq(@, 1, Len(p.toks) - 2), !.tlen = 2 * (Len(p.toks) - 2),
                                   !.files = @ \cup {<<p.toks[Len(p.toks) - 1], p.toks[Len(p.toks)]>>}]
      BY <3>a, Zenon DEF Redirects
    <3>1. Redirects(p) = [p EXCEPT !.toks = SubSeq(p.toks, 1, k - 2), !.tlen = 2 * (k - 2),
                                   !.files = files \cup {<<line[k - 1], line[k]>>}]
      BY <3>b, <2>1, <1>2, <1>3
    <3>n. PICK no : no = FALSE
      OBVIOUS
    <3>c. p = ShLine(p.toks, p.tlen, b, files, no)
      BY <3>n, <1>1, <1>2 DEF ParsedTo, ShLine
    <3>2. Redirects(p) = [toks |-> SubSeq(p.toks, 1, k - 2), tlen |-> 2 * (k - 2), backgnd |-> b,
               files |-> files \cup {<<line[k - 1], line[k]>>}, err |-> no]
      <4>1. WithoutRedirection(p, SubSeq(p.toks, 1, k - 2), 2 * (k - 2), files \cup {<<line[k - 1], line[k]>>})
              = ShLine(SubSeq(p.toks, 1, k - 2), 2 * (k - 2), b, files \cup {<<line[k - 1], line[k]>>}, no)
        BY <3>c, TakenRedirection
      <4> QED BY <3>1, <4>1 DEF WithoutRedirection, ShLine
    <3>3. SubSeq(p.toks, 1, k - 2) = SubSeq(line, 1, k - 2)
      <4>1. k - 2 \in 0..Len(p.toks) /\ k - 2 \in 0..Len(line)
        BY <1>3, <1>5
      <4>2. /\ SubSeq(p.toks, 1, k - 2) \in Seq(V) /\ Len(SubSeq(p.toks, 1, k - 2)) = k - 2
            /\ \A i \in 1..(k - 2) : SubSeq(p.toks, 1, k - 2)[i] = p.toks[i]
        BY <4>1, <1>3, LinePrefix
      <4>3. /\ SubSeq(line, 1, k - 2) \in Seq(V) /\ Len(SubSeq(line, 1, k - 2)) = k - 2
            /\ \A i \in 1..(k - 2) : SubSeq(line, 1, k - 2)[i] = line[i]
        BY <4>1, LinePrefix
      <4>4. \A i \in 1..(k - 2) : SubSeq(p.toks, 1, k - 2)[i] = SubSeq(line, 1, k - 2)[i]
        <5>1. \A i \in 1..(k - 2) : i \in 1..k
          OBVIOUS
        <5> QED BY <5>1, <4>2, <4>3, <1>3
      <4> QED BY <4>2, <4>3, <4>4, SeqEqual
    <3>4. Redirects(p) = ParsedTo(line, k - 2, b, files \cup {<<line[k - 1], line[k]>>})
      BY <3>2, <3>3, <3>n DEF ParsedTo
    <3> QED BY <3>4, <1>1, <2>4, <1>5
  <2> QED BY <2>2, <2>3, <2>4, <1>5
<1> QED BY <1>4, <1>5

LEMMA FailedIsAnError ==
  ASSUME NEW line, NEW k, NEW b, NEW files
  PROVE  OnlyOthers(FailedAt(line, k, b, files)).err
<1>1. PICK p : p = FailedAt(line, k, b, files)
  OBVIOUS
<1>2. p.err /\ p = [toks |-> p.toks, tlen |-> p.tlen, backgnd |-> p.backgnd, files |-> p.files, err |-> p.err]
  BY <1>1 DEF FailedAt
<1>3. PICK e : e = (p.err \/ p.toks = <<>> \/ \E i \in DOMAIN p.toks : p.toks[i] \in ShOps)
  OBVIOUS
<1>4. OnlyOthers(p) = [p EXCEPT !.err = e]
  BY <1>3 DEF OnlyOthers
<1>5. [p EXCEPT !.err = e].err = e
  BY <1>2
<1> QED BY <1>1, <1>2, <1>3, <1>4, <1>5

LEMMA OthersOnly ==
  ASSUME NEW V, NEW line \in Seq(V), NEW k \in 0..Len(line), NEW b, NEW files
  PROVE  /\ OnlyOthers(ParsedTo(line, k, b, files)).err <=> k = 0 \/ \E i \in 1..k : line[i] \in ShOps
         /\ OnlyOthers(ParsedTo(line, k, b, files)).toks = SubSeq(line, 1, k)
         /\ OnlyOthers(ParsedTo(line, k, b, files)).tlen = 2 * k
         /\ OnlyOthers(ParsedTo(line, k, b, files)).backgnd = b
         /\ OnlyOthers(ParsedTo(line, k, b, files)).files = files
<1>1. PICK p : p = ParsedTo(line, k, b, files)
  OBVIOUS
<1>2. /\ p.toks = SubSeq(line, 1, k) /\ p.tlen = 2 * k /\ p.backgnd = b /\ p.files = files /\ p.err = FALSE
  BY <1>1 DEF ParsedTo
<1>3. /\ p.toks \in Seq(V) /\ Len(p.toks) = k /\ DOMAIN p.toks = 1..k
      /\ \A i \in 1..k : p.toks[i] = line[i]
  BY <1>2, LinePrefix
<1>4. p.toks = <<>> <=> k = 0
  BY <1>3, EmptySeq
<1>5. (\E i \in DOMAIN p.toks : p.toks[i] \in ShOps) <=> \E i \in 1..k : line[i] \in ShOps
  BY <1>3
<1>6. PICK e : e = (p.err \/ p.toks = <<>> \/ \E i \in DOMAIN p.toks : p.toks[i] \in ShOps)
  OBVIOUS
<1>7. OnlyOthers(p) = [p EXCEPT !.err = e]
  BY <1>6 DEF OnlyOthers
<1>8. [p EXCEPT !.err = e] = [toks |-> p.toks, tlen |-> p.tlen, backgnd |-> p.backgnd, files |-> p.files, err |-> e]
  <2>1. p = [toks |-> p.toks, tlen |-> p.tlen, backgnd |-> p.backgnd, files |-> p.files, err |-> p.err]
    BY <1>1, <1>2 DEF ParsedTo
  <2> QED BY <2>1, NotedError
<1>9. e <=> k = 0 \/ \E i \in 1..k : line[i] \in ShOps
  BY <1>2, <1>4, <1>5, <1>6
<1> QED BY <1>1, <1>2, <1>7, <1>8, <1>9

(***************************************************************************)
(* The redirections a reading may have, and the files they name.           *)
(***************************************************************************)
LEMMA RedirectionShapes ==
  ASSUME NEW F, NEW r \in Redirections(F)
  PROVE  \/ r = <<>>
         \/ \E op \in {"<", ">"}, f \in F : r = <<op, f>>
         \/ \E op, oq \in {"<", ">"}, f, g \in F : op # oq /\ r = <<op, f, oq, g>>
BY DEF Redirections

LEMMA ShapesAreRedirections ==
  ASSUME NEW F
  PROVE  /\ <<>> \in Redirections(F)
         /\ \A op \in {"<", ">"}, f \in F : <<op, f>> \in Redirections(F)
         /\ \A op, oq \in {"<", ">"}, f, g \in F : op # oq => <<op, f, oq, g>> \in Redirections(F)
BY DEF Redirections

LEMMA NoFiles == FilesOf(<<>>) = {}
<1>1. Len(<<>>) \div 2 = 0
  OBVIOUS
<1> QED BY <1>1 DEF FilesOf

LEMMA OneFile ==
  ASSUME NEW op, NEW f
  PROVE  FilesOf(<<op, f>>) = {<<op, f>>}
<1>1. PICK r : r = <<op, f>>
  OBVIOUS
<1>2. Len(r) = 2 /\ r[1] = op /\ r[2] = f
  BY <1>1
<1>3. 1..(Len(r) \div 2) = {1}
  BY <1>2
<1>4. FilesOf(r) = {<<r[2 * i - 1], r[2 * i]>> : i \in {1}}
  BY <1>3 DEF FilesOf
<1>5. {<<r[2 * i - 1], r[2 * i]>> : i \in {1}} = {<<r[1], r[2]>>}
  OBVIOUS
<1> QED BY <1>1, <1>2, <1>4, <1>5

LEMMA TwoFiles ==
  ASSUME NEW op, NEW f, NEW oq, NEW g
  PROVE  FilesOf(<<op, f, oq, g>>) = {<<oq, g>>} \cup {<<op, f>>}
<1>1. PICK r : r = <<op, f, oq, g>>
  OBVIOUS
<1>2. Len(r) = 4 /\ r[1] = op /\ r[2] = f /\ r[3] = oq /\ r[4] = g
  BY <1>1
<1>3. 1..(Len(r) \div 2) = {1, 2}
  BY <1>2
<1>4. FilesOf(r) = {<<r[2 * i - 1], r[2 * i]>> : i \in {1, 2}}
  BY <1>3 DEF FilesOf
<1>5. {<<r[2 * i - 1], r[2 * i]>> : i \in {1, 2}} = {<<r[3], r[4]>>} \cup {<<r[1], r[2]>>}
  OBVIOUS
<1> QED BY <1>1, <1>2, <1>4, <1>5

(***************************************************************************)
(* What is not an error has a reading, and the parser found it.            *)
(***************************************************************************)
ShFound(line, p, n, r, a) ==
  /\ p.toks = SubSeq(line, 1, n) /\ p.tlen = 2 * n /\ p.files = FilesOf(r)
  /\ p.backgnd <=> a # <<>>
ShAmper(b) == IF b THEN <<"&">> ELSE <<>>
ShLineEnd(line, k, b) ==
  /\ b \in BOOLEAN /\ k \in 0..Len(line) /\ k + Len(ShAmper(b)) = Len(line)
  /\ b <=> line[Len(line)] = "&"

LEMMA AmperTokens ==
  ASSUME NEW b \in BOOLEAN
  PROVE  /\ ShAmper(b) \in {<<>>, <<"&">>} /\ (b <=> ShAmper(b) # <<>>)
         /\ Len(ShAmper(b)) = IF b THEN 1 ELSE 0
         /\ \A i \in 1..Len(ShAmper(b)) : i = 1 /\ ShAmper(b)[i] = "&"
<1>1. Len(<<"&">>) = 1 /\ <<"&">>[1] = "&" /\ Len(<<>>) = 0
  OBVIOUS
<1>2. <<"&">> # <<>>
  BY <1>1
<1>3. CASE b
  BY <1>1, <1>2, <1>3 DEF ShAmper
<1>4. CASE ~b
  BY <1>1, <1>2, <1>4 DEF ShAmper
<1> QED BY <1>3, <1>4

LEMMA LineEnds ==
  ASSUME NEW V, NEW line \in Seq(V), line # <<>>
  PROVE  \E k, b : ShLineEnd(line, k, b) /\ StripAmper(Lexed(line)) = ParsedTo(line, k, b, {})
<1>1. Len(line) \in Nat \ {0}
  BY EmptySeq
<1>2. CASE line[Len(line)] = "&"
  <2>1. PICK b \in BOOLEAN : b = TRUE
    OBVIOUS
  <2>2. Len(ShAmper(b)) = 1
    BY <2>1, AmperTokens
  <2>3. ShLineEnd(line, Len(line) - 1, b)
    BY <1>1, <1>2, <2>1, <2>2 DEF ShLineEnd
  <2>4. StripAmper(Lexed(line)) = ParsedTo(line, Len(line) - 1, b, {})
    BY <1>2, <2>1, AmperIsStripped
  <2> QED BY <2>3, <2>4
<1>3. CASE line[Len(line)] # "&"
  <2>1. PICK b \in BOOLEAN : b = FALSE
    OBVIOUS
  <2>2. Len(ShAmper(b)) = 0
    BY <2>1, AmperTokens
  <2>3. ShLineEnd(line, Len(line), b)
    BY <1>1, <1>3, <2>1, <2>2 DEF ShLineEnd
  <2>4. StripAmper(Lexed(line)) = ParsedTo(line, Len(line), b, {})
    BY <1>3, <2>1, AmperIsStripped
  <2> QED BY <2>3, <2>4
<1> QED BY <1>2, <1>3

LEMMA RedirectionSeq ==
  ASSUME NEW V, ShOps \subseteq V, NEW F, F \subseteq V, NEW r \in Redirections(F)
  PROVE  r \in Seq(V)
<1>1. "<" \in V /\ ">" \in V
  BY DEF ShOps
<1>2. \A op, f, oq, g \in V : <<>> \in Seq(V) /\ <<op, f>> \in Seq(V) /\ <<op, f, oq, g>> \in Seq(V)
  OBVIOUS
<1>3. \/ r = <<>>
      \/ \E op \in {"<", ">"}, f \in F : r = <<op, f>>
      \/ \E op, oq \in {"<", ">"}, f, g \in F : op # oq /\ r = <<op, f, oq, g>>
  BY RedirectionShapes
<1>4. CASE r = <<>>
  BY <1>4
<1>5. ASSUME NEW op \in {"<", ">"}, NEW f \in F, r = <<op, f>> PROVE r \in Seq(V)
  <2>1. op \in V /\ f \in V
    BY <1>1
  <2> QED BY <2>1, <1>5, <1>2
<1>6. ASSUME NEW op \in {"<", ">"}, NEW oq \in {"<", ">"}, NEW f \in F, NEW g \in F, r = <<op, f, oq, g>>
      PROVE r \in Seq(V)
  <2>1. op \in V /\ f \in V /\ oq \in V /\ g \in V
    BY <1>1
  <2> QED BY <2>1, <1>6, <1>2
<1> QED BY <1>3, <1>4, <1>5, <1>6

LEMMA LineNames ==
  ASSUME NEW V, NEW line \in Seq(V)
  PROVE  /\ Range(line) \ ShOps \subseteq V
         /\ \A i \in 1..Len(line) : line[i] \in Range(line)
BY DEF Range

(* Tokens that are no operators, then a redirection of r, then the "&".    *)
LEMMA ReadUpTo ==
  ASSUME NEW V, NEW line \in Seq(V), ShOps \subseteq V, NEW k, NEW b, ShLineEnd(line, k, b),
         NEW n \in 1..Len(line), \A i \in 1..n : line[i] \notin ShOps,
         NEW r \in Redirections(Range(line) \ ShOps),
         n + Len(r) = k, \A i \in 1..Len(r) : line[n + i] = r[i]
  PROVE  ShReads(line, n, r, ShAmper(b))
<1>1. b \in BOOLEAN /\ k + Len(ShAmper(b)) = Len(line) /\ (b <=> line[Len(line)] = "&")
  BY DEF ShLineEnd
<1>2. /\ ShAmper(b) \in {<<>>, <<"&">>} /\ \A i \in 1..Len(ShAmper(b)) : i = 1 /\ b /\ ShAmper(b)[i] = "&"
      /\ Len(ShAmper(b)) = IF b THEN 1 ELSE 0
  BY <1>1, AmperTokens
<1>3. r \in Seq(V) /\ <<>> \in Seq(V) /\ <<"&">> \in Seq(V)
  <2>1. r \in Seq(V)
    BY LineNames, RedirectionSeq
  <2>2. "&" \in V
    BY DEF ShOps
  <2> QED BY <2>1, <2>2
<1>4. ShAmper(b) \in Seq(V)
  BY <1>2, <1>3
<1>5. Len(line) = n + Len(r) + Len(ShAmper(b))
  BY <1>1
<1>6. ASSUME NEW i \in 1..Len(ShAmper(b)) PROVE line[n + Len(r) + i] = ShAmper(b)[i]
  <2>1. i = 1 /\ b /\ ShAmper(b)[i] = "&" /\ Len(ShAmper(b)) = 1
    BY <1>2
  <2>2. n + Len(r) + i = Len(line)
    BY <2>1, <1>5
  <2> QED BY <2>1, <2>2, <1>1
<1>7. line = SubSeq(line, 1, n) \o r \o ShAmper(b)
  <2>1. r \in Seq(V) /\ \A i \in 1..Len(r) : line[n + i] = r[i]
    BY <1>3
  <2>2. \A i \in 1..Len(ShAmper(b)) : line[n + Len(r) + i] = ShAmper(b)[i]
    BY <1>6
  <2>3. PICK a : a = ShAmper(b)
    OBVIOUS
  <2>4. a \in Seq(V) /\ Len(line) = n + Len(r) + Len(a) /\ \A i \in 1..Len(a) : line[n + Len(r) + i] = a[i]
    BY <2>2, <2>3, <1>4, <1>5
  <2>5. ShInParts(line, n, r, a)
    BY <2>1, <2>4 DEF ShInParts
  <2>6. line = ShJoined(line, n, r, a)
    BY <2>1, <2>4, <2>5, LineOfParts
  <2> QED BY <2>3, <2>6 DEF ShJoined
<1> QED BY <1>2, <1>7 DEF ShReads

(* The last of the parser: the line ends with token k, and files were named.*)
LEMMA FoundIn ==
  ASSUME NEW V, NEW line \in Seq(V), NEW n \in 0..Len(line), NEW b \in BOOLEAN, NEW r,
         NEW p, p = OnlyOthers(ParsedTo(line, n, b, FilesOf(r))), ~p.err
  PROVE  /\ n \in 1..Len(line) /\ \A i \in 1..n : line[i] \notin ShOps
         /\ ShFound(line, p, n, r, ShAmper(b))
<1>1. p.err <=> n = 0 \/ \E i \in 1..n : line[i] \in ShOps
  BY OthersOnly
<1>2. n \in 1..Len(line) /\ \A i \in 1..n : line[i] \notin ShOps
  BY <1>1
<1>3. p.toks = SubSeq(line, 1, n) /\ p.tlen = 2 * n /\ p.backgnd = b /\ p.files = FilesOf(r)
  BY OthersOnly
<1> QED BY <1>2, <1>3, AmperTokens DEF ShFound

ShRedirectAt(line, k, files) ==
  /\ k >= 3 /\ line[k - 1] \in {"<", ">"}
  /\ line[k] \notin ShOps /\ line[k - 1] \notin {f[1] : f \in files}
LEMMA RedirectionOrNot ==
  ASSUME NEW V, NEW line \in Seq(V), NEW k \in 0..Len(line), NEW b, NEW files
  PROVE  \/ ~ShRedirectAt(line, k, files) /\ Redirects(ParsedTo(line, k, b, files)) = ParsedTo(line, k, b, files)
         \/ Redirects(ParsedTo(line, k, b, files)) = FailedAt(line, k, b, files)
         \/ /\ ShRedirectAt(line, k, files)
            /\ Redirects(ParsedTo(line, k, b, files))
                 = ParsedTo(line, k - 2, b, files \cup {<<line[k - 1], line[k]>>})
BY OneRedirection DEF ShRedirectAt

LEMMA NoErrorIsRead ==
  ASSUME NEW V, NEW line \in Seq(V), ShOps \subseteq V, line # <<>>, ~Parsed(line).err
  PROVE  \E n, r, a : ShReads(line, n, r, a) /\ ShFound(line, Parsed(line), n, r, a)
<1>1. PICK k, b : ShLineEnd(line, k, b) /\ StripAmper(Lexed(line)) = ParsedTo(line, k, b, {})
  BY LineEnds
<1>2. k \in 0..Len(line) /\ b \in BOOLEAN /\ k \in Int
  BY <1>1 DEF ShLineEnd
<1>3. PICK p : p = Parsed(line)
  OBVIOUS
<1>4. p = OnlyOthers(Redirects(Redirects(ParsedTo(line, k, b, {})))) /\ ~p.err
  BY <1>1, <1>3 DEF Parsed
<1>5. \A f \in {} : FALSE
  OBVIOUS
<1>6. CASE Redirects(ParsedTo(line, k, b, {})) = ParsedTo(line, k, b, {})
  <2>1. p = OnlyOthers(ParsedTo(line, k, b, FilesOf(<<>>)))
    BY <1>4, <1>6, NoFiles
  <2>2. /\ k \in 1..Len(line) /\ \A i \in 1..k : line[i] \notin ShOps
        /\ ShFound(line, p, k, <<>>, ShAmper(b))
    BY <2>1, <1>2, <1>4, FoundIn
  <2>3. ShReads(line, k, <<>>, ShAmper(b))
    <3>1. PICK r \in Redirections(Range(line) \ ShOps) : r = <<>>
      BY ShapesAreRedirections
    <3>2. k + Len(r) = k /\ \A i \in 1..Len(r) : line[k + i] = r[i]
      BY <3>1, <1>2
    <3>3. ShReads(line, k, r, ShAmper(b))
      BY <3>2, <2>2, <1>1, ReadUpTo
    <3> QED BY <3>1, <3>3
  <2> QED BY <2>2, <2>3, <1>3
<1>7. CASE Redirects(ParsedTo(line, k, b, {})) = FailedAt(line, k, b, {})
  BY <1>4, <1>7, FailedStaysFailed, FailedIsAnError
<1>8. CASE /\ ShRedirectAt(line, k, {})
           /\ Redirects(ParsedTo(line, k, b, {})) = ParsedTo(line, k - 2, b, {} \cup {<<line[k - 1], line[k]>>})
  <2>1. PICK op, f : op = line[k - 1] /\ f = line[k]
    OBVIOUS
  <2>2. op \in {"<", ">"} /\ f \in Range(line) \ ShOps /\ k >= 3
    BY <1>2, <1>8, <2>1, LineNames DEF ShRedirectAt
  <2>3. PICK q : q = ParsedTo(line, k - 2, b, FilesOf(<<op, f>>))
    OBVIOUS
  <2>4. {} \cup {<<line[k - 1], line[k]>>} = FilesOf(<<op, f>>)
    BY <2>1, OneFile
  <2>5. p = OnlyOthers(Redirects(q))
    BY <1>4, <1>8, <2>3, <2>4
  <2>6. k - 2 \in 0..Len(line) /\ k - 2 \in Int
    BY <1>2, <2>2
  <2>7. CASE Redirects(q) = q
    <3>1. p = OnlyOthers(ParsedTo(line, k - 2, b, FilesOf(<<op, f>>)))
      BY <2>3, <2>5, <2>7
    <3>2. PICK r \in Redirections(Range(line) \ ShOps) : r = <<op, f>>
      BY <2>2, ShapesAreRedirections
    <3>3. PICK n \in Int : n = k - 2
      BY <2>6
    <3>4. n \in 0..Len(line) /\ p = OnlyOthers(ParsedTo(line, n, b, FilesOf(r)))
      BY <2>6, <3>1, <3>2, <3>3
    <3>5. /\ n \in 1..Len(line) /\ \A i \in 1..n : line[i] \notin ShOps
          /\ ShFound(line, p, n, r, ShAmper(b))
      BY <3>4, <1>2, <1>4, FoundIn
    <3>6. n + Len(r) = k /\ \A i \in 1..Len(r) : line[n + i] = r[i]
      <4>1. Len(r) = 2 /\ r[1] = op /\ r[2] = f /\ n + 1 = k - 1 /\ n + 2 = k
        BY <3>2, <3>3, <1>2
      <4>2. ASSUME NEW i \in 1..Len(r) PROVE line[n + i] = r[i]
        <5>1. i = 1 \/ i = 2
          BY <4>1
        <5> QED BY <5>1, <4>1, <2>1
      <4> QED BY <4>1, <4>2
    <3>7. ShReads(line, n, r, ShAmper(b))
      BY <3>5, <3>6, <1>1, ReadUpTo
    <3> QED BY <3>5, <3>7, <1>3
  <2>8. CASE Redirects(q) = FailedAt(line, k - 2, b, FilesOf(<<op, f>>))
    BY <1>4, <2>5, <2>8, FailedIsAnError
  <2>9. CASE /\ ShRedirectAt(line, k - 2, FilesOf(<<op, f>>))
             /\ Redirects(q) = ParsedTo(line, k - 2 - 2, b,
                  FilesOf(<<op, f>>) \cup {<<line[k - 2 - 1], line[k - 2]>>})
    <3>1. PICK oq, g : oq = line[k - 3] /\ g = line[k - 2]
      OBVIOUS
    <3>2. k - 2 - 1 = k - 3 /\ k - 2 - 2 = k - 4 /\ k - 2 >= 3 /\ k >= 5
      BY <1>2, <2>9 DEF ShRedirectAt
    <3>3. oq \in {"<", ">"} /\ g \notin ShOps /\ oq \notin {h[1] : h \in FilesOf(<<op, f>>)}
      BY <2>9, <3>1, <3>2 DEF ShRedirectAt
    <3>4. oq # op
      <4>1. {h[1] : h \in FilesOf(<<op, f>>)} = {op}
        BY OneFile
      <4> QED BY <4>1, <3>3
    <3>5. g \in Range(line) \ ShOps
      <4>1. k - 2 \in 1..Len(line)
        BY <3>2, <1>2
      <4> QED BY <4>1, <3>1, <3>3, LineNames
    <3>6. PICK r \in Redirections(Range(line) \ ShOps) : r = <<oq, g, op, f>>
      BY <2>2, <3>3, <3>4, <3>5, ShapesAreRedirections
    <3>7. FilesOf(<<op, f>>) \cup {<<line[k - 2 - 1], line[k - 2]>>} = FilesOf(r)
      BY <3>1, <3>2, <3>6, OneFile, TwoFiles
    <3>8. PICK n \in Int : n = k - 4
      BY <1>2
    <3>9. n \in 0..Len(line) /\ p = OnlyOthers(ParsedTo(line, n, b, FilesOf(r)))
      <4>1. n \in 0..Len(line) /\ n = k - 2 - 2
        BY <3>2, <3>8, <1>2
      <4>2. Redirects(q) = ParsedTo(line, n, b, FilesOf(r))
        BY <4>1, <3>7, <2>9
      <4> QED BY <4>1, <4>2, <2>5
    <3>10. /\ n \in 1..Len(line) /\ \A i \in 1..n : line[i] \notin ShOps
           /\ ShFound(line, p, n, r, ShAmper(b))
      BY <3>9, <1>2, <1>4, FoundIn
    <3>11. n + Len(r) = k /\ \A i \in 1..Len(r) : line[n + i] = r[i]
      <4>1. Len(r) = 4 /\ r[1] = oq /\ r[2] = g /\ r[3] = op /\ r[4] = f
        BY <3>6
      <4>2. n + 1 = k - 3 /\ n + 2 = k - 2 /\ n + 3 = k - 1 /\ n + 4 = k
        BY <3>8, <1>2
      <4>3. ASSUME NEW i \in 1..Len(r) PROVE line[n + i] = r[i]
        <5>1. i = 1 \/ i = 2 \/ i = 3 \/ i = 4
          BY <4>1
        <5> QED BY <5>1, <4>1, <4>2, <2>1, <3>1
      <4> QED BY <4>1, <4>2, <4>3
    <3>12. ShReads(line, n, r, ShAmper(b))
      BY <3>10, <3>11, <1>1, ReadUpTo
    <3> QED BY <3>10, <3>12, <1>3
  <2> QED BY <2>3, <2>6, <2>7, <2>8, <2>9, RedirectionOrNot
<1> QED BY <1>2, <1>6, <1>7, <1>8, RedirectionOrNot

LEMMA NextRedirection ==
  ASSUME NEW V, NEW line \in Seq(V), NEW k \in 0..Len(line), NEW b, NEW files,
         k >= 3, line[k - 1] \in {"<", ">"}, line[k] \notin ShOps,
         \A f \in files : f[1] # line[k - 1]
  PROVE  Redirects(ParsedTo(line, k, b, files))
           = ParsedTo(line, k - 2, b, files \cup {<<line[k - 1], line[k]>>})
<1>1. line[k - 1] \notin {f[1] : f \in files}
  OBVIOUS
<1> QED BY <1>1, OneRedirection

LEMMA TwiceNothing ==
  ASSUME NEW V, NEW line \in Seq(V), NEW n \in 1..Len(line), \A i \in 1..n : line[i] \notin ShOps,
         NEW b \in BOOLEAN, NEW files
  PROVE  /\ Redirects(ParsedTo(line, n, b, files)) = ParsedTo(line, n, b, files)
         /\ ~OnlyOthers(ParsedTo(line, n, b, files)).err
<1>1. n \in 0..Len(line) /\ n # 0 /\ n \in Int
  OBVIOUS
<1>2. n >= 3 => line[n - 1] \notin {"<", ">"}
  BY DEF ShOps
<1>4. Redirects(ParsedTo(line, n, b, files)) = ParsedTo(line, n, b, files)
  BY <1>1, <1>2, NoRedirection
<1>5. OnlyOthers(ParsedTo(line, n, b, files)).err <=> n = 0 \/ \E i \in 1..n : line[i] \in ShOps
  BY <1>1, OthersOnly
<1> QED BY <1>1, <1>4, <1>5

LEMMA ReadEnd ==
  ASSUME NEW V, NEW line \in Seq(V), ShOps \subseteq V, NEW n, NEW r, NEW a, ShReads(line, n, r, a)
  PROVE  /\ ShInParts(line, n, r, a) /\ n \in 1..Len(line) /\ Len(r) \in Nat /\ Len(a) \in {0, 1}
         /\ r # <<>> => Len(r) >= 1 /\ r[Len(r)] \notin ShOps
         /\ line[Len(line)] = "&" <=> Len(a) = 1
<1>1. /\ n \in 1..Len(line) /\ r \in Redirections(Range(line) \ ShOps) /\ a \in {<<>>, <<"&">>}
      /\ \A i \in 1..n : line[i] \notin ShOps
      /\ line = ShJoined(line, n, r, a)
  BY DEF ShReads, ShJoined
<1>2. r \in Seq(V)
  BY <1>1, LineNames, RedirectionSeq
<1>3. a \in Seq(V)
  <2>1. "&" \in V
    BY DEF ShOps
  <2>2. <<>> \in Seq(V) /\ <<"&">> \in Seq(V)
    BY <2>1
  <2> QED BY <2>2, <1>1
<1>4. ShInParts(line, n, r, a)
  BY <1>1, <1>2, <1>3, LineOfParts
<1>5. Len(a) \in {0, 1} /\ (Len(a) = 1 => a[1] = "&")
  BY <1>1
<1>6. r # <<>> => Len(r) >= 1 /\ r[Len(r)] \notin ShOps
  <2>1. \/ r = <<>>
        \/ \E op \in {"<", ">"}, f \in Range(line) \ ShOps : r = <<op, f>>
        \/ \E op, oq \in {"<", ">"}, f, g \in Range(line) \ ShOps : op # oq /\ r = <<op, f, oq, g>>
    BY <1>1, RedirectionShapes
  <2>2. ASSUME NEW op, NEW f \in Range(line) \ ShOps, r = <<op, f>> PROVE Len(r) >= 1 /\ r[Len(r)] \notin ShOps
    <3>1. Len(r) = 2 /\ r[2] = f
      BY <2>2
    <3> QED BY <3>1
  <2>3. ASSUME NEW op, NEW f, NEW oq, NEW g \in Range(line) \ ShOps, r = <<op, f, oq, g>>
        PROVE  Len(r) >= 1 /\ r[Len(r)] \notin ShOps
    <3>1. Len(r) = 4 /\ r[4] = g
      BY <2>3
    <3> QED BY <3>1
  <2> QED BY <2>1, <2>2, <2>3
<1>7. /\ Len(line) = n + Len(r) + Len(a)
      /\ \A i \in 1..Len(r) : line[n + i] = r[i]
      /\ \A i \in 1..Len(a) : line[n + Len(r) + i] = a[i]
  BY <1>4 DEF ShInParts
<1>8. Len(r) \in Nat
  BY <1>2
<1>9. CASE Len(a) = 1
  <2>1. line[n + Len(r) + 1] = a[1]
    BY <1>7, <1>9
  <2> QED BY <2>1, <1>1, <1>4, <1>5, <1>6, <1>7, <1>8, <1>9
<1>10. CASE Len(a) = 0
  <2>1. "&" \in ShOps
    BY DEF ShOps
  <2>2. CASE r = <<>>
    <3>1. Len(r) = 0
      BY <2>2
    <3>2. Len(line) = n
      BY <3>1, <1>1, <1>7, <1>10
    <3>3. line[Len(line)] # "&"
      BY <3>2, <2>1, <1>1
    <3> QED BY <3>3, <1>1, <1>4, <1>6, <1>8, <1>10
  <2>3. CASE r # <<>>
    <3>1. Len(r) \in 1..Len(r) /\ n + Len(r) = Len(line)
      BY <2>3, <1>1, <1>6, <1>7, <1>8, <1>10
    <3>2. line[n + Len(r)] = r[Len(r)]
      BY <3>1, <1>7
    <3>3. line[Len(line)] # "&"
      BY <3>1, <3>2, <2>1, <2>3, <1>6
    <3> QED BY <3>3, <1>1, <1>4, <1>6, <1>8, <1>10
  <2> QED BY <2>2, <2>3
<1> QED BY <1>5, <1>9, <1>10

(* And what has a reading is no error.                                     *)
LEMMA ReadIsNoError ==
  ASSUME NEW V, NEW line \in Seq(V), ShOps \subseteq V, NEW n, NEW r, NEW a, ShReads(line, n, r, a)
  PROVE  ~Parsed(line).err
<1>1. /\ n \in 1..Len(line) /\ r \in Redirections(Range(line) \ ShOps) /\ a \in {<<>>, <<"&">>}
      /\ \A i \in 1..n : line[i] \notin ShOps
  BY DEF ShReads
<1>2. /\ Len(line) = n + Len(r) + Len(a)
      /\ \A i \in 1..Len(r) : line[n + i] = r[i]
  BY ReadEnd DEF ShInParts
<1>3. Len(r) \in Nat /\ Len(a) \in {0, 1} /\ (line[Len(line)] = "&" <=> Len(a) = 1)
  BY ReadEnd
<1>4. line # <<>>
  BY <1>1
<1>5. PICK k \in Int, b \in BOOLEAN :
        k = n + Len(r) /\ StripAmper(Lexed(line)) = ParsedTo(line, k, b, {})
  <2>1. CASE Len(a) = 1
    <3>1. Len(line) - 1 = n + Len(r)
      BY <2>1, <1>1, <1>2, <1>3
    <3>2. StripAmper(Lexed(line)) = ParsedTo(line, Len(line) - 1, TRUE, {})
      BY <2>1, <1>3, <1>4, AmperIsStripped
    <3>3. PICK b \in BOOLEAN : b = TRUE
      OBVIOUS
    <3>4. StripAmper(Lexed(line)) = ParsedTo(line, n + Len(r), b, {})
      BY <3>1, <3>2, <3>3
    <3>5. n + Len(r) \in Int
      BY <1>1, <1>3
    <3> QED BY <3>4, <3>5
  <2>2. CASE Len(a) = 0
    <3>1. Len(line) = n + Len(r)
      BY <2>2, <1>1, <1>2, <1>3
    <3>2. StripAmper(Lexed(line)) = ParsedTo(line, Len(line), FALSE, {})
      <4>1. line[Len(line)] # "&"
        BY <2>2, <1>3
      <4> QED BY <4>1, <1>4, AmperIsStripped
    <3>3. PICK b \in BOOLEAN : b = FALSE
      OBVIOUS
    <3>4. StripAmper(Lexed(line)) = ParsedTo(line, n + Len(r), b, {})
      BY <3>1, <3>2, <3>3
    <3>5. n + Len(r) \in Int
      BY <1>1, <1>3
    <3> QED BY <3>4, <3>5
  <2> QED BY <2>1, <2>2, <1>3
<1>6. Parsed(line) = OnlyOthers(Redirects(Redirects(ParsedTo(line, k, b, {}))))
  BY <1>5 DEF Parsed
<1>7. k \in 0..Len(line)
  BY <1>1, <1>2, <1>3, <1>5
<1>8. \/ r = <<>>
      \/ \E op \in {"<", ">"}, f \in Range(line) \ ShOps : r = <<op, f>>
      \/ \E op, oq \in {"<", ">"}, f, g \in Range(line) \ ShOps : op # oq /\ r = <<op, f, oq, g>>
  BY <1>1, RedirectionShapes
<1>9. CASE r = <<>>
  <2>1. Len(r) = 0
    BY <1>9
  <2>2. k = n
    BY <2>1, <1>1, <1>5
  <2>3. Redirects(ParsedTo(line, n, b, {})) = ParsedTo(line, n, b, {}) /\ ~OnlyOthers(ParsedTo(line, n, b, {})).err
    BY <1>1, TwiceNothing
  <2> QED BY <2>2, <2>3, <1>6
<1>10. ASSUME NEW op \in {"<", ">"}, NEW f \in Range(line) \ ShOps, r = <<op, f>>
       PROVE  ~Parsed(line).err
  <2>1. Len(r) = 2 /\ r[1] = op /\ r[2] = f
    BY <1>10
  <2>2. k - 2 = n /\ k >= 3 /\ k - 1 = n + 1 /\ k = n + 2
    BY <2>1, <1>1, <1>5
  <2>3. line[k - 1] = op /\ line[k] = f
    <3>0. Len(r) = 2
      BY <2>1
    <3>a. 1 \in 1..Len(r) /\ 2 \in 1..Len(r)
      BY ONLY <3>0
    <3>1. line[n + 1] = r[1] /\ line[n + 2] = r[2]
      BY <3>a, <1>2
    <3> QED BY <3>1, <2>1, <2>2
  <2>4. (\A h \in {} : h[1] # line[k - 1]) /\ line[k] \notin ShOps /\ line[k - 1] \in {"<", ">"}
    BY <2>3
  <2>5. PICK files : files = {} \cup {<<line[k - 1], line[k]>>}
    OBVIOUS
  <2>6. Redirects(ParsedTo(line, k, b, {})) = ParsedTo(line, n, b, files)
    <3>1. k >= 3
      BY <2>2, <1>5
    <3>2. Redirects(ParsedTo(line, k, b, {})) = ParsedTo(line, k - 2, b, {} \cup {<<line[k - 1], line[k]>>})
      BY <3>1, <2>4, <1>7, NextRedirection
    <3> QED BY <3>2, <2>2, <2>5
  <2>7. Redirects(ParsedTo(line, n, b, files)) = ParsedTo(line, n, b, files) /\ ~OnlyOthers(ParsedTo(line, n, b, files)).err
    BY <1>1, TwiceNothing
  <2> QED BY <2>6, <2>7, <1>6
<1>11. ASSUME NEW op \in {"<", ">"}, NEW oq \in {"<", ">"},
              NEW f \in Range(line) \ ShOps, NEW g \in Range(line) \ ShOps, op # oq, r = <<op, f, oq, g>>
       PROVE  ~Parsed(line).err
  <2>1. Len(r) = 4 /\ r[1] = op /\ r[2] = f /\ r[3] = oq /\ r[4] = g
    BY <1>11
  <2>2. k >= 5 /\ k - 1 = n + 3 /\ k = n + 4 /\ k - 2 = n + 2 /\ k - 2 - 1 = n + 1 /\ k - 2 - 2 = n /\ k - 2 \in 0..Len(line)
    BY <2>1, <1>1, <1>5, <1>7
  <2>3. line[k - 1] = oq /\ line[k] = g /\ line[k - 2 - 1] = op /\ line[k - 2] = f
    <3>0. Len(r) = 4
      BY <2>1
    <3>a. 1 \in 1..Len(r) /\ 2 \in 1..Len(r) /\ 3 \in 1..Len(r) /\ 4 \in 1..Len(r)
      BY ONLY <3>0
    <3>1. line[n + 1] = r[1] /\ line[n + 2] = r[2] /\ line[n + 3] = r[3] /\ line[n + 4] = r[4]
      BY <3>a, <1>2
    <3> QED BY <3>1, <2>1, <2>2
  <2>4. (\A h \in {} : h[1] # line[k - 1]) /\ line[k] \notin ShOps /\ line[k - 1] \in {"<", ">"}
    BY <2>3
  <2>5. PICK files : files = {} \cup {<<line[k - 1], line[k]>>}
    OBVIOUS
  <2>6. Redirects(ParsedTo(line, k, b, {})) = ParsedTo(line, k - 2, b, files)
    <3>1. k >= 3
      BY <2>2, <1>5
    <3>2. Redirects(ParsedTo(line, k, b, {})) = ParsedTo(line, k - 2, b, {} \cup {<<line[k - 1], line[k]>>})
      BY <3>1, <2>4, <1>7, NextRedirection
    <3> QED BY <3>2, <2>2, <2>5
  <2>7. \A h \in files : h[1] = oq
    BY <2>3, <2>5
  <2>8. /\ \A h \in files : h[1] # line[k - 2 - 1]
        /\ line[k - 2] \notin ShOps /\ line[k - 2 - 1] \in {"<", ">"} /\ k - 2 >= 3
    <3>1. k - 2 >= 3
      BY <2>2, <1>5
    <3>2. \A h \in files : h[1] # op
      BY <2>7, <1>11
    <3> QED BY <3>1, <3>2, <2>3
  <2>9. PICK all : all = files \cup {<<line[k - 2 - 1], line[k - 2]>>}
    OBVIOUS
  <2>10. Redirects(ParsedTo(line, k - 2, b, files)) = ParsedTo(line, n, b, all)
    <3>1. PICK m \in 0..Len(line) : m = k - 2
      BY <2>2
    <3>2. /\ m >= 3 /\ line[m - 1] \in {"<", ">"}
          /\ line[m] \notin ShOps /\ \A h \in files : h[1] # line[m - 1]
      BY <3>1, <2>8
    <3>3. Redirects(ParsedTo(line, m, b, files)) = ParsedTo(line, m - 2, b, files \cup {<<line[m - 1], line[m]>>})
      BY <3>2, NextRedirection
    <3> QED BY <3>1, <3>3, <2>2, <2>9
  <2>11. ~OnlyOthers(ParsedTo(line, n, b, all)).err
    BY <1>1, TwiceNothing
  <2> QED BY <2>6, <2>10, <2>11, <1>6
<1> QED BY <1>8, <1>9, <1>10, <1>11

LEMMA ParsedIsRead ==
  ASSUME NEW V, NEW line \in Seq(V), ShOps \subseteq V, line # <<>>
  PROVE  /\ Parsed(line).err <=> Readings(line) = {}
         /\ ~Parsed(line).err =>
              \E d \in Readings(line) : ShFound(line, Parsed(line), d.n, d.redirection, d.amper)
<1>1. ASSUME ~Parsed(line).err
      PROVE  \E d \in Readings(line) : ShFound(line, Parsed(line), d.n, d.redirection, d.amper)
  <2>1. PICK n, r, a : ShReads(line, n, r, a) /\ ShFound(line, Parsed(line), n, r, a)
    BY <1>1, NoErrorIsRead
  <2>2. PICK d \in Readings(line) : d.n = n /\ d.redirection = r /\ d.amper = a
    BY <2>1, ReadIsReading
  <2> QED BY <2>1, <2>2
<1>2. ASSUME NEW d \in Readings(line) PROVE ~Parsed(line).err
  BY ReadingIsRead, ReadIsNoError
<1> QED BY <1>1, <1>2

(***************************************************************************)
(* The shell and its commands.  The child is suspended until the shell has *)
(* emptied its own mailbox; from then on a message of the child's id is    *)
(* the child's, and while the shell waits it is the foreground command.    *)
(***************************************************************************)
ShFilesTyped(p) == {f[1] : f \in p.files}
ShTypes(lines) ==
  /\ shpc \in {"prompt", "closed", "create", "recvclr", "resume", "receive"}
  /\ shline \in lines \cup {<<>>}
  /\ shstate \in [ShPid -> {"free", "susp", "ready", "dying"}]
  /\ shnext \in ShPid
ShAtRest == shpc \in {"prompt", "create"} => shfg = ShNone \/ (shfg \in ShPid /\ shstate[shfg] # "ready")
ShAtCreate ==
  shpc = "create" => shline # <<>> /\ ~Parsed(shline).err /\ shopened = ShFilesTyped(Parsed(shline))
ShStarting ==
  shpc \in {"recvclr", "resume"} =>
    /\ shchild \in ShPid /\ shstate[shchild] = "susp" /\ shfg = ShNone
    /\ shline # <<>> /\ ~Parsed(shline).err
    /\ shargs = [toks |-> Parsed(shline).toks, tlen |-> Parsed(shline).tlen, files |-> Parsed(shline).files]
ShMail == shpc = "resume" => shmsg # shchild
ShWaiting ==
  shpc = "receive" => shchild \in ShPid /\ shfg = shchild /\ (shmsg = shchild => shstate[shchild] # "ready")
ShInv(lines) == ShTypes(lines) /\ ShAtRest /\ ShAtCreate /\ ShStarting /\ ShMail /\ ShWaiting

LEMMA NewPidIsFree ==
  ASSUME FreePids # {}, shnext \in ShPid
  PROVE  newpid \in FreePids
<1> DEFINE dist(p) == (p - shnext + ShPids) % ShPids
<1>1. ASSUME NEW p \in FreePids PROVE dist(p) \in Nat
  <2>1. ShPids \in Nat \ {0} /\ p \in Int /\ shnext \in Int
    BY ShellAssumption DEF FreePids, ShPid
  <2> QED BY <2>1
<1>2. PICK T : T = {dist(p) : p \in FreePids}
  OBVIOUS
<1>3. T \subseteq Nat /\ T # {}
  BY <1>1, <1>2
<1>4. PICK n \in T : \A m \in T : n <= m
  BY <1>3, Smallest
<1>5. PICK p \in FreePids : dist(p) = n
  BY <1>2, <1>4
<1>6. \A q \in FreePids : dist(p) <= dist(q)
  BY <1>2, <1>4, <1>5
<1> HIDE DEF dist
<1>7. (CHOOSE q \in FreePids : \A r \in FreePids : dist(q) <= dist(r)) \in FreePids
  BY <1>6
<1> QED BY <1>7 DEF newpid, dist

LEMMA ShInitInv ==
  ASSUME NEW lines, ShInit
  PROVE  ShInv(lines)
<1>1. 1 \in ShPid
  BY ShellAssumption DEF ShPid
<1> QED BY <1>1 DEF ShInit, ShInv, ShTypes, ShAtRest, ShAtCreate, ShStarting, ShMail, ShWaiting, ShNone

LEMMA CommandEndsInv ==
  ASSUME NEW lines, ShInv(lines), NEW p \in ShPid, CommandEnds(p)
  PROVE  ShInv(lines)'
<1>1. /\ shstate[p] = "ready" /\ shmsg' = (IF shmsg = ShNone THEN p ELSE shmsg)
      /\ shstate' = [shstate EXCEPT ![p] = "dying"]
      /\ UNCHANGED <<shpc, shline, shopened, shchild, shnext, shfg, shargs>>
  BY DEF CommandEnds, ShSend
<1>2. ShTypes(lines) /\ ShAtRest /\ ShAtCreate /\ ShStarting /\ ShMail /\ ShWaiting
  BY DEF ShInv
<1>3. ShTypes(lines)'
  BY <1>1, <1>2 DEF ShTypes
<1>4. \A q \in ShPid : shstate'[q] = IF q = p THEN "dying" ELSE shstate[q]
  BY <1>1, <1>2 DEF ShTypes
<1>5. ShAtRest' /\ ShAtCreate'
  BY <1>1, <1>2, <1>4 DEF ShAtRest, ShAtCreate
<1>6. ShStarting'
  BY <1>1, <1>2, <1>4 DEF ShStarting
<1>7. ShMail'
  BY <1>1, <1>2 DEF ShMail, ShStarting
<1>8. ShWaiting'
  BY <1>1, <1>2, <1>4 DEF ShWaiting, ShPid
<1> QED BY <1>3, <1>5, <1>6, <1>7, <1>8 DEF ShInv

LEMMA KillEndsInv ==
  ASSUME NEW lines, ShInv(lines), NEW p \in ShPid, KillEnds(p)
  PROVE  ShInv(lines)'
<1>1. /\ shstate[p] = "dying" /\ shstate' = [shstate EXCEPT ![p] = "free"]
      /\ UNCHANGED <<shpc, shline, shopened, shchild, shmsg, shnext, shfg, shargs>>
  BY DEF KillEnds
<1>2. ShTypes(lines) /\ ShAtRest /\ ShAtCreate /\ ShStarting /\ ShMail /\ ShWaiting
  BY DEF ShInv
<1>3. ShTypes(lines)'
  BY <1>1, <1>2 DEF ShTypes
<1>4. \A q \in ShPid : shstate'[q] = IF q = p THEN "free" ELSE shstate[q]
  BY <1>1, <1>2 DEF ShTypes
<1>5. ShAtRest' /\ ShAtCreate' /\ ShMail'
  BY <1>1, <1>2, <1>4 DEF ShAtRest, ShAtCreate, ShMail
<1>6. ShStarting' /\ ShWaiting'
  BY <1>1, <1>2, <1>4 DEF ShStarting, ShWaiting
<1> QED BY <1>3, <1>5, <1>6 DEF ShInv

LEMMA ShellReadsInv ==
  ASSUME NEW lines, <<>> \notin lines, ShInv(lines), ShellReads(lines)
  PROVE  ShInv(lines)'
<1>1. PICK line \in lines :
        LET p == Parsed(line)
        IN /\ shline' = line /\ UNCHANGED <<shchild, shnext, shargs>>
           /\ IF p.err \/ p.toks[1] \notin ShCommand
              THEN shpc' = "prompt" /\ UNCHANGED <<shopened, shstate, shmsg, shfg>>
              ELSE IF p.toks[1] \in ShBuiltin THEN Builtin(p) ELSE Opens(p)
  BY DEF ShellReads
<1>2. shpc = "prompt" /\ ShTypes(lines) /\ ShAtRest
  BY DEF ShInv, ShellReads
<1>3. PICK p : p = Parsed(line)
  OBVIOUS
<1>4. shline' \in lines /\ shline' # <<>> /\ shline' = line
  BY <1>1
<1>5. ASSUME shpc' \in {"prompt", "closed"}, shfg' = shfg, shnext' = shnext,
             shstate' \in [ShPid -> {"free", "susp", "ready", "dying"}],
             \A q \in ShPid : shstate'[q] = "ready" => shstate[q] = "ready"
      PROVE  ShInv(lines)'
  BY <1>2, <1>4, <1>5 DEF ShInv, ShTypes, ShAtRest, ShAtCreate, ShStarting, ShMail, ShWaiting
<1>6. CASE p.err \/ p.toks[1] \notin ShCommand
  <2>1. shpc' = "prompt" /\ UNCHANGED <<shopened, shstate, shmsg, shfg>> /\ shnext' = shnext
    BY <1>1, <1>3, <1>6
  <2> QED BY <2>1, <1>2, <1>5 DEF ShTypes
<1>7. CASE ~p.err /\ Builtin(p)
  <2>1. shnext' = shnext /\ shfg' = shfg /\ shpc' \in {"prompt", "closed"}
    BY <1>1, <1>7 DEF Builtin
  <2>2. CASE UNCHANGED shstate
    BY <2>1, <2>2, <1>2, <1>5 DEF ShTypes
  <2>3. ASSUME NEW q \in ShPid, shstate' = [shstate EXCEPT ![q] = "free"] PROVE ShInv(lines)'
    <3>1. /\ shstate' \in [ShPid -> {"free", "susp", "ready", "dying"}]
          /\ \A r \in ShPid : shstate'[r] = "ready" => shstate[r] = "ready"
      BY <2>3, <1>2 DEF ShTypes
    <3> QED BY <3>1, <2>1, <1>5
  <2>4. UNCHANGED shstate \/ \E q \in ShPid : shstate' = [shstate EXCEPT ![q] = "free"]
    <3>1. UNCHANGED shstate \/ xsh_kill(p.toks)
      BY <1>7 DEF Builtin
    <3>2. xsh_kill(p.toks) => UNCHANGED shstate \/ \E q \in ShPid : shstate' = [shstate EXCEPT ![q] = "free"]
      BY DEF xsh_kill
    <3> QED BY <3>1, <3>2
  <2> QED BY <2>2, <2>3, <2>4
<1>8. CASE ~p.err /\ Opens(p)
  <2>1. /\ UNCHANGED <<shstate, shmsg, shfg>> /\ shnext' = shnext
        /\ \/ shpc' = "prompt"
           \/ shpc' = "create" /\ shopened' = ShFilesTyped(p)
    BY <1>1, <1>8 DEF Opens, ShFilesTyped
  <2>2. CASE shpc' = "prompt"
    BY <2>1, <2>2, <1>2, <1>5 DEF ShTypes
  <2>3. CASE shpc' = "create" /\ shopened' = ShFilesTyped(p)
    <3>1. ShTypes(lines)' /\ ShAtRest'
      BY <2>1, <2>3, <1>2, <1>4 DEF ShTypes, ShAtRest
    <3>2. ShAtCreate'
      BY <2>3, <1>3, <1>4, <1>8 DEF ShAtCreate
    <3> QED BY <3>1, <3>2, <2>3 DEF ShInv, ShStarting, ShMail, ShWaiting
  <2> QED BY <2>1, <2>2, <2>3
<1> QED BY <1>1, <1>3, <1>6, <1>7, <1>8

LEMMA ShellCreatesInv ==
  ASSUME NEW lines, ShInv(lines), ShellCreates
  PROVE  ShInv(lines)'
<1>1. shpc = "create" /\ ShTypes(lines) /\ ShAtRest /\ ShAtCreate
  BY DEF ShInv, ShellCreates
<1>2. PICK p : p = Parsed(shline)
  OBVIOUS
<1>3. CASE FreePids = {}
  <2>1. /\ shpc' = "prompt"
        /\ UNCHANGED <<shline, shmsg, shopened, shchild, shstate, shnext, shfg, shargs>>
    BY <1>3 DEF ShellCreates
  <2> QED BY <2>1, <1>1 DEF ShInv, ShTypes, ShAtRest, ShAtCreate, ShStarting, ShMail, ShWaiting
<1>4. CASE FreePids # {}
  <2>1. /\ shchild' = newpid /\ UNCHANGED <<shline, shmsg>>
        /\ shstate' = [shstate EXCEPT ![newpid] = "susp"]
        /\ shnext' = (newpid % ShPids) + 1
    BY <1>4 DEF ShellCreates
  <2>2. PICK c : c = newpid
    OBVIOUS
  <2>3. c \in ShPid
    <3>1. newpid \in FreePids
      BY <1>1, <1>4, NewPidIsFree DEF ShTypes
    <3> QED BY <3>1, <2>2 DEF FreePids
  <2>4. (c % ShPids) + 1 \in ShPid
    <3>1. c \in Int /\ ShPids \in Nat /\ ShPids > 0
      BY <2>3, ShellAssumption DEF ShPid
    <3>2. c % ShPids \in 0..(ShPids - 1)
      BY <3>1
    <3> QED BY <3>1, <3>2 DEF ShPid
  <2>5. /\ shstate' \in [ShPid -> {"free", "susp", "ready", "dying"}] /\ shnext' \in ShPid
        /\ shline' \in lines \cup {<<>>}
        /\ \A q \in ShPid : shstate'[q] = IF q = c THEN "susp" ELSE shstate[q]
    BY <2>1, <2>2, <2>3, <2>4, <1>1 DEF ShTypes
  <2>6. CASE addargs(Len(p.toks), p.tlen)
    <3>1. /\ shpc' = "recvclr" /\ shopened' = {} /\ shfg' = ShNone
          /\ shargs' = [toks |-> p.toks, tlen |-> p.tlen, files |-> {f \in p.files : f[1] \in shopened}]
      BY <1>2, <1>4, <2>6 DEF ShellCreates
    <3>2. ShTypes(lines)' /\ shstate'[c] = "susp"
      BY <2>3, <2>5, <3>1 DEF ShTypes
    <3>3. {f \in p.files : f[1] \in shopened} = p.files
      BY <1>1, <1>2 DEF ShAtCreate, ShFilesTyped
    <3>4. ShStarting'
      BY <2>1, <2>2, <2>3, <3>1, <3>2, <3>3, <1>1, <1>2 DEF ShStarting, ShAtCreate
    <3> QED BY <3>1, <3>2, <3>4 DEF ShInv, ShAtRest, ShAtCreate, ShMail, ShWaiting
  <2>7. CASE ~addargs(Len(p.toks), p.tlen)
    <3>1. shpc' = "prompt" /\ UNCHANGED <<shopened, shfg, shargs>>
      BY <1>2, <1>4, <2>7 DEF ShellCreates
    <3>2. ShTypes(lines)'
      BY <2>5, <3>1 DEF ShTypes
    <3>3. ShAtRest'
      BY <1>1, <2>5, <3>1 DEF ShAtRest
    <3> QED BY <3>1, <3>2, <3>3 DEF ShInv, ShAtCreate, ShStarting, ShMail, ShWaiting
  <2> QED BY <2>6, <2>7
<1> QED BY <1>3, <1>4

LEMMA recvclrInv ==
  ASSUME NEW lines, ShInv(lines), recvclr
  PROVE  ShInv(lines)'
<1>1. /\ shpc = "recvclr" /\ shpc' = "resume" /\ shmsg' = ShNone
      /\ UNCHANGED <<shline, shopened, shchild, shstate, shnext, shfg, shargs>>
  BY DEF recvclr
<1>2. ShTypes(lines)' /\ ShStarting'
  BY <1>1 DEF ShInv, ShTypes, ShStarting
<1>3. shchild \in ShPid
  BY <1>1 DEF ShInv, ShStarting
<1>4. ShMail'
  BY <1>1, <1>3 DEF ShMail, ShPid, ShNone
<1> QED BY <1>1, <1>2, <1>4 DEF ShInv, ShAtRest, ShAtCreate, ShWaiting

LEMMA ShellResumesInv ==
  ASSUME NEW lines, ShInv(lines), ShellResumes
  PROVE  ShInv(lines)'
<1>1. /\ shpc = "resume" /\ shstate' = [shstate EXCEPT ![shchild] = "ready"]
      /\ UNCHANGED <<shline, shopened, shchild, shmsg, shnext, shargs>>
      /\ \/ shpc' = "receive" /\ shfg' = shchild
         \/ shpc' = "prompt" /\ shfg' = shfg
  BY DEF ShellResumes
<1>2. ShTypes(lines) /\ shchild \in ShPid /\ shmsg # shchild /\ shfg = ShNone
  BY <1>1 DEF ShInv, ShStarting, ShMail
<1>3. ShTypes(lines)'
  BY <1>1, <1>2 DEF ShTypes
<1>4. CASE shpc' = "receive" /\ shfg' = shchild
  BY <1>1, <1>2, <1>3, <1>4 DEF ShInv, ShAtRest, ShAtCreate, ShStarting, ShMail, ShWaiting
<1>5. CASE shpc' = "prompt" /\ shfg' = shfg
  BY <1>1, <1>2, <1>3, <1>5 DEF ShInv, ShAtRest, ShAtCreate, ShStarting, ShMail, ShWaiting
<1> QED BY <1>1, <1>4, <1>5

LEMMA ShellReceivesInv ==
  ASSUME NEW lines, ShInv(lines), ShellReceives
  PROVE  ShInv(lines)'
<1>1. /\ shpc = "receive" /\ shmsg # ShNone /\ shmsg' = ShNone
      /\ shpc' = IF shmsg = shchild THEN "prompt" ELSE "receive"
      /\ UNCHANGED <<shline, shopened, shchild, shstate, shnext, shfg, shargs>>
  BY DEF ShellReceives
<1>2. /\ ShTypes(lines) /\ shchild \in ShPid /\ shfg = shchild
      /\ shmsg = shchild => shstate[shchild] # "ready"
  BY <1>1 DEF ShInv, ShWaiting
<1>3. ShTypes(lines)'
  BY <1>1, <1>2 DEF ShTypes
<1>4. shmsg' # shchild'
  BY <1>1, <1>2 DEF ShPid, ShNone
<1>5. ShAtRest'
  BY <1>1, <1>2 DEF ShAtRest
<1>6. ShWaiting'
  BY <1>1, <1>2, <1>4 DEF ShWaiting
<1> QED BY <1>1, <1>3, <1>5, <1>6 DEF ShInv, ShAtCreate, ShStarting, ShMail

LEMMA ShNextInv ==
  ASSUME NEW lines, <<>> \notin lines, ShInv(lines), ShellNext(lines)
  PROVE  ShInv(lines)'
<1>1. CASE ShellReads(lines) BY <1>1, ShellReadsInv
<1>2. CASE ShellCreates BY <1>2, ShellCreatesInv
<1>3. CASE recvclr BY <1>3, recvclrInv
<1>4. CASE ShellResumes BY <1>4, ShellResumesInv
<1>5. CASE ShellReceives BY <1>5, ShellReceivesInv
<1>6. ASSUME NEW p \in ShPid, CommandEnds(p) PROVE ShInv(lines)'
  BY <1>6, CommandEndsInv
<1>7. ASSUME NEW p \in ShPid, KillEnds(p) PROVE ShInv(lines)'
  BY <1>7, KillEndsInv
<1> QED BY <1>1, <1>2, <1>3, <1>4, <1>5, <1>6, <1>7 DEF ShellNext

LEMMA ShInvIsSound ==
  ASSUME NEW Tok, NEW lines \in SUBSET (Seq(Tok) \ {<<>>}), ShInv(lines)
  PROVE  ShellSound
<1>1. ShTypes(lines) /\ ShAtRest /\ ShStarting
  BY DEF ShInv
<1>2. ShellWaitsForChild
  BY <1>1 DEF ShellWaitsForChild, ShAtRest
<1>3. PICK V : V = Tok \cup ShOps
  OBVIOUS
<1>4. ASSUME shline # <<>>
      PROVE  /\ Parsed(shline).err <=> Readings(shline) = {}
             /\ ~Parsed(shline).err =>
                  \E d \in Readings(shline) : ShFound(shline, Parsed(shline), d.n, d.redirection, d.amper)
  <2>1. shline \in Seq(Tok)
    BY <1>1, <1>4 DEF ShTypes
  <2>2. shline \in Seq(V) /\ ShOps \subseteq V
    BY <2>1, <1>3, SeqMonotonic
  <2> QED BY <2>2, <1>4, ParsedIsRead
<1>5. ASSUME shpc \in {"recvclr", "resume"}
      PROVE  \E d \in Readings(shline) :
               /\ shargs = [toks |-> SubSeq(shline, 1, d.n), tlen |-> 2 * d.n, files |-> FilesOf(d.redirection)]
               /\ Parsed(shline).backgnd <=> d.amper # <<>>
  <2>1. /\ shline # <<>> /\ ~Parsed(shline).err
        /\ shargs = [toks |-> Parsed(shline).toks, tlen |-> Parsed(shline).tlen, files |-> Parsed(shline).files]
    BY <1>1, <1>5 DEF ShStarting
  <2>2. PICK d \in Readings(shline) : ShFound(shline, Parsed(shline), d.n, d.redirection, d.amper)
    BY <2>1, <1>4
  <2>3. /\ Parsed(shline).toks = SubSeq(shline, 1, d.n) /\ Parsed(shline).tlen = 2 * d.n
        /\ Parsed(shline).files = FilesOf(d.redirection)
        /\ Parsed(shline).backgnd <=> d.amper # <<>>
    BY <2>2 DEF ShFound
  <2>4. shargs = [toks |-> SubSeq(shline, 1, d.n), tlen |-> 2 * d.n, files |-> FilesOf(d.redirection)]
    BY <2>1, <2>3
  <2> QED BY <2>3, <2>4
<1>6. ShellRunsWhatWasTyped
  BY <1>4, <1>5 DEF ShellRunsWhatWasTyped
<1> QED BY <1>2, <1>6 DEF ShellSound

(* For any number of processes, any commands and any lines, however many   *)
(* tokens they have: the shell does not prompt while the foreground        *)
(* command runs, it runs exactly what was typed, and a line is refused if  *)
(* and only if the syntax of shell() has no reading for it.                *)
THEOREM ShellSoundAlways ==
  ASSUME NEW Tok, NEW lines \in SUBSET (Seq(Tok) \ {<<>>})
  PROVE  ShSpec(lines) => []ShellSound
<1>1. <<>> \notin lines
  OBVIOUS
<1>2. ShInit => ShInv(lines)
  BY ShInitInv
<1>3. ShInv(lines) /\ [ShellNext(lines)]_ShVars => ShInv(lines)'
  <2>1. CASE ShellNext(lines) /\ ShInv(lines)
    BY <2>1, <1>1, ShNextInv
  <2>2. CASE UNCHANGED ShVars /\ ShInv(lines)
    BY <2>2 DEF ShVars, ShInv, ShTypes, ShAtRest, ShAtCreate, ShStarting, ShMail, ShWaiting
  <2> QED BY <2>1, <2>2
<1>4. ShInv(lines) => ShellSound
  BY ShInvIsSound
<1> QED BY <1>2, <1>3, <1>4, PTL DEF ShSpec

-----------------------------------------------------------------------------
(***************************************************************************)
(* The name space.  naminit() mounts longer prefixes before the prefixes   *)
(* they continue; what it has in the table and what it has still to mount  *)
(* are in that order, so the first prefix that matches is the longest, and *)
(* because the empty prefix matches everything no later entry is reached.  *)
(***************************************************************************)
LEMMA PrefixByIndex ==
  ASSUME NEW S, NEW s \in Seq(S), NEW t \in Seq(S)
  PROVE  IsPrefix(s, t) <=> Len(s) <= Len(t) /\ \A k \in 1..Len(s) : s[k] = t[k]
<1>1. Len(s) \in Nat /\ Len(t) \in Nat
  OBVIOUS
<1>2. CASE Len(s) <= Len(t)
  <2>1. PICK u : u = SubSeq(t, 1, Len(s))
    OBVIOUS
  <2>2. u \in Seq(S) /\ Len(u) = Len(s) /\ \A k \in 1..Len(s) : u[k] = t[k]
    <3>1. \A k \in 1..Len(s) : t[k] \in S
      BY <1>1, <1>2, ElementOfSeq
    <3>2. /\ u \in Seq(S) /\ Len(u) = (IF 1 <= Len(s) THEN Len(s) - 1 + 1 ELSE 0)
          /\ \A k \in 1..(Len(s) - 1 + 1) : u[k] = t[1 + k - 1]
      BY <1>1, <2>1, <3>1, SubSeqProperties
    <3>3. Len(s) - 1 + 1 = Len(s) /\ \A k \in 1..Len(s) : 1 + k - 1 = k
      BY <1>1
    <3> QED BY <1>1, <3>2, <3>3
  <2>3. SubSeq(s, 1, Len(s)) = s
    BY SubSeqFull
  <2>4. IsPrefix(s, t) <=> s = u
    BY <1>2, <2>1, <2>3 DEF IsPrefix
  <2>5. s = u <=> \A k \in 1..Len(s) : s[k] = t[k]
    <3>1. ASSUME \A k \in 1..Len(s) : s[k] = t[k] PROVE s = u
      <4>1. \A k \in 1..Len(s) : s[k] = u[k]
        BY <2>2, <3>1
      <4> QED BY <2>2, <4>1, SeqEqual
    <3> QED BY <2>2, <3>1
  <2> QED BY <1>2, <2>4, <2>5
<1>3. CASE ~(Len(s) <= Len(t))
  BY <1>3 DEF IsPrefix
<1> QED BY <1>2, <1>3

(* Two beginnings of one name: the shorter one begins the longer one.      *)
LEMMA BeginningsAreNested ==
  ASSUME NEW S, NEW s \in Seq(S), NEW t \in Seq(S), NEW n \in Seq(S),
         IsPrefix(s, n), IsPrefix(t, n), Len(s) <= Len(t)
  PROVE  IsPrefix(s, t)
<1>1. \A k \in 1..Len(s) : s[k] = n[k]
  BY PrefixByIndex
<1>2. \A k \in 1..Len(t) : t[k] = n[k]
  BY PrefixByIndex
<1>3. \A k \in 1..Len(s) : k \in 1..Len(t)
  OBVIOUS
<1>4. \A k \in 1..Len(s) : s[k] = t[k]
  BY <1>1, <1>2, <1>3
<1> QED BY <1>4, PrefixByIndex

LEMMA LongerBeginning ==
  ASSUME NEW S, NEW d \in Seq(S), NEW x \in Seq(S), NEW t \in Seq(S), IsPrefix(d \o x, t)
  PROVE  IsPrefix(d, t)
<1>1. PICK u : u = d \o x
  OBVIOUS
<1>2. /\ u \in Seq(S) /\ Len(u) = Len(d) + Len(x)
      /\ \A k \in 1..(Len(d) + Len(x)) : u[k] = IF k <= Len(d) THEN d[k] ELSE x[k - Len(d)]
  BY <1>1, ConcatProperties
<1>3. Len(u) <= Len(t) /\ \A k \in 1..Len(u) : u[k] = t[k]
  <2>1. IsPrefix(u, t)
    BY <1>1
  <2> QED BY <2>1, <1>2, PrefixByIndex
<1>4. Len(d) \in Nat /\ Len(x) \in Nat
  OBVIOUS
<1>5. Len(d) <= Len(t)
  BY <1>2, <1>3, <1>4
<1>6. ASSUME NEW k \in 1..Len(d) PROVE d[k] = t[k]
  <2>1. k \in 1..(Len(d) + Len(x)) /\ k <= Len(d) /\ k \in 1..Len(u)
    BY <1>2, <1>4
  <2> QED BY <2>1, <1>2, <1>3
<1> QED BY <1>5, <1>6, PrefixByIndex

LEMMA SameBeginning ==
  ASSUME NEW S, NEW d \in Seq(S), NEW x \in Seq(S), NEW y \in Seq(S), IsPrefix(d \o x, d \o y)
  PROVE  IsPrefix(x, y)
<1>1. PICK u, v : u = d \o x /\ v = d \o y
  OBVIOUS
<1>2. /\ u \in Seq(S) /\ Len(u) = Len(d) + Len(x)
      /\ \A k \in 1..(Len(d) + Len(x)) : u[k] = IF k <= Len(d) THEN d[k] ELSE x[k - Len(d)]
  BY <1>1, ConcatProperties
<1>3. /\ v \in Seq(S) /\ Len(v) = Len(d) + Len(y)
      /\ \A k \in 1..(Len(d) + Len(y)) : v[k] = IF k <= Len(d) THEN d[k] ELSE y[k - Len(d)]
  BY <1>1, ConcatProperties
<1>4. Len(u) <= Len(v) /\ \A k \in 1..Len(u) : u[k] = v[k]
  <2>1. IsPrefix(u, v)
    BY <1>1
  <2>2. u \in Seq(S) /\ v \in Seq(S)
    BY ONLY <1>2, <1>3
  <2> QED BY ONLY <2>1, <2>2, PrefixByIndex
<1>5. Len(d) \in Nat /\ Len(x) \in Nat /\ Len(y) \in Nat
  OBVIOUS
<1>6. Len(x) <= Len(y)
  BY <1>2, <1>3, <1>4, <1>5
<1>7. ASSUME NEW k \in 1..Len(x) PROVE x[k] = y[k]
  <2>1. PICK m \in Int : m = Len(d) + k
    BY <1>5
  <2>2. /\ m \in 1..(Len(d) + Len(x)) /\ m \in 1..(Len(d) + Len(y)) /\ m \in 1..Len(u)
        /\ ~(m <= Len(d)) /\ m - Len(d) = k
    BY <2>1, <1>2, <1>5, <1>6
  <2>3. u[m] = x[m - Len(d)] /\ v[m] = y[m - Len(d)] /\ u[m] = v[m]
    BY <2>2, <1>2, <1>3, <1>4
  <2> QED BY <2>2, <2>3
<1> QED BY <1>6, <1>7, PrefixByIndex

(***************************************************************************)
(* What naminit() mounts.                                                  *)
(***************************************************************************)
NmReplacements == {<<>>, <<"remote:">>, <<"root:">>}
NmBootDevices == NmNumbers \cup NmRfs \cup {"LFILESYS", "NULLDEV", SysErr}
NmBootEntry == [nprefix : Seq(STRING), nreplace : NmReplacements, ndevice : NmBootDevices]
NmAfter(x, y) == IsPrefix(x.nprefix, y.nprefix) => Len(y.nprefix) <= Len(x.nprefix)
NmOrdered(s) == \A i, j \in 1..Len(s) : i < j => NmAfter(s[i], s[j])
NmLast == NmEntry(<<>>, <<>>, "LFILESYS")

LEMMA DirStrings ==
  /\ NmDir.dev \in Seq(STRING) /\ NmDir.null \in Seq(STRING) /\ NmDir.remote \in Seq(STRING)
  /\ NmDir.local \in Seq(STRING) /\ NmDir.home \in Seq(STRING) /\ NmDir.root \in Seq(STRING)
BY NmTypeAssumption

LEMMA DevicePrefixes ==
  /\ DevPrefixes \in Seq(NmBootEntry) /\ Len(DevPrefixes) = Len(NmDevs) /\ Len(NmDevs) \in Nat
  /\ \A i \in 1..Len(NmDevs) :
       DevPrefixes[i].nprefix = NmDir.dev \o NmDevs[i].name /\ NmDevs[i].name \in Seq(STRING)
<1>1. NmDevs \in Seq([name : Seq(STRING), num : STRING]) /\ DOMAIN NmDevs = 1..Len(NmDevs) /\ Len(NmDevs) \in Nat
  BY NmTypeAssumption
<1>2. ASSUME NEW i \in 1..Len(NmDevs)
      PROVE  NmDevs[i].name \in Seq(STRING) /\ NmDevs[i].num \in NmNumbers
  <2>1. NmDevs[i] \in [name : Seq(STRING), num : STRING]
    BY <1>1, ElementOfSeq
  <2> QED BY <2>1, <1>1 DEF NmNumbers
<1>3. ASSUME NEW i \in 1..Len(NmDevs)
      PROVE  NmEntry(NmDir.dev \o NmDevs[i].name, <<>>, NmDevs[i].num) \in NmBootEntry
  <2>1. NmDir.dev \o NmDevs[i].name \in Seq(STRING)
    BY <1>2, DirStrings, ConcatProperties
  <2>2. NmDevs[i].num \in NmBootDevices /\ <<>> \in NmReplacements
    BY <1>2 DEF NmBootDevices, NmReplacements
  <2> QED BY <2>1, <2>2 DEF NmEntry, NmBootEntry
<1>4. DevPrefixes = [i \in 1..Len(NmDevs) |-> NmEntry(NmDir.dev \o NmDevs[i].name, <<>>, NmDevs[i].num)]
  BY <1>1 DEF DevPrefixes
<1>5. DevPrefixes \in Seq(NmBootEntry)
  BY <1>1, <1>3, <1>4
<1>6. Len(DevPrefixes) = Len(NmDevs)
  BY <1>1, <1>4, <1>5
<1>7. \A i \in 1..Len(NmDevs) : DevPrefixes[i].nprefix = NmDir.dev \o NmDevs[i].name
  BY <1>4 DEF NmEntry
<1> QED BY <1>1, <1>2, <1>5, <1>6, <1>7

NmOtherPrefix(i) ==
  CASE i = 1 -> NmDir.null [] i = 2 -> NmDir.remote [] i = 3 -> NmDir.local [] i = 4 -> NmDir.dev
    [] i = 5 -> NmDir.home [] i = 6 -> NmDir.root [] i = 7 -> <<>>
LEMMA DirectoryPrefixes ==
  ASSUME NEW rfs \in NmRfs
  PROVE  /\ OtherPrefixes(rfs) \in Seq(NmBootEntry) /\ Len(OtherPrefixes(rfs)) = 7
         /\ \A i \in 1..7 : OtherPrefixes(rfs)[i].nprefix = NmOtherPrefix(i)
         /\ OtherPrefixes(rfs)[7] = NmLast
<1>1. <<>> \in Seq(STRING)
  OBVIOUS
<1>2. /\ <<>> \in NmReplacements /\ <<"remote:">> \in NmReplacements /\ <<"root:">> \in NmReplacements
      /\ rfs \in NmBootDevices /\ "LFILESYS" \in NmBootDevices /\ "NULLDEV" \in NmBootDevices
      /\ SysErr \in NmBootDevices
  BY DEF NmReplacements, NmBootDevices
<1>3. \A p \in Seq(STRING), r \in NmReplacements, d \in NmBootDevices :
        NmEntry(p, r, d) \in NmBootEntry /\ NmEntry(p, r, d).nprefix = p
  BY DEF NmEntry, NmBootEntry
<1>4. PICK a, b, c, d, e, f, g :
        /\ a = NmEntry(NmDir.null, <<>>, "NULLDEV") /\ b = NmEntry(NmDir.remote, <<"remote:">>, rfs)
        /\ c = NmEntry(NmDir.local, <<>>, "LFILESYS") /\ d = NmEntry(NmDir.dev, <<>>, SysErr)
        /\ e = NmEntry(NmDir.home, <<>>, "LFILESYS") /\ f = NmEntry(NmDir.root, <<"root:">>, rfs)
        /\ g = NmEntry(<<>>, <<>>, "LFILESYS")
  OBVIOUS
<1>5. a \in NmBootEntry /\ a.nprefix = NmDir.null
  BY <1>2, <1>3, <1>4, DirStrings
<1>6. b \in NmBootEntry /\ b.nprefix = NmDir.remote
  BY <1>2, <1>3, <1>4, DirStrings
<1>7. c \in NmBootEntry /\ c.nprefix = NmDir.local
  BY <1>2, <1>3, <1>4, DirStrings
<1>8. d \in NmBootEntry /\ d.nprefix = NmDir.dev
  BY <1>2, <1>3, <1>4, DirStrings
<1>9. e \in NmBootEntry /\ e.nprefix = NmDir.home
  BY <1>2, <1>3, <1>4, DirStrings
<1>10. f \in NmBootEntry /\ f.nprefix = NmDir.root
  BY <1>2, <1>3, <1>4, DirStrings
<1>11. g \in NmBootEntry /\ g.nprefix = <<>>
  BY <1>1, <1>2, <1>3, <1>4
<1>12. PICK q : q = <<a, b, c, d, e, f, g>>
  OBVIOUS
<1>13. OtherPrefixes(rfs) = q
  BY <1>4, <1>12 DEF OtherPrefixes
<1>14. q \in Seq(NmBootEntry)
  BY <1>5, <1>6, <1>7, <1>8, <1>9, <1>10, <1>11, <1>12
<1>15. Len(q) = 7 /\ q[1] = a /\ q[2] = b /\ q[3] = c /\ q[4] = d /\ q[5] = e /\ q[6] = f /\ q[7] = g
  BY <1>12
<1>16. ASSUME NEW i \in 1..7 PROVE q[i].nprefix = NmOtherPrefix(i)
  <2>1. i = 1 \/ i = 2 \/ i = 3 \/ i = 4 \/ i = 5 \/ i = 6 \/ i = 7
    OBVIOUS
  <2> QED BY <2>1, <1>5, <1>6, <1>7, <1>8, <1>9, <1>10, <1>11, <1>15 DEF NmOtherPrefix
<1> QED BY <1>4, <1>13, <1>14, <1>15, <1>16 DEF NmLast

LEMMA DirectoriesApart ==
  /\ \A b \in {"remote", "local", "dev", "home", "root"} : ~IsPrefix(NmDir.null, NmDir[b])
  /\ \A b \in {"local", "dev", "home", "root"} : ~IsPrefix(NmDir.remote, NmDir[b])
  /\ \A b \in {"dev", "home", "root"} : ~IsPrefix(NmDir.local, NmDir[b])
  /\ \A b \in {"remote", "local", "home", "root"} : ~IsPrefix(NmDir.dev, NmDir[b])
  /\ ~IsPrefix(NmDir.home, NmDir.root)
BY NmDirAssumption

LEMMA OtherStrings ==
  ASSUME NEW j \in 1..7
  PROVE  NmOtherPrefix(j) \in Seq(STRING) /\ Len(NmOtherPrefix(j)) \in Nat /\ (j = 7 => Len(NmOtherPrefix(j)) = 0)
<1>1. j = 1 \/ j = 2 \/ j = 3 \/ j = 4 \/ j = 5 \/ j = 6 \/ j = 7
  OBVIOUS
<1>2. <<>> \in Seq(STRING) /\ Len(<<>>) = 0
  OBVIOUS
<1>3. NmOtherPrefix(j) \in Seq(STRING) /\ (j = 7 => NmOtherPrefix(j) = <<>>)
  <2>1. NmOtherPrefix(j) \in {NmDir.null, NmDir.remote, NmDir.local, NmDir.dev, NmDir.home, NmDir.root, <<>>}
    BY <1>1 DEF NmOtherPrefix
  <2>2. j = 7 => NmOtherPrefix(j) = <<>>
    BY DEF NmOtherPrefix
  <2> QED BY <1>2, <2>1, <2>2, DirStrings
<1> QED BY <1>2, <1>3

LEMMA DirectoriesInOrder ==
  ASSUME NEW k \in 1..7, NEW j \in 1..7, k < j, IsPrefix(NmOtherPrefix(k), NmOtherPrefix(j))
  PROVE  Len(NmOtherPrefix(j)) <= Len(NmOtherPrefix(k))
<1>1. CASE j = 7
  BY <1>1, OtherStrings
<1>2. CASE j # 7
  <2>1. \/ k = 1 /\ j \in {2, 3, 4, 5, 6}
        \/ k = 2 /\ j \in {3, 4, 5, 6}
        \/ k = 3 /\ j \in {4, 5, 6}
        \/ k = 4 /\ j \in {5, 6}
        \/ k = 5 /\ j = 6
    BY <1>2
  <2>2. CASE k = 1 /\ j \in {2, 3, 4, 5, 6}
    BY <2>2, DirectoriesApart DEF NmOtherPrefix
  <2>3. CASE k = 2 /\ j \in {3, 4, 5, 6}
    BY <2>3, DirectoriesApart DEF NmOtherPrefix
  <2>4. CASE k = 3 /\ j \in {4, 5, 6}
    BY <2>4, DirectoriesApart DEF NmOtherPrefix
  <2>5. CASE k = 4 /\ j \in {5, 6}
    BY <2>5, DirectoriesApart DEF NmOtherPrefix
  <2>6. CASE k = 5 /\ j = 6
    BY <2>6, DirectoriesApart DEF NmOtherPrefix
  <2> QED BY <2>1, <2>2, <2>3, <2>4, <2>5, <2>6
<1> QED BY <1>1, <1>2

LEMMA DevicesInOrder ==
  ASSUME NEW k \in 1..Len(NmDevs), NEW j \in 1..7,
         IsPrefix(NmDir.dev \o NmDevs[k].name, NmOtherPrefix(j))
  PROVE  Len(NmOtherPrefix(j)) <= Len(NmDir.dev \o NmDevs[k].name)
<1>1. NmDevs[k].name \in Seq(STRING) /\ NmDir.dev \in Seq(STRING)
  BY DevicePrefixes, DirStrings
<1>2. PICK x \in Seq(STRING) : x = NmDevs[k].name
  BY <1>1
<1>3. /\ NmDir.dev \o x \in Seq(STRING) /\ Len(NmDir.dev \o x) = Len(NmDir.dev) + Len(x)
      /\ Len(NmDir.dev) \in Nat /\ Len(x) \in Nat
  BY <1>1, ConcatProperties
<1>4. IsPrefix(NmDir.dev, NmOtherPrefix(j))
  BY <1>1, <1>2, OtherStrings, LongerBeginning
<1>5. CASE j = 7
  <2>1. Len(NmOtherPrefix(j)) = 0
    BY <1>5, OtherStrings
  <2>2. Len(NmDir.dev \o x) >= 0
    BY <1>3
  <2> QED BY <2>1, <2>2, <1>2, <1>3
<1>6. CASE j = 1
  <2>1. k \in DOMAIN NmDevs
    BY NmTypeAssumption
  <2>2. IsPrefix(NmDir.dev \o NmDevs[k].name, NmDir.null) /\ NmOtherPrefix(j) = NmDir.null
    BY <1>6 DEF NmOtherPrefix
  <2>3. NmDir.dev \o NmDevs[k].name = NmDir.null
    BY <2>1, <2>2, NmDevAssumption
  <2> QED BY <2>2, <2>3, <1>2, <1>3
<1>7. CASE j = 4
  <2>1. NmOtherPrefix(j) = NmDir.dev
    BY <1>7 DEF NmOtherPrefix
  <2>2. Len(NmDir.dev) <= Len(NmDir.dev \o x)
    BY <1>3
  <2> QED BY <2>1, <2>2, <1>2
<1>8. CASE j \in {2, 3, 5, 6}
  BY <1>4, <1>8, DirectoriesApart DEF NmOtherPrefix
<1>9. j = 7 \/ j = 1 \/ j = 4 \/ j \in {2, 3, 5, 6}
  OBVIOUS
<1> QED BY <1>5, <1>6, <1>7, <1>8, <1>9

(* "Longest prefix first".                                                 *)
LEMMA PrefixesInOrder ==
  ASSUME NEW rfs \in NmRfs
  PROVE  /\ NmPrefixes(rfs) \in Seq(NmBootEntry) /\ Len(NmPrefixes(rfs)) = Len(NmDevs) + 7
         /\ NmPrefixes(rfs)[Len(NmPrefixes(rfs))] = NmLast
         /\ NmOrdered(NmPrefixes(rfs))
<1>0. PICK n \in Nat : n = Len(NmDevs)
  BY DevicePrefixes
<1>1. PICK d, o, q :
        n = Len(NmDevs) /\ d = DevPrefixes /\ o = OtherPrefixes(rfs) /\ q = NmPrefixes(rfs)
  BY <1>0
<1>2. d \in Seq(NmBootEntry) /\ Len(d) = n
  BY <1>1, DevicePrefixes
<1>3. o \in Seq(NmBootEntry) /\ Len(o) = 7 /\ o[7] = NmLast
  BY <1>1, DirectoryPrefixes
<1>4. q = d \o o
  BY <1>1 DEF NmPrefixes
<1>5. /\ q \in Seq(NmBootEntry) /\ Len(q) = Len(d) + Len(o)
      /\ \A i \in 1..(Len(d) + Len(o)) : q[i] = IF i <= Len(d) THEN d[i] ELSE o[i - Len(d)]
  BY <1>2, <1>3, <1>4, ConcatProperties
<1>6. Len(q) = n + 7 /\ \A i \in 1..(n + 7) : q[i] = IF i <= n THEN d[i] ELSE o[i - n]
  BY ONLY <1>2, <1>3, <1>5
<1>7. q[n + 7] = NmLast
  <2>1. n + 7 \in 1..(n + 7) /\ ~(n + 7 <= n) /\ n + 7 - n = 7
    OBVIOUS
  <2> QED BY <2>1, <1>3, <1>6
<1>8. ASSUME NEW i \in 1..(n + 7), NEW j \in 1..(n + 7), i < j PROVE NmAfter(q[i], q[j])
  <2>1. CASE j <= n
    <3>1. i \in 1..n /\ j \in 1..n /\ i # j /\ q[i] = d[i] /\ q[j] = d[j]
      BY <1>6, <1>8, <2>1
    <3>2. /\ q[i].nprefix = NmDir.dev \o NmDevs[i].name /\ NmDevs[i].name \in Seq(STRING)
          /\ q[j].nprefix = NmDir.dev \o NmDevs[j].name /\ NmDevs[j].name \in Seq(STRING)
      BY <3>1, <1>1, DevicePrefixes
    <3>3. ~IsPrefix(NmDevs[i].name, NmDevs[j].name)
      <4>1. i \in DOMAIN NmDevs /\ j \in DOMAIN NmDevs
        BY <3>1, <1>1, NmTypeAssumption
      <4> QED BY <3>1, <4>1, NmDevAssumption
    <3>4. ~IsPrefix(NmDir.dev \o NmDevs[i].name, NmDir.dev \o NmDevs[j].name)
      BY <3>2, <3>3, DirStrings, SameBeginning
    <3> QED BY <3>2, <3>4 DEF NmAfter
  <2>2. CASE i <= n /\ n < j
    <3>1. PICK m \in 1..7 : m = j - n
      BY <2>2
    <3>2. i \in 1..n /\ q[i] = d[i] /\ q[j] = o[m]
      BY <3>1, <2>2, <1>6
    <3>3. q[i].nprefix = NmDir.dev \o NmDevs[i].name
      BY <3>2, <1>1, DevicePrefixes
    <3>4. q[j].nprefix = NmOtherPrefix(m)
      BY <3>2, <1>1, DirectoryPrefixes
    <3>5. i \in 1..Len(NmDevs)
      BY <3>2, <1>1
    <3> QED BY <3>3, <3>4, <3>5, DevicesInOrder DEF NmAfter
  <2>3. CASE n < i
    <3>1. PICK k \in 1..7, m \in 1..7 : k = i - n /\ m = j - n
      <4>1. i - n \in 1..7 /\ j - n \in 1..7
        BY <2>3, <1>8
      <4> QED BY <4>1
    <3>2. k < m /\ q[i] = o[k] /\ q[j] = o[m]
      BY <3>1, <2>3, <1>6, <1>8
    <3>3. q[i].nprefix = NmOtherPrefix(k) /\ q[j].nprefix = NmOtherPrefix(m)
      BY <3>2, <1>1, DirectoryPrefixes
    <3> QED BY <3>2, <3>3, DirectoriesInOrder DEF NmAfter
  <2> QED BY <2>1, <2>2, <2>3, <1>8
<1>9. NmOrdered(q)
  BY <1>6, <1>8 DEF NmOrdered
<1> QED BY <1>1, <1>5, <1>6, <1>7, <1>9

(***************************************************************************)
(* The table while naminit() fills it, and what it keeps of it.            *)
(***************************************************************************)
NmStart(tab, n) ==
  /\ \A k \in 1..n : tab[k] \in NmBootEntry /\ Len(tab[k].nreplace) < NM_REPLLEN
  /\ \A k, j \in 1..n : k < j => NmAfter(tab[k], tab[j])
NmBooting ==
  nmleft # <<>> =>
    /\ nmopened.dev = "none" /\ Len(nametab) + Len(nmleft) <= Len(NmDevs) + 7
    /\ nmleft[Len(nmleft)] = NmLast
    /\ NmOrdered(nmleft) /\ NmStart(nametab, Len(nametab))
    /\ \A k \in 1..Len(nametab), j \in 1..Len(nmleft) : NmAfter(nametab[k], nmleft[j])
NmBooted ==
  nmleft = <<>> =>
    \E n \in 1..Len(nametab) :
      NmStart(nametab, n) /\ nametab[n] = NmLast /\ nmboot = {nametab[k] : k \in 1..n}
NmTypes == nametab \in Seq(NmBootEntry \cup NmMounts) /\ nmleft \in Seq(NmBootEntry)
NmInv == NmTypes /\ NmBooting /\ NmBooted /\ NamesKeepTheirMeaning

LEMMA MountedOrNot ==
  ASSUME NEW tab, NEW e
  PROVE  \/ Mounted(tab, e) = tab
         \/ Mounted(tab, e) = Append(tab, e) /\ Len(e.nreplace) < NM_REPLLEN
BY DEF Mounted, namlen

LEMMA LastIsMounted ==
  ASSUME NEW tab, Len(tab) \in Nat, Len(tab) < NNAMES
  PROVE  Mounted(tab, NmLast) = Append(tab, NmLast)
<1>1. NmLast.nprefix = <<>> /\ NmLast.nreplace = <<>> /\ NmLast.ndevice = "LFILESYS"
  BY DEF NmLast, NmEntry
<1>2. namlen(<<>>, NM_PRELEN) # -1 /\ namlen(<<>>, NM_REPLLEN) # -1
  BY NmSizeAssumption DEF namlen
<1>3. "LFILESYS" \in NmNumbers /\ ~(Len(tab) >= NNAMES)
  BY NmSizeAssumption
<1> QED BY <1>1, <1>2, <1>3 DEF Mounted

LEMMA Lengthened ==
  ASSUME NEW S, NEW s \in Seq(S), NEW e \in S
  PROVE  /\ Append(s, e) \in Seq(S) /\ Len(Append(s, e)) = Len(s) + 1 /\ Append(s, e)[Len(s) + 1] = e
         /\ \A k \in 1..Len(s) : Append(s, e)[k] = s[k]
BY AppendProperties

LEMMA NmInitInv ==
  ASSUME NmInit
  PROVE  NmInv
<1>1. PICK rfs \in NmRfs : nmleft = NmPrefixes(rfs)
  BY DEF NmInit
<1>2. nametab = <<>> /\ Len(nametab) = 0 /\ nmopened.dev = "none"
  BY DEF NmInit
<1>3. /\ nmleft \in Seq(NmBootEntry) /\ Len(nmleft) = Len(NmDevs) + 7
      /\ nmleft[Len(nmleft)] = NmLast /\ NmOrdered(nmleft)
  BY <1>1, PrefixesInOrder
<1>4. Len(NmDevs) \in Nat
  BY DevicePrefixes
<1>5. nmleft # <<>> /\ Len(nametab) + Len(nmleft) <= Len(NmDevs) + 7
  BY <1>2, <1>3, <1>4
<1>6. NmBooting
  BY <1>2, <1>3, <1>5 DEF NmBooting, NmStart
<1>7. NmTypes /\ NmBooted
  BY <1>2, <1>3, <1>5 DEF NmTypes, NmBooted
<1>8. NamesKeepTheirMeaning
  BY <1>2 DEF NamesKeepTheirMeaning
<1> QED BY <1>6, <1>7, <1>8 DEF NmInv

LEMMA naminitInv ==
  ASSUME NmInv, naminit
  PROVE  NmInv'
<1>1. /\ nmleft # <<>> /\ nmleft' = Tail(nmleft) /\ nametab' = Mounted(nametab, Head(nmleft))
      /\ nmboot' = Range(nametab') /\ nmopened' = nmopened
  BY DEF naminit
<1>2. /\ nmopened.dev = "none" /\ Len(nametab) + Len(nmleft) <= Len(NmDevs) + 7
      /\ nmleft[Len(nmleft)] = NmLast
      /\ NmOrdered(nmleft) /\ NmStart(nametab, Len(nametab))
      /\ \A k \in 1..Len(nametab), j \in 1..Len(nmleft) : NmAfter(nametab[k], nmleft[j])
  BY <1>1 DEF NmInv, NmBooting
<1>3. nametab \in Seq(NmBootEntry \cup NmMounts) /\ nmleft \in Seq(NmBootEntry)
  BY DEF NmInv, NmTypes
<1>4. PICK t, u, n, l :
        t = nametab /\ u = nametab' /\ n = Len(nametab) /\ l = Len(nmleft)
  OBVIOUS
<1>5. n \in Nat /\ l \in Nat /\ l >= 1 /\ Len(NmDevs) \in Nat
  BY <1>1, <1>3, <1>4, EmptySeq, DevicePrefixes
<1>6. PICK h : h = Head(nmleft)
  OBVIOUS
<1>7. h = nmleft[1] /\ h \in NmBootEntry
  BY <1>1, <1>3, <1>4, <1>5, <1>6, ElementOfSeq
<1>8. /\ nmleft' \in Seq(NmBootEntry) /\ Len(nmleft') = l - 1
      /\ \A j \in 1..(l - 1) : nmleft'[j] = nmleft[j + 1]
  <2>1. /\ Tail(nmleft) \in Seq(NmBootEntry) /\ Len(Tail(nmleft)) = Len(nmleft) - 1
        /\ \A j \in 1..Len(Tail(nmleft)) : Tail(nmleft)[j] = nmleft[j + 1]
    BY <1>1, <1>3, HeadTailProperties
  <2> QED BY <2>1, <1>1, <1>4
<1>9. \/ u = t
      \/ u = Append(t, h) /\ Len(h.nreplace) < NM_REPLLEN
  BY <1>1, <1>4, <1>6, MountedOrNot
<1>10. h \in NmBootEntry \cup NmMounts
  BY <1>7
<1>11. u \in Seq(NmBootEntry \cup NmMounts)
  BY <1>3, <1>4, <1>9, <1>10, Lengthened
<1>12. Len(u) \in {n, n + 1}
  BY <1>3, <1>4, <1>9, <1>10, Lengthened
<1>13. \A k \in 1..Len(u) : (k <= n /\ u[k] = t[k]) \/ (k = n + 1 /\ u[k] = h /\ Len(h.nreplace) < NM_REPLLEN)
  <2>1. CASE u = t
    BY <2>1, <1>4, <1>5
  <2>2. CASE u = Append(t, h) /\ Len(h.nreplace) < NM_REPLLEN
    <3>1. Len(u) = n + 1 /\ u[n + 1] = h /\ \A k \in 1..n : u[k] = t[k]
      BY <2>2, <1>3, <1>4, <1>10, Lengthened
    <3>2. \A k \in 1..Len(u) : k \in 1..n \/ k = n + 1
      BY <3>1, <1>5
    <3> QED BY <3>1, <3>2, <2>2
  <2> QED BY <1>9, <2>1, <2>2
<1>14. \A k \in 1..n : NmAfter(t[k], h)
  <2>1. 1 \in 1..l
    BY <1>5
  <2> QED BY <2>1, <1>2, <1>4, <1>7
<1>15. NmStart(u, Len(u))
  <2>1. NmStart(t, n)
    BY <1>2, <1>4
  <2>2. ASSUME NEW k \in 1..Len(u) PROVE u[k] \in NmBootEntry /\ Len(u[k].nreplace) < NM_REPLLEN
    <3>1. k \in 1..n \/ k = n + 1
      BY <1>5, <1>12
    <3> QED BY <3>1, <2>1, <1>5, <1>7, <1>13 DEF NmStart
  <2>3. ASSUME NEW k \in 1..Len(u), NEW j \in 1..Len(u), k < j PROVE NmAfter(u[k], u[j])
    <3>1. k \in 1..n /\ u[k] = t[k] /\ ((j \in 1..n /\ u[j] = t[j]) \/ u[j] = h)
      BY <1>5, <1>12, <1>13, <2>3
    <3> QED BY <3>1, <2>1, <2>3, <1>14 DEF NmStart
  <2> QED BY <2>2, <2>3 DEF NmStart
<1>16. NmTypes'
  BY <1>4, <1>8, <1>11 DEF NmTypes
<1>17. NmBooting'
  <2> SUFFICES ASSUME l >= 2 PROVE NmBooting'
    <3>1. l - 1 = 0 => nmleft' = <<>>
      BY <1>8, EmptySeq
    <3> QED BY <3>1, <1>5 DEF NmBooting
  <2>1. nmopened'.dev = "none" /\ Len(nametab') + Len(nmleft') <= Len(NmDevs) + 7
    BY <1>1, <1>2, <1>4, <1>5, <1>8, <1>12
  <2>2. nmleft'[Len(nmleft')] = NmLast
    <3>1. l - 1 \in 1..(l - 1) /\ l - 1 + 1 = l
      BY <1>5
    <3> QED BY <3>1, <1>2, <1>4, <1>8
  <2>3. \A j \in 1..(l - 1) : j + 1 \in 1..l
    BY <1>5
  <2>4. NmOrdered(nmleft')
    <3>1. ASSUME NEW k \in 1..(l - 1), NEW j \in 1..(l - 1), k < j PROVE NmAfter(nmleft'[k], nmleft'[j])
      <4>1. NmAfter(nmleft[k + 1], nmleft[j + 1])
        <5>1. k + 1 < j + 1 /\ k + 1 \in 1..Len(nmleft) /\ j + 1 \in 1..Len(nmleft)
          BY <3>1, <2>3, <1>4
        <5> QED BY <5>1, <1>2 DEF NmOrdered
      <4> QED BY <4>1, <1>8
    <3> QED BY <3>1, <1>8 DEF NmOrdered
  <2>5. ASSUME NEW k \in 1..Len(nametab'), NEW j \in 1..Len(nmleft') PROVE NmAfter(nametab'[k], nmleft'[j])
    <3>1. j \in 1..(l - 1) /\ nmleft'[j] = nmleft[j + 1] /\ j + 1 \in 1..l /\ 1 < j + 1 /\ 1 \in 1..l
      BY <1>5, <1>8, <2>3
    <3>2. CASE k <= n /\ u[k] = t[k]
      <4>1. k \in 1..n
        BY <3>2, <1>4, <1>12
      <4> QED BY <3>1, <3>2, <4>1, <1>2, <1>4
    <3>3. CASE u[k] = h
      <4>1. NmAfter(nmleft[1], nmleft[j + 1])
        BY <3>1, <1>2, <1>4 DEF NmOrdered
      <4> QED BY <3>1, <3>3, <4>1, <1>4, <1>7
    <3> QED BY <3>2, <3>3, <1>4, <1>13
  <2> QED BY <2>1, <2>2, <2>4, <2>5, <1>4, <1>15 DEF NmBooting
<1>18. NmBooted'
  <2> SUFFICES ASSUME nmleft' = <<>> PROVE NmBooted'
    BY DEF NmBooted
  <2>1. l = 1
    BY <1>5, <1>8
  <2>2. h = NmLast
    BY <2>1, <1>2, <1>4, <1>7
  <2>3. n < NNAMES
    BY <2>1, <1>2, <1>4, <1>5, NmSizeAssumption
  <2>4. u = Append(t, h)
    BY <2>2, <2>3, <1>1, <1>4, <1>5, <1>6, LastIsMounted
  <2>5. Len(u) = n + 1 /\ u[n + 1] = NmLast
    BY <2>2, <2>4, <1>3, <1>4, <1>10, Lengthened
  <2>6. nmboot' = {u[k] : k \in 1..(n + 1)}
    <3>1. DOMAIN u = 1..(n + 1)
      BY <2>5, <1>11
    <3> QED BY <3>1, <1>1, <1>4 DEF Range
  <2>7. n + 1 \in 1..Len(nametab')
    BY <2>5, <1>4, <1>5
  <2> QED BY <2>5, <2>6, <2>7, <1>4, <1>15 DEF NmBooted
<1>19. NamesKeepTheirMeaning'
  BY <1>1, <1>2 DEF NamesKeepTheirMeaning
<1> QED BY <1>16, <1>17, <1>18, <1>19 DEF NmInv

LEMMA mountInv ==
  ASSUME NmInv, NEW e \in NmMounts, mount(e)
  PROVE  NmInv'
<1>1. /\ nmleft = <<>> /\ nametab' = Mounted(nametab, e) /\ nmleft' = nmleft
      /\ nmboot' = nmboot /\ nmopened' = nmopened
  BY DEF mount
<1>2. NmTypes /\ NmBooted /\ NamesKeepTheirMeaning
  BY DEF NmInv
<1>3. PICK t, u : t = nametab /\ u = nametab'
  OBVIOUS
<1>4. t \in Seq(NmBootEntry \cup NmMounts)
  BY <1>2, <1>3 DEF NmTypes
<1>5. PICK n \in 1..Len(t) : NmStart(t, n) /\ t[n] = NmLast /\ nmboot = {t[k] : k \in 1..n}
  BY <1>1, <1>2, <1>3 DEF NmBooted
<1>6. e \in NmBootEntry \cup NmMounts
  OBVIOUS
<1>7. u = t \/ u = Append(t, e)
  BY <1>1, <1>3, MountedOrNot
<1>8. u \in Seq(NmBootEntry \cup NmMounts) /\ Len(t) <= Len(u) /\ \A k \in 1..Len(t) : u[k] = t[k]
  BY <1>4, <1>6, <1>7, Lengthened
<1>9. n \in 1..Len(u) /\ \A k \in 1..n : k \in 1..Len(t) /\ u[k] = t[k]
  BY <1>4, <1>8
<1>10. NmStart(u, n) /\ u[n] = NmLast
  BY <1>5, <1>9 DEF NmStart
<1>11. {u[k] : k \in 1..n} = {t[k] : k \in 1..n}
  BY <1>9
<1>12. NmTypes' /\ NmBooting'
  BY <1>1, <1>2, <1>3, <1>8 DEF NmTypes, NmBooting
<1>13. NmBooted'
  BY <1>1, <1>3, <1>5, <1>9, <1>10, <1>11 DEF NmBooted
<1>14. NamesKeepTheirMeaning'
  BY <1>1, <1>2 DEF NamesKeepTheirMeaning
<1> QED BY <1>12, <1>13, <1>14 DEF NmInv

(* The first entry that matches is one of naminit(), and the longest.      *)
LEMMA FirstIsLongest ==
  ASSUME NmTypes, NEW name \in Seq(STRING), NEW n \in 1..Len(nametab), NmStart(nametab, n), nametab[n] = NmLast
  PROVE  /\ Matching(nametab, name) # {} /\ NmFirst(name) \in 1..n
         /\ IsPrefix(nametab[NmFirst(name)].nprefix, name)
         /\ \A k \in 1..n : IsPrefix(nametab[k].nprefix, name) =>
              Len(nametab[k].nprefix) <= Len(nametab[NmFirst(name)].nprefix)
<1>1. DOMAIN nametab = 1..Len(nametab) /\ Len(nametab) \in Nat
  BY DEF NmTypes
<1>2. PICK M : M = Matching(nametab, name)
  OBVIOUS
<1>3. \A k : k \in M <=> k \in 1..Len(nametab) /\ IsPrefix(nametab[k].nprefix, name)
  BY <1>1, <1>2 DEF Matching
<1>4. n \in M
  <2>1. nametab[n].nprefix = <<>>
    BY DEF NmLast, NmEntry
  <2>2. <<>> \in Seq(STRING) /\ Len(<<>>) = 0 /\ Len(name) \in Nat
    OBVIOUS
  <2>3. IsPrefix(<<>>, name)
    <3>1. PICK s \in Seq(STRING) : s = <<>>
      BY <2>2
    <3>2. Len(s) <= Len(name) /\ \A k \in 1..Len(s) : s[k] = name[k]
      BY <3>1, <2>2
    <3> QED BY <3>1, <3>2, PrefixByIndex
  <2> QED BY <1>3, <2>1, <2>3
<1>5. M \subseteq Nat
  BY <1>1, <1>3
<1>6. PICK m \in M : \A j \in M : m <= j
  BY <1>4, <1>5, Smallest
<1>7. PICK c : c = NmFirst(name)
  OBVIOUS
<1>8. c \in M /\ \A j \in M : c <= j
  BY <1>2, <1>6, <1>7 DEF NmFirst
<1>9. c \in 1..n /\ IsPrefix(nametab[c].nprefix, name)
  BY <1>1, <1>3, <1>4, <1>8
<1>10. ASSUME NEW k \in 1..n, IsPrefix(nametab[k].nprefix, name)
       PROVE  Len(nametab[k].nprefix) <= Len(nametab[c].nprefix)
  <2>1. k \in M /\ c <= k
    BY <1>1, <1>3, <1>8, <1>10
  <2>2. nametab[k] \in NmBootEntry /\ nametab[c] \in NmBootEntry
    BY <1>9 DEF NmStart
  <2>3. nametab[k].nprefix \in Seq(STRING) /\ nametab[c].nprefix \in Seq(STRING)
    BY <2>2 DEF NmBootEntry
  <2>4. PICK x \in Seq(STRING), y \in Seq(STRING) : x = nametab[k].nprefix /\ y = nametab[c].nprefix
    BY <2>3
  <2>5. Len(x) \in Nat /\ Len(y) \in Nat
    OBVIOUS
  <2>6. CASE Len(y) <= Len(x)
    <3>1. IsPrefix(y, x)
      BY <2>4, <2>6, <1>9, <1>10, BeginningsAreNested
    <3>2. CASE c < k
      <4>1. NmAfter(nametab[c], nametab[k])
        BY <3>2, <1>9 DEF NmStart
      <4> QED BY <3>1, <4>1, <2>4 DEF NmAfter
    <3>3. CASE c = k
      BY <3>3, <2>4, <2>5
    <3> QED BY <3>2, <3>3, <2>1, <1>5, <1>8
  <2> QED BY <2>4, <2>5, <2>6
<1> QED BY <1>2, <1>4, <1>7, <1>9, <1>10

(* The length of a short name survives in a char, and the name fits.       *)
LEMMA CharHolds ==
  ASSUME NEW l \in Nat, NEW c \in Nat, l < c
  PROVE  ((l + 1 + c + 1) % (2 * (c + 1))) - (c + 1) = l + 1
<1>1. PICK x \in Nat, m \in Nat : x = l + 1 + c + 1 /\ m = 2 * (c + 1)
  OBVIOUS
<1>2. x < m
  BY <1>1
<1>3. x % m = x
  BY <1>2
<1> QED BY <1>1, <1>3

LEMMA ShortName ==
  ASSUME NEW name \in Seq(STRING), Len(name) < NmCharMax
  PROVE  namlen(name, NM_MAXLEN) = Len(name) + 1 /\ AsChar(namlen(name, NM_MAXLEN)) = Len(name) + 1
<1>1. Len(name) \in Nat /\ NmCharMax \in Nat /\ Len(name) < NM_MAXLEN
  BY NmSizeAssumption
<1>2. namlen(name, NM_MAXLEN) = Len(name) + 1
  BY <1>1 DEF namlen
<1>3. ((Len(name) + 1 + NmCharMax + 1) % (2 * (NmCharMax + 1))) - (NmCharMax + 1) = Len(name) + 1
  BY <1>1, CharHolds
<1> QED BY <1>2, <1>3 DEF AsChar

LEMMA ShortNameFits ==
  ASSUME NEW r \in Nat, NEW p \in Nat, NEW l \in Nat, NEW c \in Nat, NEW rl \in Nat, NEW m \in Nat,
         r < rl, p <= l, l < c, c + rl <= m
  PROVE  ~(r + ((l + 1) - p) > m) /\ ~((l + 1) - p <= 0)
<1>1. r + ((l + 1) - p) <= r + c + 1
  OBVIOUS
<1>2. r + c + 1 <= m
  OBVIOUS
<1> QED BY <1>1, <1>2

(* The name returned is the one that was asked for.                        *)
LEMMA NamreplOfName ==
  ASSUME NEW name
  PROVE  \E d, x, b : namrepl(name) = NmResult(name, d, x, b)
<1>1. CASE Matching(nametab, name) = {}
  BY <1>1, Zenon DEF namrepl
<1>2. CASE Matching(nametab, name) # {}
  <2>1. PICK e : e = nametab[NmFirst(name)]
    OBVIOUS
  <2>2. PICK remain, rest : remain = AsChar(namlen(name, NM_MAXLEN)) - Len(e.nprefix) /\ rest = SubSeq(name, Len(e.nprefix) + 1, Len(name))
    OBVIOUS
  <2>3. namrepl(name) = NmReplaced(name, e)
    BY <1>2, <2>1 DEF namrepl
  <2>4. NmReplaced(name, e) =
          IF Len(e.nreplace) + remain > NM_MAXLEN THEN NmResult(name, SysErr, <<>>, FALSE)
          ELSE IF remain <= 0 THEN NmResult(name, e.ndevice, e.nreplace, FALSE)
          ELSE NmResult(name, e.ndevice, e.nreplace \o rest, TRUE)
    BY <2>2 DEF NmReplaced
  <2>5. CASE Len(e.nreplace) + remain > NM_MAXLEN
    BY <2>4, <2>5, <2>3, Zenon
  <2>6. CASE ~(Len(e.nreplace) + remain > NM_MAXLEN) /\ remain <= 0
    BY <2>4, <2>6, <2>3, Zenon
  <2>7. CASE ~(Len(e.nreplace) + remain > NM_MAXLEN) /\ ~(remain <= 0)
    BY <2>4, <2>7, <2>3, Zenon
  <2> QED BY <2>5, <2>6, <2>7
<1> QED BY <1>1, <1>2

LEMMA NammapOfName ==
  ASSUME NEW name
  PROVE  nammap(name).name = name
<1>1. PICK d, x, b : namrepl(name) = NmResult(name, d, x, b)
  BY NamreplOfName
<1>2. PICK res : res = NmResult(name, d, x, b)
  OBVIOUS
<1>3. res.name = name /\ res.dev = d /\ [res EXCEPT !.dev = SysErr].name = name
  BY <1>2 DEF NmResult
<1>4. \A y : NmResult(name, SysErr, <<>>, y).name = name
  BY DEF NmResult
<1>5. CASE namlen(name, NM_MAXLEN) = -1 \/ nametab = <<>>
  <2>1. nammap(name) = NmResult(name, SysErr, <<>>, FALSE)
    BY <1>5, Zenon DEF nammap
  <2> QED BY <2>1, <1>4
<1>6. CASE ~(namlen(name, NM_MAXLEN) = -1 \/ nametab = <<>>)
  <2>1. nammap(name) = IF res.dev = "NAMESPACE" THEN [res EXCEPT !.dev = SysErr] ELSE res
    BY <1>1, <1>2, <1>6, Zenon DEF nammap
  <2>2. CASE res.dev = "NAMESPACE"
    BY <2>1, <2>2, <1>3
  <2>3. CASE res.dev # "NAMESPACE"
    BY <2>1, <2>3, <1>3
  <2> QED BY <2>2, <2>3
<1> QED BY <1>5, <1>6

LEMMA ShortNameIsMapped ==
  ASSUME NmTypes, NEW name \in Seq(STRING), Len(name) < NmCharMax,
         NEW n \in 1..Len(nametab), NmStart(nametab, n), nametab[n] = NmLast,
         NEW e, e = nametab[NmFirst(name)]
  PROVE  namrepl(name)
           = NmResult(name, e.ndevice, e.nreplace \o SubSeq(name, Len(e.nprefix) + 1, Len(name)), TRUE)
<1>1. Matching(nametab, name) # {} /\ NmFirst(name) \in 1..n /\ IsPrefix(e.nprefix, name)
  BY FirstIsLongest
<1>2. e \in NmBootEntry /\ Len(e.nreplace) < NM_REPLLEN
  BY <1>1 DEF NmStart
<1>3. Len(e.nreplace) \in Nat
  <2>1. Len(<<>>) \in Nat /\ Len(<<"remote:">>) \in Nat /\ Len(<<"root:">>) \in Nat
    OBVIOUS
  <2> QED BY <2>1, <1>2 DEF NmBootEntry, NmReplacements
<1>4. e.nprefix \in Seq(STRING)
  BY <1>2 DEF NmBootEntry
<1>5. Len(e.nprefix) \in Nat /\ Len(e.nprefix) <= Len(name)
  BY <1>1, <1>4 DEF IsPrefix
<1>6. PICK r \in Nat, p \in Nat, l \in Nat : r = Len(e.nreplace) /\ p = Len(e.nprefix) /\ l = Len(name)
  BY <1>3, <1>5
<1>7. AsChar(namlen(name, NM_MAXLEN)) = l + 1
  BY <1>6, ShortName
<1>8. ~(r + ((l + 1) - p) > NM_MAXLEN) /\ ~((l + 1) - p <= 0)
  <2>1. NmCharMax \in Nat /\ NM_REPLLEN \in Nat /\ NM_MAXLEN \in Nat /\ NmCharMax + NM_REPLLEN <= NM_MAXLEN
    BY NmSizeAssumption
  <2>2. r < NM_REPLLEN /\ p <= l /\ l < NmCharMax
    BY <1>2, <1>5, <1>6
  <2> QED BY <2>1, <2>2, ShortNameFits
<1>9. PICK remain, rest : remain = AsChar(namlen(name, NM_MAXLEN)) - Len(e.nprefix)
                          /\ rest = SubSeq(name, Len(e.nprefix) + 1, Len(name))
  OBVIOUS
<1>10. namrepl(name) = NmReplaced(name, e)
  BY <1>1, Zenon DEF namrepl
<1>11. NmReplaced(name, e) =
         IF Len(e.nreplace) + remain > NM_MAXLEN THEN NmResult(name, SysErr, <<>>, FALSE)
         ELSE IF remain <= 0 THEN NmResult(name, e.ndevice, e.nreplace, FALSE)
         ELSE NmResult(name, e.ndevice, e.nreplace \o rest, TRUE)
  BY <1>9 DEF NmReplaced
<1>12. ~(Len(e.nreplace) + remain > NM_MAXLEN) /\ ~(remain <= 0)
  <2>1. remain = (l + 1) - p
    BY <1>6, <1>7, <1>9
  <2> QED BY <2>1, <1>6, <1>8
<1>13. namrepl(name) = NmResult(name, e.ndevice, e.nreplace \o rest, TRUE)
  BY <1>11, <1>12, <1>10, Zenon
<1> QED BY <1>9, <1>13

LEMMA namopenInv ==
  ASSUME NmInv, NEW name \in NmName, namopen(name)
  PROVE  NmInv'
<1>1. /\ nmleft = <<>> /\ nmopened' = nammap(name)
      /\ nametab' = nametab /\ nmleft' = nmleft /\ nmboot' = nmboot
  BY DEF namopen
<1>2. NmTypes /\ NmBooted
  BY DEF NmInv
<1>3. NmTypes' /\ NmBooting' /\ NmBooted'
  BY <1>1, <1>2 DEF NmTypes, NmBooting, NmBooted
<1>4. PICK n \in 1..Len(nametab) :
        NmStart(nametab, n) /\ nametab[n] = NmLast /\ nmboot = {nametab[k] : k \in 1..n}
  BY <1>1, <1>2 DEF NmBooted
<1>5. name \in Seq(STRING)
  BY NmTypeAssumption
<1>6. nmopened'.name = name
  BY <1>1, NammapOfName
<1>7. ASSUME Len(name) < NmCharMax
      PROVE  \E e \in {f \in nmboot : IsPrefix(f.nprefix, name)} :
               /\ \A f \in {f \in nmboot : IsPrefix(f.nprefix, name)} : Len(f.nprefix) <= Len(e.nprefix)
               /\ e.ndevice # "NAMESPACE" =>
                    nmopened' = NmResult(name, e.ndevice,
                         e.nreplace \o SubSeq(name, Len(e.nprefix) + 1, Len(name)), TRUE)
  <2>1. PICK c : c = NmFirst(name)
    OBVIOUS
  <2>2. /\ c \in 1..n /\ IsPrefix(nametab[c].nprefix, name)
        /\ \A k \in 1..n : IsPrefix(nametab[k].nprefix, name) => Len(nametab[k].nprefix) <= Len(nametab[c].nprefix)
    BY <1>2, <1>4, <1>5, <2>1, FirstIsLongest
  <2>3. PICK e : e = nametab[c]
    OBVIOUS
  <2>4. PICK new : new = e.nreplace \o SubSeq(name, Len(e.nprefix) + 1, Len(name))
    OBVIOUS
  <2>5. namrepl(name) = NmResult(name, e.ndevice, new, TRUE)
    BY <1>2, <1>4, <1>5, <1>7, <2>1, <2>3, <2>4, ShortNameIsMapped
  <2>6. namlen(name, NM_MAXLEN) # -1 /\ nametab # <<>>
    <3>1. namlen(name, NM_MAXLEN) = Len(name) + 1 /\ Len(name) \in Nat
      BY <1>5, <1>7, ShortName
    <3> QED BY <3>1, <1>4
  <2>7. nmopened' = IF e.ndevice = "NAMESPACE" THEN [NmResult(name, e.ndevice, new, TRUE) EXCEPT !.dev = SysErr]
                    ELSE NmResult(name, e.ndevice, new, TRUE)
    <3>1. NmResult(name, e.ndevice, new, TRUE).dev = e.ndevice
      BY DEF NmResult
    <3> QED BY <3>1, <2>5, <2>6, <1>1 DEF nammap
  <2>9. e \in {f \in nmboot : IsPrefix(f.nprefix, name)}
    BY <1>4, <2>2, <2>3
  <2>10. \A f \in {f \in nmboot : IsPrefix(f.nprefix, name)} : Len(f.nprefix) <= Len(e.nprefix)
    BY <1>4, <2>2, <2>3
  <2>11. e.ndevice # "NAMESPACE" => nmopened' = NmResult(name, e.ndevice, new, TRUE)
    BY <2>7
  <2> QED BY <2>4, <2>9, <2>10, <2>11
<1>8. NamesKeepTheirMeaning'
  BY <1>1, <1>6, <1>7 DEF NamesKeepTheirMeaning
<1> QED BY <1>3, <1>8 DEF NmInv

LEMMA NmReturnsInv ==
  ASSUME NmInv, NmReturns
  PROVE  NmInv'
<1>1. /\ nmopened.dev # "none" /\ nametab' = nametab /\ nmleft' = nmleft /\ nmboot' = nmboot
      /\ nmopened' = [nmopened EXCEPT !.name = <<>>, !.dev = "none", !.newname = <<>>, !.ended = TRUE]
  BY DEF NmReturns
<1>2. nmleft = <<>>
  BY <1>1 DEF NmInv, NmBooting
<1>3. NmTypes' /\ NmBooting' /\ NmBooted'
  BY <1>1, <1>2 DEF NmInv, NmTypes, NmBooting, NmBooted
<1>4. NamesKeepTheirMeaning'
  BY <1>1 DEF NamesKeepTheirMeaning
<1> QED BY <1>3, <1>4 DEF NmInv

(* For any devices, prefixes, names and later mounts, and tables of any    *)
(* size that hold what naminit() mounts: a name whose length a char can    *)
(* hold is opened on the device of the longest prefix mounted at start-up, *)
(* with its rest whole behind the replacement, whatever is mounted later,  *)
(* unless that device is the name space itself.                            *)
THEOREM NamesKeepTheirMeaningAlways == NmSpec => []NamesKeepTheirMeaning
<1>1. NmInit => NmInv
  BY NmInitInv
<1>2. NmInv /\ [NmNext]_NmVars => NmInv'
  <2>1. CASE NmInv /\ naminit
    BY <2>1, naminitInv
  <2>2. ASSUME NEW e \in NmMounts, NmInv, mount(e) PROVE NmInv'
    BY <2>2, mountInv
  <2>3. ASSUME NEW name \in NmName, NmInv, namopen(name) PROVE NmInv'
    BY <2>3, namopenInv
  <2>4. CASE NmInv /\ NmReturns
    BY <2>4, NmReturnsInv
  <2>5. CASE NmInv /\ UNCHANGED NmVars
    <3>1. UNCHANGED <<nametab, nmleft, nmboot, nmopened>>
      BY <2>5 DEF NmVars
    <3>2. NmTypes'
      BY <2>5, <3>1 DEF NmInv, NmTypes
    <3>3. NmBooting'
      BY <2>5, <3>1 DEF NmInv, NmBooting
    <3>4. NmBooted'
      BY <2>5, <3>1 DEF NmInv, NmBooted
    <3>5. NamesKeepTheirMeaning'
      BY <2>5, <3>1 DEF NmInv, NamesKeepTheirMeaning
    <3> QED BY <3>2, <3>3, <3>4, <3>5 DEF NmInv
  <2> QED BY <2>1, <2>2, <2>3, <2>4, <2>5 DEF NmNext
<1>3. NmInv => NamesKeepTheirMeaning
  BY DEF NmInv
<1> QED BY <1>1, <1>2, <1>3, PTL DEF NmSpec
=============================================================================
