---------------------------- MODULE SchedProofs ----------------------------
(***************************************************************************)
(* What the proofs about the components cite: lemmas about queues as       *)
(* sequences, about finite sets and about numbers, for every set of        *)
(* elements; and, behind them, lemmas about the operators of Sched, for    *)
(* every size of the process table and of the time slice.                  *)
(***************************************************************************)
EXTENDS Sched, FiniteSetTheorems, SequenceTheorems, TLAPS

(* A sequence with one element between two others, and InsertAt and        *)
(* RemoveAt, element by element.                                           *)
LEMMA Splice ==
  ASSUME NEW S, NEW l \in Seq(S), NEW e \in S, NEW r \in Seq(S)
  PROVE  /\ l \o <<e>> \o r \in Seq(S)
         /\ Len(l \o <<e>> \o r) = Len(l) + 1 + Len(r)
         /\ \A j \in 1 .. Len(l) + 1 + Len(r) :
               (l \o <<e>> \o r)[j] = IF j <= Len(l) THEN l[j]
                                      ELSE IF j = Len(l) + 1 THEN e
                                      ELSE r[j - Len(l) - 1]
BY ConcatProperties

LEMMA InsertAtElements ==
  ASSUME NEW S, NEW q \in Seq(S), NEW e \in S, NEW i \in 1 .. Len(q) + 1
  PROVE  /\ InsertAt(q, i, e) \in Seq(S)
         /\ Len(InsertAt(q, i, e)) = Len(q) + 1
         /\ \A j \in 1 .. Len(q) + 1 :
               InsertAt(q, i, e)[j] = IF j < i THEN q[j]
                                      ELSE IF j = i THEN e ELSE q[j - 1]
<1> DEFINE l == SubSeq(q, 1, i - 1)
           r == SubSeq(q, i, Len(q))
<1>0. l \in Seq(S) /\ r \in Seq(S)
  OBVIOUS
<1>1. Len(l) = i - 1 /\ \A j \in 1 .. i - 1 : l[j] = q[j]
  OBVIOUS
<1>2. /\ Len(r) = Len(q) - i + 1
      /\ \A j \in 1 .. Len(q) - i + 1 : r[j] = q[i + j - 1]
  OBVIOUS
<1>3. InsertAt(q, i, e) = l \o <<e>> \o r
  BY DEF InsertAt
<1> HIDE DEF l, r
<1> DEFINE ins == InsertAt(q, i, e)
<1>4. /\ ins \in Seq(S)
      /\ Len(ins) = Len(l) + 1 + Len(r)
      /\ \A j \in 1 .. Len(l) + 1 + Len(r) :
            ins[j] = IF j <= Len(l) THEN l[j]
                     ELSE IF j = Len(l) + 1 THEN e ELSE r[j - Len(l) - 1]
  BY <1>0, <1>3, Splice
<1> HIDE DEF ins
<1>5. Len(l) + 1 + Len(r) = Len(q) + 1
  BY <1>1, <1>2
<1>6. ASSUME NEW j \in 1 .. Len(q) + 1
      PROVE ins[j] = IF j < i THEN q[j] ELSE IF j = i THEN e ELSE q[j - 1]
  <2>1. CASE j < i
    BY <1>1, <1>4, <1>5, <2>1
  <2>2. CASE j = i
    BY <1>1, <1>4, <1>5, <2>2
  <2>3. CASE j > i
    <3>a. /\ j \in 1 .. Len(l) + 1 + Len(r) /\ Len(l) \in Int
          /\ ~(j <= Len(l)) /\ j # Len(l) + 1
      BY <1>1, <1>5, <2>3
    <3>b. ins[j] = r[j - Len(l) - 1]
      BY <1>4, <3>a
    <3>c. j - Len(l) - 1 = j - i
      BY <1>1
    <3>1. ins[j] = r[j - i]
      BY <3>b, <3>c
    <3>2. r[j - i] = q[j - 1]
      BY <1>2, <2>3
    <3> QED BY <2>3, <3>1, <3>2
  <2> QED BY <2>1, <2>2, <2>3
<1> QED BY <1>4, <1>5, <1>6 DEF ins
LEMMA RemoveAtElements ==
  ASSUME NEW S, NEW q \in Seq(S), NEW i \in 1 .. Len(q)
  PROVE  /\ RemoveAt(q, i) \in Seq(S)
         /\ Len(RemoveAt(q, i)) = Len(q) - 1
         /\ \A j \in 1 .. Len(q) - 1 :
               RemoveAt(q, i)[j] = IF j < i THEN q[j] ELSE q[j + 1]
<1> DEFINE l == SubSeq(q, 1, i - 1)
           r == SubSeq(q, i + 1, Len(q))
           rem == RemoveAt(q, i)
<1>0. l \in Seq(S) /\ r \in Seq(S)
  OBVIOUS
<1>1. Len(l) = i - 1 /\ \A j \in 1 .. i - 1 : l[j] = q[j]
  OBVIOUS
<1>2. Len(r) = Len(q) - i /\ \A j \in 1 .. Len(q) - i : r[j] = q[i + j]
  OBVIOUS
<1>3. rem = l \o r
  BY DEF RemoveAt
<1> HIDE DEF l, r, rem
<1>4. /\ rem \in Seq(S)
      /\ Len(rem) = Len(l) + Len(r)
      /\ \A j \in 1 .. Len(l) + Len(r) :
            rem[j] = IF j <= Len(l) THEN l[j] ELSE r[j - Len(l)]
  BY <1>0, <1>3, ConcatProperties
<1>5. Len(l) + Len(r) = Len(q) - 1
  BY <1>1, <1>2
<1>6. ASSUME NEW j \in 1 .. Len(q) - 1
      PROVE rem[j] = IF j < i THEN q[j] ELSE q[j + 1]
  <2>1. CASE j < i
    BY <1>1, <1>4, <1>5, <2>1
  <2>2. CASE j >= i
    <3>a. j \in 1 .. Len(l) + Len(r) /\ Len(l) \in Int /\ ~(j <= Len(l))
      BY <1>1, <1>5, <2>2
    <3>b. rem[j] = r[j - Len(l)]
      BY <1>4, <3>a
    <3>c. j - Len(l) = j - i + 1
      BY <1>1
    <3>1. rem[j] = r[j - i + 1]
      BY <3>b, <3>c
    <3>2. r[j - i + 1] = q[j + 1]
      BY <1>2, <2>2
    <3> QED BY <2>2, <3>1, <3>2
  <2> QED BY <2>1, <2>2
<1> QED BY <1>4, <1>5, <1>6 DEF rem
-----------------------------------------------------------------------------
(* Queues of processes as sequences: what enqueue(), dequeue() and         *)
(* getitem() do to who is on the queue.                                    *)
LEMMA AppendQ ==
  ASSUME NEW S, NEW q \in Seq(S), NEW x \in S, ~InQ(q, x), Once(q)
  PROVE  /\ Append(q, x) \in Seq(S) /\ Len(Append(q, x)) = Len(q) + 1
         /\ Once(Append(q, x))
         /\ \A y : InQ(Append(q, x), y) <=> InQ(q, y) \/ y = x
<1> DEFINE a == Append(q, x)
           n == Len(q)
<1>1. /\ a \in Seq(S) /\ Len(a) = n + 1 /\ n \in Nat
      /\ a[n + 1] = x
      /\ \A i \in 1 .. n : a[i] = q[i]
  OBVIOUS
<1> HIDE DEF a
<1>2. \A i \in 1 .. n + 1 : i \in 1 .. n \/ i = n + 1
  BY <1>1
<1>3. 1 .. n \subseteq 1 .. n + 1 /\ n + 1 \in 1 .. n + 1
  BY <1>1
<1> HIDE DEF n
<1>4. ASSUME NEW y PROVE InQ(a, y) <=> InQ(q, y) \/ y = x
  BY <1>1, <1>2, <1>3 DEF InQ, n
<1>5. Once(a)
  BY <1>1, <1>2, <1>3 DEF Once, InQ, n
<1> QED BY <1>1, <1>4, <1>5 DEF a, n

LEMMA TailQ ==
  ASSUME NEW S, NEW q \in Seq(S), q # <<>>, Once(q)
  PROVE  /\ Tail(q) \in Seq(S) /\ Len(Tail(q)) = Len(q) - 1
         /\ Head(q) \in S /\ InQ(q, Head(q))
         /\ Once(Tail(q))
         /\ \A y : InQ(Tail(q), y) <=> InQ(q, y) /\ y # Head(q)
<1> DEFINE t == Tail(q)
           h == Head(q)
           n == Len(q)
<1>1. /\ t \in Seq(S) /\ Len(t) = n - 1 /\ n \in Nat /\ n >= 1
      /\ h = q[1] /\ h \in S
      /\ \A i \in 1 .. n - 1 : t[i] = q[i + 1]
  OBVIOUS
<1> HIDE DEF t, h
<1>2. /\ \A i \in 1 .. n - 1 : i + 1 \in 1 .. n /\ i + 1 # 1
      /\ \A i \in 1 .. n : i = 1 \/ (i - 1 \in 1 .. n - 1 /\ (i - 1) + 1 = i)
      /\ 1 \in 1 .. n
  BY <1>1
<1>3. \A i, j \in 1 .. n - 1 : i + 1 = j + 1 => i = j
  BY <1>1
<1> HIDE DEF n
<1>4. ASSUME NEW y PROVE InQ(t, y) <=> InQ(q, y) /\ y # h
  <2>1. ASSUME InQ(t, y) PROVE InQ(q, y) /\ y # h
    <3>1. PICK i \in 1 .. n - 1 : q[i + 1] = y
      BY <1>1, <2>1 DEF InQ
    <3> QED BY <1>1, <1>2, <3>1 DEF InQ, Once, n
  <2>2. ASSUME InQ(q, y), y # h PROVE InQ(t, y)
    <3>1. PICK i \in 1 .. n : q[i] = y
      BY <2>2 DEF InQ, n
    <3>2. i - 1 \in 1 .. n - 1 /\ (i - 1) + 1 = i
      BY <1>1, <1>2, <2>2, <3>1
    <3> QED BY <1>1, <3>1, <3>2 DEF InQ
  <2> QED BY <2>1, <2>2
<1>5. Once(t)
  <2>1. ASSUME NEW i \in 1 .. n - 1, NEW j \in 1 .. n - 1, t[i] = t[j] PROVE i = j
    <3>1. q[i + 1] = q[j + 1]
      BY <1>1, <2>1
    <3>2. i + 1 = j + 1
      BY <1>2, <3>1 DEF Once, n
    <3> QED BY <1>3, <3>2
  <2> QED BY <1>1, <2>1 DEF Once
<1>6. InQ(q, h)
  BY <1>1, <1>2 DEF InQ, n
<1> QED BY <1>1, <1>4, <1>5, <1>6 DEF t, h, n

LEMMA UnlinkQ ==
  ASSUME NEW S, NEW q \in Seq(S), NEW x, InQ(q, x), Once(q)
  PROVE  /\ Unlink(q, x) \in Seq(S) /\ Len(Unlink(q, x)) = Len(q) - 1
         /\ Once(Unlink(q, x))
         /\ \A y : InQ(Unlink(q, x), y) <=> InQ(q, y) /\ y # x
<1> DEFINE i == CHOOSE j \in 1 .. Len(q) : q[j] = x
           t == Unlink(q, x)
           n == Len(q)
           g(j) == IF j < i THEN j ELSE j + 1
<1>1. i \in 1 .. n /\ q[i] = x /\ n \in Nat
  BY DEF InQ
<1>2. t = RemoveAt(q, i)
  BY DEF Unlink
<1> HIDE DEF i, t
<1>3. /\ t \in Seq(S) /\ Len(t) = n - 1
      /\ \A j \in 1 .. n - 1 : t[j] = IF j < i THEN q[j] ELSE q[j + 1]
  BY <1>1, <1>2, RemoveAtElements
<1>4. \A j \in 1 .. n - 1 : t[j] = q[g(j)]
  BY <1>3
<1> HIDE DEF n
<1>5. \A j \in 1 .. n - 1 : g(j) \in 1 .. n /\ g(j) # i
  BY <1>1
<1>6. \A a, b \in 1 .. n - 1 : g(a) = g(b) => a = b
  BY <1>1
<1>7. \A j \in 1 .. n : j = i \/ \E a \in 1 .. n - 1 : g(a) = j
  <2> SUFFICES ASSUME NEW j \in 1 .. n, j # i PROVE \E a \in 1 .. n - 1 : g(a) = j
    OBVIOUS
  <2>1. CASE j < i
    <3>1. j \in 1 .. n - 1 /\ g(j) = j
      BY <1>1, <2>1
    <3> QED BY <3>1
  <2>2. CASE j > i
    <3>1. j - 1 \in 1 .. n - 1 /\ g(j - 1) = j
      BY <1>1, <2>2
    <3> QED BY <3>1
  <2> QED BY <1>1, <2>1, <2>2
<1> HIDE DEF g
<1>8. ASSUME NEW y PROVE InQ(t, y) <=> InQ(q, y) /\ y # x
  <2>1. ASSUME InQ(t, y) PROVE InQ(q, y) /\ y # x
    <3>1. PICK j \in 1 .. n - 1 : t[j] = y
      BY <1>3, <2>1 DEF InQ
    <3>2. q[g(j)] = y /\ g(j) \in 1 .. n /\ g(j) # i
      BY <1>4, <1>5, <3>1
    <3> QED BY <1>1, <3>2 DEF InQ, Once, n
  <2>2. ASSUME InQ(q, y), y # x PROVE InQ(t, y)
    <3>1. PICK j \in 1 .. n : q[j] = y
      BY <2>2 DEF InQ, n
    <3>2. PICK a \in 1 .. n - 1 : g(a) = j
      BY <1>1, <1>7, <2>2, <3>1
    <3> QED BY <1>3, <1>4, <3>1, <3>2 DEF InQ
  <2> QED BY <2>1, <2>2
<1>9. Once(t)
  <2>1. ASSUME NEW a \in 1 .. n - 1, NEW b \in 1 .. n - 1, t[a] = t[b] PROVE a = b
    <3>1. q[g(a)] = q[g(b)]
      BY <1>4, <2>1
    <3>2. g(a) = g(b)
      BY <1>5, <3>1 DEF Once, n
    <3> QED BY <1>6, <3>2
  <2> QED BY <1>3, <2>1 DEF Once
<1> QED BY <1>3, <1>8, <1>9 DEF t, n

(* insertd() at place i. *)
LEMMA InsertAtQ ==
  ASSUME NEW S, NEW q \in Seq(S), NEW x \in S, ~InQ(q, x), Once(q),
         NEW i \in 1 .. Len(q) + 1
  PROVE  /\ InsertAt(q, i, x) \in Seq(S) /\ Once(InsertAt(q, i, x))
         /\ \A y : InQ(InsertAt(q, i, x), y) <=> InQ(q, y) \/ y = x
<1> DEFINE t == InsertAt(q, i, x)
           n == Len(q)
           g(j) == IF j < i THEN j ELSE j - 1
           h(j) == IF j < i THEN j ELSE j + 1
<1>1. n \in Nat /\ i \in 1 .. n + 1
  OBVIOUS
<1>2. /\ t \in Seq(S) /\ Len(t) = n + 1
      /\ \A j \in 1 .. n + 1 :
           t[j] = IF j < i THEN q[j] ELSE IF j = i THEN x ELSE q[j - 1]
  <2>1. /\ InsertAt(q, i, x) \in Seq(S) /\ Len(InsertAt(q, i, x)) = Len(q) + 1
        /\ \A j \in 1 .. Len(q) + 1 :
              InsertAt(q, i, x)[j] = IF j < i THEN q[j]
                                     ELSE IF j = i THEN x ELSE q[j - 1]
    BY InsertAtElements
  <2> QED BY <2>1
<1> HIDE DEF t
<1>3. t[i] = x /\ \A j \in 1 .. n + 1 : j # i => t[j] = q[g(j)]
  BY <1>1, <1>2
<1>4. \A j \in 1 .. n : t[h(j)] = q[j]
  BY <1>1, <1>2
<1> HIDE DEF n
<1>5. /\ \A j \in 1 .. n : h(j) \in 1 .. n + 1
      /\ \A j \in 1 .. n + 1 : j # i => g(j) \in 1 .. n
  BY <1>1
<1>6. \A a, b \in 1 .. n + 1 : (a # i /\ b # i /\ g(a) = g(b)) => a = b
  BY <1>1
<1> HIDE DEF g, h
<1>7. ASSUME NEW y PROVE InQ(t, y) <=> InQ(q, y) \/ y = x
  <2>1. ASSUME InQ(t, y), y # x PROVE InQ(q, y)
    <3>1. PICK j \in 1 .. n + 1 : t[j] = y
      BY <1>2, <2>1 DEF InQ
    <3> QED BY <1>3, <1>5, <2>1, <3>1 DEF InQ, n
  <2>2. ASSUME InQ(q, y) PROVE InQ(t, y)
    <3>1. PICK j \in 1 .. n : q[j] = y
      BY <2>2 DEF InQ, n
    <3> QED BY <1>2, <1>4, <1>5, <3>1 DEF InQ
  <2>3. InQ(t, x)
    BY <1>1, <1>2, <1>3 DEF InQ
  <2> QED BY <2>1, <2>2, <2>3
<1>8. Once(t)
  <2>1. ASSUME NEW a \in 1 .. n + 1, NEW b \in 1 .. n + 1, t[a] = t[b] PROVE a = b
    <3>1. \A j \in 1 .. n + 1 : j # i => t[j] # x
      BY <1>3, <1>5 DEF InQ, n
    <3>2. CASE a = i \/ b = i
      BY <1>3, <2>1, <3>1, <3>2
    <3>3. CASE a # i /\ b # i
      <4>1. q[g(a)] = q[g(b)] /\ g(a) \in 1 .. n /\ g(b) \in 1 .. n
        BY <1>3, <1>5, <2>1, <3>3
      <4>2. g(a) = g(b)
        BY <4>1 DEF Once, n
      <4> QED BY <1>6, <3>3, <4>2
    <3> QED BY <3>2, <3>3
  <2> QED BY <1>2, <2>1 DEF Once
<1> QED BY <1>2, <1>7, <1>8 DEF t

(* What is put before the first, and what is left without it.              *)
LEMMA PushQ ==
  ASSUME NEW S, NEW q \in Seq(S), NEW x \in S, ~InQ(q, x), Once(q)
  PROVE  /\ <<x>> \o q \in Seq(S) /\ Len(<<x>> \o q) = Len(q) + 1
         /\ Once(<<x>> \o q)
         /\ \A y : InQ(<<x>> \o q, y) <=> InQ(q, y) \/ y = x
<1> DEFINE t == <<x>> \o q
           n == Len(q)
<1>1. /\ t \in Seq(S) /\ Len(t) = n + 1 /\ n \in Nat /\ t[1] = x
      /\ \A i \in 1 .. n : t[i + 1] = q[i]
  OBVIOUS
<1> HIDE DEF t
<1>2. /\ \A i \in 1 .. n + 1 : i = 1 \/ (i - 1 \in 1 .. n /\ (i - 1) + 1 = i)
      /\ \A i \in 1 .. n : i + 1 \in 1 .. n + 1 /\ i + 1 # 1
      /\ 1 \in 1 .. n + 1
  BY <1>1
<1>3. \A i \in 1 .. n + 1 : i = 1 \/ (\E j \in 1 .. n : i = j + 1 /\ t[i] = q[j])
  <2> TAKE i \in 1 .. n + 1
  <2>1. CASE i = 1
    BY <2>1
  <2>2. CASE i - 1 \in 1 .. n /\ (i - 1) + 1 = i
    <3>1. t[i] = q[i - 1] /\ i = (i - 1) + 1
      BY <1>1, <2>2
    <3> QED BY <2>2, <3>1
  <2> QED BY <1>2, <2>1, <2>2
<1> HIDE DEF n
<1>4. ASSUME NEW y PROVE InQ(t, y) <=> InQ(q, y) \/ y = x
  <2>1. InQ(t, y) => InQ(q, y) \/ y = x
    BY <1>1, <1>3 DEF InQ, n
  <2>2. InQ(q, y) \/ y = x => InQ(t, y)
    BY <1>1, <1>2 DEF InQ, n
  <2> QED BY <2>1, <2>2
<1>5. Once(t)
  <2>1. ASSUME NEW i \in 1 .. n + 1, NEW j \in 1 .. n + 1, t[i] = t[j] PROVE i = j
    <3>1. \A a \in 1 .. n : q[a] # x
      BY DEF InQ, n
    <3>2. \A a, b \in 1 .. n : q[a] = q[b] => a = b
      BY DEF Once, n
    <3>3. i = 1 \/ (\E a \in 1 .. n : i = a + 1 /\ t[i] = q[a])
      BY <1>3
    <3>4. j = 1 \/ (\E b \in 1 .. n : j = b + 1 /\ t[j] = q[b])
      BY <1>3
    <3> QED BY <1>1, <2>1, <3>1, <3>2, <3>3, <3>4
  <2> QED BY <1>1, <2>1 DEF Once
<1> QED BY <1>1, <1>4, <1>5 DEF t, n

LEMMA SubSeqTail ==
  ASSUME NEW S, NEW q \in Seq(S), q # <<>>
  PROVE  SubSeq(q, 2, Len(q)) = Tail(q)
OBVIOUS

(* A queue that holds nobody twice is as long as the set of those it holds.*)
LEMMA OnceCardinality ==
  ASSUME NEW q, Len(q) \in Nat, DOMAIN q = 1 .. Len(q), Once(q)
  PROVE  IsFiniteSet(ToSet(q)) /\ Cardinality(ToSet(q)) = Len(q)
<1> DEFINE f == [i \in 1 .. Len(q) |-> q[i]]
<1>1. f \in Bijection(1 .. Len(q), ToSet(q))
  <2>1. f \in [1 .. Len(q) -> ToSet(q)]
    BY DEF ToSet
  <2>2. \A i, j \in 1 .. Len(q) : f[i] = f[j] => i = j
    BY DEF Once
  <2>3. \A y \in ToSet(q) : \E i \in 1 .. Len(q) : f[i] = y
    BY DEF ToSet
  <2> QED BY <2>1, <2>2, <2>3 DEF Bijection, Injection, Surjection, IsInjective
<1>2. ExistsBijection(1 .. Len(q), ToSet(q))
  BY <1>1 DEF ExistsBijection
<1>3. \A n \in Nat : IsFiniteSet(1 .. n) /\ Cardinality(1 .. n) = n
  <2>1. ASSUME NEW n \in Nat
        PROVE  IsFiniteSet(1 .. n) /\ Cardinality(1 .. n) = n
    <3>1. /\ IsFiniteSet(1 .. n)
          /\ Cardinality(1 .. n) = IF 1 > n THEN 0 ELSE n - 1 + 1
      <4>1. 1 \in Int /\ n \in Int
        BY ONLY n \in Nat
      <4> QED BY ONLY <4>1, FS_Interval
    <3>2. (IF 1 > n THEN 0 ELSE n - 1 + 1) = n
      BY ONLY n \in Nat
    <3> QED BY <3>1, <3>2
  <2> QED BY <2>1
<1> QED BY <1>2, <1>3, FS_Bijection

-----------------------------------------------------------------------------
(* Induction by the smallest counterexample: a set of numbers that is not  *)
(* empty has a smallest element.                                           *)
LEMMA Smallest ==
  ASSUME NEW N \in SUBSET Nat, N # {}
  PROVE  \E n \in N : \A m \in N : n <= m
<1> DEFINE T == {n \in Nat : \A m \in 0 .. n : m \notin N}
           c == Cardinality(T)
<1>1. PICK n0 \in N : TRUE
  OBVIOUS
<1>2. T \in SUBSET (0 .. n0)
  OBVIOUS
<1>3. IsFiniteSet(0 .. n0)
  BY FS_Interval
<1>4. IsFiniteSet(T) /\ c \in Nat
  <2> HIDE DEF T
  <2> QED BY <1>2, <1>3, FS_Subset, FS_CardinalityType
<1>5. ASSUME NEW j \in T PROVE j + 1 <= c
  <2>1. 0 .. j \in SUBSET T /\ j \in Nat
    OBVIOUS
  <2> HIDE DEF T
  <2>2. Cardinality(0 .. j) = j + 1
    BY <2>1, FS_Interval
  <2>3. Cardinality(0 .. j) <= c
    BY <1>4, <2>1, FS_Subset
  <2> QED BY <2>2, <2>3
<1>6. T = 0 .. c - 1
  <2>1. T \in SUBSET (0 .. c - 1)
    <3>1. T \in SUBSET Nat
      OBVIOUS
    <3> HIDE DEF T, c
    <3> QED BY <1>4, <1>5, <3>1
  <2> HIDE DEF T
  <2>2. \A n \in Nat : IsFiniteSet(0 .. n - 1) /\ Cardinality(0 .. n - 1) = n
    BY FS_Interval
  <2> QED BY <1>4, <2>1, <2>2, FS_Subset
<1>7. c \notin T /\ \A m \in 0 .. c - 1 : m \in T
  <2> HIDE DEF T, c
  <2> QED BY <1>4, <1>6
<1>8. \A m \in 0 .. c - 1 : m \notin N
  BY <1>7
<1>9. c \in N
  <2>1. PICK m \in 0 .. c : m \in N
    BY <1>4, <1>7
  <2> HIDE DEF T, c
  <2>2. m = c
    BY <1>4, <1>8, <2>1
  <2> QED BY <2>1, <2>2
<1> HIDE DEF T, c
<1> QED BY <1>4, <1>8, <1>9

(* Counting up from 0 to n without leaving P. *)
LEMMA CountUp ==
  ASSUME NEW n \in Nat, NEW P, 0 \in P, \A i \in 0 .. n - 1 : i \in P => i + 1 \in P
  PROVE  0 .. n \subseteq P
<1> SUFFICES ASSUME NEW x \in 0 .. n, x \notin P PROVE FALSE
  OBVIOUS
<1> DEFINE N == {i \in 0 .. n : i \notin P}
<1>1. PICK m \in N : \A i \in N : m <= i
  <2>1. N \in SUBSET Nat /\ N # {}
    OBVIOUS
  <2> HIDE DEF N
  <2> QED BY <2>1, Smallest
<1>2. m # 0 /\ m \in 0 .. n /\ m \notin P
  BY <1>1
<1>3. m - 1 \in 0 .. n - 1 /\ (m - 1) + 1 = m /\ ~(m <= m - 1) /\ m - 1 \in 0 .. n
  BY <1>2
<1>4. m - 1 \in P
  BY <1>1, <1>3
<1> QED BY <1>2, <1>3, <1>4

(* Places are counted queue by queue.                                      *)
LEMMA PlacesFinite ==
  ASSUME NEW S, IsFiniteSet(S), NEW P \in SUBSET S, NEW n \in [S -> Nat]
  PROVE  IsFiniteSet(Places(P, n))
<1> DEFINE C == {{q} \X (1 .. n[q]) : q \in P}
           g == [q \in P |-> {q} \X (1 .. n[q])]
<1>1. IsFiniteSet(P)
  BY FS_Subset
<1>2. g \in Surjection(P, C)
  BY DEF Surjection
<1>3. IsFiniteSet(C)
  <2> HIDE DEF C, g
  <2> QED BY <1>1, <1>2, FS_Surjection
<1>4. ASSUME NEW T \in C PROVE IsFiniteSet(T)
  <2>1. PICK q \in P : T = {q} \X (1 .. n[q])
    OBVIOUS
  <2>2. IsFiniteSet(1 .. n[q]) /\ IsFiniteSet({q})
    <3>1. 1 \in Int /\ n[q] \in Int
      OBVIOUS
    <3> QED BY <3>1, FS_Interval, FS_Singleton
  <2> QED BY <2>1, <2>2, FS_Product
<1> HIDE DEF C, g
<1>5. IsFiniteSet(UNION C)
  BY <1>3, <1>4, FS_UNION
<1> QED BY <1>5 DEF C, Places

LEMMA PlacesChange ==
  ASSUME NEW S, IsFiniteSet(S), NEW n \in [S -> Nat], NEW m \in [S -> Nat], NEW q \in S,
         \A r \in S \ {q} : m[r] = n[r]
  PROVE  /\ Cardinality(Places(S, n)) \in Nat /\ Cardinality(Places(S, m)) \in Nat
         /\ Cardinality(Places(S, m)) = Cardinality(Places(S, n)) - n[q] + m[q]
<1> DEFINE R == UNION {{r} \X (1 .. n[r]) : r \in S \ {q}}
<1>1. IsFiniteSet(R) /\ Cardinality(R) \in Nat
  <2>1. S \ {q} \in SUBSET S
    OBVIOUS
  <2>2. IsFiniteSet(Places(S \ {q}, n))
    BY <2>1, PlacesFinite
  <2>3. IsFiniteSet(R)
    BY <2>2 DEF Places
  <2> QED BY <2>3, FS_CardinalityType
<1>2. ASSUME NEW k \in [S -> Nat], \A r \in S \ {q} : k[r] = n[r]
      PROVE  Cardinality(Places(S, k)) = Cardinality(R) + k[q]
  <2> DEFINE Q == {q} \X (1 .. k[q])
  <2>1. Places(S, k) = R \cup Q
    <3>1. ASSUME NEW y \in Places(S, k) PROVE y \in R \cup Q
      <4>1. PICK r \in S : y \in {r} \X (1 .. k[r])
        BY <3>1 DEF Places
      <4> QED BY <1>2, <4>1
    <3>2. ASSUME NEW y \in R PROVE y \in Places(S, k)
      <4>1. PICK r \in S \ {q} : y \in {r} \X (1 .. n[r])
        BY <3>2
      <4> QED BY <1>2, <4>1 DEF Places
    <3>3. ASSUME NEW y \in Q PROVE y \in Places(S, k)
      BY <3>3 DEF Places
    <3> QED BY <3>1, <3>2, <3>3
  <2>2. R \cap Q = {}
    OBVIOUS
  <2>3. IsFiniteSet(Q) /\ Cardinality(Q) = k[q]
    <3>1. k[q] \in Int /\ k[q] >= 0
      OBVIOUS
    <3>2. IsFiniteSet(1 .. k[q]) /\ Cardinality(1 .. k[q]) = k[q]
      BY <3>1, FS_Interval
    <3>3. IsFiniteSet({q}) /\ Cardinality({q}) = 1
      BY FS_Singleton
    <3>4. IsFiniteSet(Q) /\ Cardinality(Q) = Cardinality({q}) * Cardinality(1 .. k[q])
      BY <3>2, <3>3, FS_Product
    <3> QED BY <3>1, <3>2, <3>3, <3>4
  <2> HIDE DEF R, Q
  <2>4. Cardinality(R \cup Q) = Cardinality(R) + Cardinality(Q) - Cardinality(R \cap Q)
    BY <1>1, <2>3, FS_Union
  <2>5. Cardinality(R \cap Q) = 0
    BY <2>2, FS_EmptySet
  <2> QED BY <1>1, <2>1, <2>3, <2>4, <2>5
<1> HIDE DEF R
<1>3. Cardinality(Places(S, n)) = Cardinality(R) + n[q] /\ Cardinality(Places(S, m)) = Cardinality(R) + m[q]
  BY <1>2
<1> QED BY <1>1, <1>3

(* Of two numbers of places one of which holds the other, and more.        *)
LEMMA PlacesMore ==
  ASSUME NEW S, IsFiniteSet(S), NEW n \in [S -> Nat], NEW m \in [S -> Nat], \A r \in S : n[r] <= m[r],
         NEW q \in S, n[q] < m[q]
  PROVE  Cardinality(Places(S, n)) < Cardinality(Places(S, m))
<1>1. Places(S, n) \in SUBSET Places(S, m)
  <2> SUFFICES ASSUME NEW y \in Places(S, n) PROVE y \in Places(S, m)
    OBVIOUS
  <2>1. PICK r \in S : y \in {r} \X (1 .. n[r])
    BY DEF Places
  <2>2. 1 .. n[r] \subseteq 1 .. m[r]
    OBVIOUS
  <2> QED BY <2>1, <2>2 DEF Places
<1>2. <<q, m[q]>> \in Places(S, m) /\ <<q, m[q]>> \notin Places(S, n)
  <2>1. <<q, m[q]>> \in {q} \X (1 .. m[q])
    OBVIOUS
  <2>2. ASSUME NEW r \in S, <<q, m[q]>> \in {r} \X (1 .. n[r]) PROVE FALSE
    BY <2>2
  <2> QED BY <2>1, <2>2 DEF Places
<1>3. IsFiniteSet(Places(S, m))
  <2>1. S \in SUBSET S
    OBVIOUS
  <2> QED BY <2>1, PlacesFinite
<1>4. Cardinality(Places(S, n)) <= Cardinality(Places(S, m)) /\ Cardinality(Places(S, n)) # Cardinality(Places(S, m))
  BY <1>1, <1>2, <1>3, FS_Subset
<1>5. Cardinality(Places(S, n)) \in Nat /\ Cardinality(Places(S, m)) \in Nat
  BY <1>1, <1>3, FS_Subset, FS_CardinalityType
<1> QED BY <1>4, <1>5

(* A place in a ring of n, c places behind the place h.                    *)
LEMMA RingModulo ==
  ASSUME NEW n \in Nat \ {0}, NEW h \in 0 .. n - 1, NEW c \in 0 .. n
  PROVE  (h + c) % n = IF h + c < n THEN h + c ELSE h + c - n
<1>1. CASE h + c < n
  BY <1>1
<1>2. CASE ~(h + c < n)
  <2>1. PICK x \in 0 .. n - 1 : h + c = n + x
    BY <1>2
  <2>2. (n + x) % n = x
    OBVIOUS
  <2> QED BY <1>2, <2>1, <2>2
<1> QED BY <1>1, <1>2

-----------------------------------------------------------------------------
(* insert() finds its place: the CHOOSE of InsertPos is never vacuous. *)
LEMMA InsertPosExists ==
  ASSUME NEW q \in Seq(Pid), NEW key \in [Pid -> Nat], NEW kp \in Nat
  PROVE  /\ InsertPos(q, key, kp) \in 1 .. Len(q) + 1
         /\ \A j \in 1 .. InsertPos(q, key, kp) - 1 : key[q[j]] >= kp
         /\ InsertPos(q, key, kp) <= Len(q)
              => key[q[InsertPos(q, key, kp)]] < kp
<1> DEFINE T == {j \in 1 .. Len(q) : \A m \in 1 .. j : key[q[m]] >= kp}
           c == Cardinality(T)
<1>0. c = Cardinality(T) /\ T \in SUBSET (1 .. Len(q)) /\ Len(q) \in Nat
  OBVIOUS
<1>a. /\ IsFiniteSet(1 .. Len(q)) /\ Cardinality(1 .. Len(q)) = Len(q)
  BY <1>0, FS_Interval
<1>1. IsFiniteSet(T) /\ c \in Nat /\ c <= Len(q)
  <2> HIDE DEF T, c
  <2> QED BY <1>0, <1>a, FS_Subset, FS_CardinalityType
<1>2. ASSUME NEW j \in T PROVE j \in 1 .. c
  <2>1. 1 .. j \in SUBSET T /\ j \in Nat
    BY <1>2
  <2>2. IsFiniteSet(1 .. j) /\ Cardinality(1 .. j) = j
    BY <2>1, FS_Interval
  <2>3. j >= 1
    BY <1>0, <1>2
  <2> HIDE DEF T, c
  <2>4. Cardinality(1 .. j) <= Cardinality(T)
    BY <1>1, <2>1, FS_Subset
  <2>5. j <= c
    BY <1>0, <2>2, <2>4
  <2> QED BY <1>1, <2>1, <2>3, <2>5
<1>3. T = 1 .. c
  <2>1. IsFiniteSet(1 .. c) /\ Cardinality(1 .. c) = c
    BY <1>1, FS_Interval
  <2>2. T \in SUBSET (1 .. c)
    BY <1>2
  <2> HIDE DEF T, c
  <2> QED BY <1>0, <2>1, <2>2, FS_Subset
<1>4. \A j \in 1 .. c : key[q[j]] >= kp
  <2>1. ASSUME NEW j \in 1 .. c PROVE key[q[j]] >= kp
    <3>1. j \in T
      BY <1>3
    <3> QED BY <3>1
  <2> QED BY <2>1
<1>5. c + 1 <= Len(q) => key[q[c + 1]] < kp
  <2>1. c + 1 \notin T
    <3> HIDE DEF T, c
    <3> QED BY <1>1, <1>3
  <2>2. ASSUME c + 1 <= Len(q) PROVE key[q[c + 1]] < kp
    <3>1. c + 1 \in 1 .. Len(q)
      BY <1>1, <2>2
    <3>2. PICK m \in 1 .. c + 1 : ~(key[q[m]] >= kp)
      BY <2>1, <3>1
    <3>a. m \notin 1 .. c
      BY <1>4, <3>2
    <3>3. m = c + 1
      <4> HIDE DEF T, c
      <4> QED BY <1>1, <3>a
    <3>4. q[c + 1] \in Pid
      BY <3>1
    <3>5. key[q[c + 1]] \in Nat
      BY <3>4
    <3> QED BY <3>2, <3>3, <3>5
  <2> QED BY <2>2
<1>6. c + 1 \in 1 .. Len(q) + 1
  BY <1>1
<1> HIDE DEF T, c
<1>7. \E i \in 1 .. Len(q) + 1 :
        /\ \A j \in 1 .. i - 1 : key[q[j]] >= kp
        /\ i <= Len(q) => key[q[i]] < kp
  <2> WITNESS c + 1 \in 1 .. Len(q) + 1
  <2> QED BY <1>1, <1>4, <1>5
<1> QED BY <1>7 DEF InsertPos

-----------------------------------------------------------------------------
(* ready() up to its resched(): a process that is not on the ready list is *)
(* put on it, and the list stays exact and sorted.                         *)
LEMMA MakeReadyPre ==
  ASSUME NEW k, SchedPre(k), NEW p \in Pid, k.prstate[p] # "READY"
  PROVE  /\ SchedPre(MakeReady(k, p))
         /\ MakeReady(k, p).readylist # <<>>
         /\ MakeReady(k, p).prstate = [k.prstate EXCEPT ![p] = "READY"]
         /\ MakeReady(k, p).currpid = k.currpid
         /\ MakeReady(k, p).prprio = k.prprio
         /\ MakeReady(k, p).ndefers = k.ndefers
<1> DEFINE q   == k.readylist
           kp  == k.prprio[p]
           i   == InsertPos(q, k.qkey, kp)
           m   == MakeReady(k, p)
           new == InsertAt(q, i, p)
<1>1. /\ q \in Seq(Pid) /\ k.qkey \in [Pid -> Nat] /\ kp \in Nat
      /\ Len(q) \in Nat
  BY DEF SchedPre, SchedType
<1>2. /\ i \in 1 .. Len(q) + 1
      /\ \A j \in 1 .. i - 1 : k.qkey[q[j]] >= kp
      /\ i <= Len(q) => k.qkey[q[i]] < kp
  <2> HIDE DEF q, kp
  <2> QED BY <1>1, InsertPosExists
<1>3. /\ new \in Seq(Pid) /\ Len(new) = Len(q) + 1
      /\ \A j \in 1 .. Len(q) + 1 :
            new[j] = IF j < i THEN q[j] ELSE IF j = i THEN p ELSE q[j - 1]
  <2> HIDE DEF q, i
  <2> QED BY <1>1, <1>2, InsertAtElements
<1>4. /\ m = [k EXCEPT !.prstate = [k.prstate EXCEPT ![p] = "READY"],
                       !.readylist = new,
                       !.qkey = [k.qkey EXCEPT ![p] = kp]]
  BY DEF MakeReady, SchedPre, SchedType
<1> HIDE DEF q, kp, i, m, new
<1>5. /\ m.prstate = [k.prstate EXCEPT ![p] = "READY"]
      /\ m.readylist = new
      /\ m.qkey = [k.qkey EXCEPT ![p] = kp]
      /\ m.currpid = k.currpid /\ m.prprio = k.prprio
      /\ m.ndefers = k.ndefers
  BY <1>4 DEF SchedPre, SchedType
<1>6. SchedType(m)
  BY <1>1, <1>3, <1>4 DEF SchedPre, SchedType, PrState
<1>7. OnlyCurrentRuns(m) /\ NullEligible(m)
  BY <1>5 DEF SchedPre, SchedType, OnlyCurrentRuns, NullEligible, PrState
<1>8. \A j \in 1 .. Len(q) : q[j] \in Pid /\ q[j] # p /\ k.prstate[q[j]] = "READY"
  BY <1>1 DEF SchedPre, ReadyListExact, q
<1>a. ASSUME NEW j \in 1 .. Len(q) + 1, j > i
      PROVE  new[j] = q[j - 1] /\ j - 1 \in 1 .. Len(q)
  <2>1. j \in Int /\ i \in Int /\ ~(j < i) /\ j # i
    BY <1>1, <1>2, <1>a
  <2>2. new[j] = q[j - 1]
    BY <1>3, <2>1
  <2>3. j - 1 \in 1 .. Len(q)
    BY <1>1, <1>2, <1>a
  <2> QED BY <2>2, <2>3
<1>b. ASSUME NEW j \in 1 .. Len(q) + 1, j < i
      PROVE  new[j] = q[j] /\ j \in 1 .. Len(q)
  <2>1. j \in 1 .. Len(q)
    BY <1>1, <1>2, <1>b
  <2> QED BY <1>3, <1>b, <2>1
<1>c. new[i] = p /\ i \in Int
  <2>1. i \in 1 .. Len(q) + 1 /\ i \in Int /\ ~(i < i)
    BY <1>1, <1>2
  <2> QED BY <1>3, <2>1
<1>9. ReadyListExact(m)
  <2>1. ASSUME NEW x \in Pid, m.prstate[x] = "READY"
        PROVE  \E j \in 1 .. Len(new) : new[j] = x
    <3>1. CASE x = p
      BY <1>1, <1>2, <1>3, <3>1
    <3>2. CASE x # p
      <4>1. PICK j \in 1 .. Len(q) : q[j] = x
        BY <1>5, <2>1, <3>2 DEF SchedPre, SchedType, ReadyListExact, q
      <4>2. CASE j < i
        <5>1. j \in 1 .. Len(q) + 1 /\ j \in 1 .. Len(new)
          BY <1>1, <1>3
        <5>2. new[j] = q[j]
          BY <1>b, <4>2, <5>1
        <5> QED BY <4>1, <5>1, <5>2
      <4>3. CASE j >= i
        <5>1. /\ j + 1 \in 1 .. Len(q) + 1 /\ j + 1 > i /\ (j + 1) - 1 = j
              /\ j + 1 \in 1 .. Len(new)
          BY <1>1, <1>2, <1>3, <4>3
        <5>2. new[j + 1] = q[j]
          BY <1>a, <5>1
        <5> QED BY <4>1, <5>1, <5>2
      <4> QED BY <1>2, <4>2, <4>3
    <3> QED BY <3>1, <3>2
  <2>2. ASSUME NEW x \in Pid, NEW j \in 1 .. Len(new), new[j] = x
        PROVE  m.prstate[x] = "READY"
    <3>1. x = p \/ \E l \in 1 .. Len(q) : q[l] = x
      <4>0. j \in 1 .. Len(q) + 1 /\ j \in Int /\ i \in Int /\ new[j] = x
        BY <1>1, <1>2, <1>3, <2>2
      <4>1. CASE j < i
        <5> QED BY <1>b, <4>0, <4>1
      <4>2. CASE j = i
        <5>1. ~(j < i)
          BY <4>0, <4>2
        <5> QED BY <1>3, <4>0, <4>2, <5>1
      <4>3. CASE j > i
        <5>1. j \in 1 .. Len(q) + 1 /\ new[j] = x
          BY <4>0
        <5>2. new[j] = q[j - 1] /\ j - 1 \in 1 .. Len(q)
          BY <1>a, <4>3, <5>1
        <5> QED BY <5>1, <5>2
      <4> QED BY <4>0, <4>1, <4>2, <4>3
    <3> QED BY <1>5, <1>8, <3>1 DEF SchedPre, SchedType
  <2>3. ASSUME NEW a \in 1 .. Len(new), NEW b \in 1 .. Len(new), new[a] = new[b]
        PROVE  a = b
    <3>1. \A c, d \in 1 .. Len(q) : q[c] = q[d] => c = d
      BY DEF SchedPre, ReadyListExact, q
    <3>2. \A c \in 1 .. Len(new) : new[c] = p => c = i
      <4> SUFFICES ASSUME NEW c \in 1 .. Len(q) + 1, new[c] = p, c # i
                   PROVE  FALSE
        BY <1>3
      <4>1. CASE c < i
        <5>1. new[c] = q[c] /\ c \in 1 .. Len(q)
          BY <1>b, <4>1
        <5> QED BY <1>8, <5>1
      <4>2. CASE c > i
        <5>1. new[c] = q[c - 1] /\ c - 1 \in 1 .. Len(q)
          BY <1>a, <4>2
        <5> QED BY <1>8, <5>1
      <4> QED BY <1>2, <4>1, <4>2
    <3>3. CASE new[a] = p
      BY <2>3, <3>2, <3>3
    <3>4. CASE new[a] # p
      <4>1. new[i] = p
        BY <1>1, <1>2, <1>3
      <4>2. a # i /\ b # i
        BY <2>3, <3>4, <4>1
      <4> DEFINE f(c) == IF c < i THEN c ELSE c - 1
      <4>3. f(a) \in 1 .. Len(q) /\ f(b) \in 1 .. Len(q)
        BY <1>1, <1>2, <1>3, <4>2
      <4>4. new[a] = q[f(a)] /\ new[b] = q[f(b)]
        BY <1>1, <1>2, <1>3, <4>2
      <4>5. f(a) = f(b)
        BY <2>3, <3>1, <4>3, <4>4
      <4> QED BY <1>2, <4>2, <4>5
    <3> QED BY <3>3, <3>4
  <2> QED BY <1>5, <2>1, <2>2, <2>3 DEF ReadyListExact
<1>10. ReadySorted(m)
  <2>1. \A j \in 1 .. Len(q) : k.qkey[q[j]] \in Nat /\ m.qkey[q[j]] = k.qkey[q[j]]
    BY <1>1, <1>5, <1>8
  <2>2. m.qkey[p] = kp
    BY <1>1, <1>5
  <2>3. \A c, d \in 1 .. Len(q) : c < d => k.qkey[q[c]] >= k.qkey[q[d]]
    BY DEF SchedPre, ReadySorted, q
  <2>4. ASSUME NEW a \in 1 .. Len(new), NEW b \in 1 .. Len(new), a < b
        PROVE  m.qkey[new[a]] >= m.qkey[new[b]]
    <3>1. CASE b < i
      <4>0. a \in 1 .. Len(q) + 1 /\ b \in 1 .. Len(q) + 1 /\ a < i
        BY <1>1, <1>2, <1>3, <2>4, <3>1
      <4>1. new[a] = q[a] /\ new[b] = q[b] /\ a \in 1 .. Len(q) /\ b \in 1 .. Len(q)
        BY <1>b, <3>1, <4>0
      <4> QED BY <2>1, <2>3, <2>4, <4>1
    <3>2. CASE b = i
      <4>1. new[a] = q[a] /\ new[b] = p /\ a \in 1 .. Len(q) /\ a \in 1 .. i - 1
        BY <1>1, <1>2, <1>3, <2>4, <3>2
      <4> QED BY <1>2, <2>1, <2>2, <4>1
    <3>3. CASE a = i
      <4>1. new[a] = p /\ new[b] = q[b - 1] /\ b - 1 \in 1 .. Len(q) /\ i <= b - 1
            /\ i \in 1 .. Len(q)
        BY <1>1, <1>2, <1>3, <2>4, <3>3
      <4>2. k.qkey[q[i]] >= k.qkey[q[b - 1]]
        <5>1. CASE i = b - 1
          BY <2>1, <4>1, <5>1
        <5>2. CASE i < b - 1
          BY <2>3, <4>1, <5>2
        <5> QED BY <1>2, <4>1, <5>1, <5>2
      <4>3. k.qkey[q[i]] < kp
        BY <1>2, <4>1
      <4>a. k.qkey[q[i]] \in Nat /\ k.qkey[q[b - 1]] \in Nat
        BY <2>1, <4>1
      <4>b. \A x, y, z \in Nat : x >= y /\ x < z => z >= y
        OBVIOUS
      <4>c. kp \in Nat
        BY <1>1
      <4>4. kp >= k.qkey[q[b - 1]]
        BY <4>2, <4>3, <4>a, <4>b, <4>c
      <4> QED BY <2>1, <2>2, <4>1, <4>4
    <3>4. CASE a < i /\ b > i
      <4>1. /\ new[a] = q[a] /\ new[b] = q[b - 1]
            /\ a \in 1 .. Len(q) /\ b - 1 \in 1 .. Len(q) /\ a < b - 1
        BY <1>1, <1>2, <1>3, <2>4, <3>4
      <4> QED BY <2>1, <2>3, <4>1
    <3>5. CASE a > i
      <4>1. /\ new[a] = q[a - 1] /\ new[b] = q[b - 1]
            /\ a - 1 \in 1 .. Len(q) /\ b - 1 \in 1 .. Len(q) /\ a - 1 < b - 1
        BY <1>1, <1>2, <1>3, <2>4, <3>5
      <4> QED BY <2>1, <2>3, <4>1
    <3> QED BY <1>2, <2>4, <3>1, <3>2, <3>3, <3>4, <3>5
  <2> QED BY <1>5, <2>4 DEF ReadySorted
<1>11. new # <<>>
  BY <1>1, <1>3
<1> QED BY <1>5, <1>6, <1>7, <1>9, <1>10, <1>11 DEF SchedPre, m

(* While the current process is not eligible the null process is ready, so *)
(* dequeue(readylist) never returns EMPTY.                                 *)
LEMMA SomebodyReady ==
  ASSUME NEW k, SchedPre(k), k.prstate[k.currpid] # "CURR"
  PROVE  k.readylist # <<>>
<1>0. NULLPROC \in Pid
  BY SchedAssumption DEF Pid, NULLPROC
<1>1. k.prstate[NULLPROC] = "READY"
  BY <1>0 DEF SchedPre, NullEligible, OnlyCurrentRuns
<1>2. PICK i \in 1 .. Len(k.readylist) : k.readylist[i] = NULLPROC
  BY <1>0, <1>1 DEF SchedPre, ReadyListExact
<1> QED BY <1>2

LEMMA DispatchInv ==
  ASSUME NEW k, SchedPre(k), k.readylist # <<>>,
         k.prstate[k.currpid] # "CURR"
  PROVE  /\ SchedInv(Dispatch(k))
         /\ Dispatch(k).currpid \in Pid
         /\ k.prstate[Dispatch(k).currpid] = "READY"
         /\ Dispatch(k).prstate = [k.prstate EXCEPT ![Dispatch(k).currpid] = "CURR"]
         /\ Dispatch(k).prprio = k.prprio
         /\ Dispatch(k).ndefers = k.ndefers
<1> DEFINE q == k.readylist
           h == Head(q)
           t == Tail(q)
           d == Dispatch(k)
<1>1. /\ q \in Seq(Pid) /\ k.qkey \in [Pid -> Nat] /\ Len(q) \in Nat /\ q # <<>>
      /\ k.prstate \in [Pid -> PrState] /\ k.currpid \in Pid
  BY DEF SchedPre, SchedType
<1>2. /\ h \in Pid /\ h = q[1] /\ 1 \in 1 .. Len(q)
      /\ t \in Seq(Pid) /\ Len(t) = Len(q) - 1
      /\ \A j \in 1 .. Len(t) : t[j] = q[j + 1] /\ j + 1 \in 1 .. Len(q)
  <2> HIDE DEF q
  <2> QED BY <1>1
<1>3. d = [k EXCEPT !.currpid = h,
                    !.prstate = [k.prstate EXCEPT ![h] = "CURR"],
                    !.readylist = t,
                    !.preempt = QUANTUM]
  BY DEF Dispatch, SchedPre, SchedType
<1>4. /\ d.prstate = [k.prstate EXCEPT ![h] = "CURR"]
      /\ d.readylist = t /\ d.qkey = k.qkey /\ d.currpid = h
      /\ d.prprio = k.prprio /\ d.ndefers = k.ndefers
  <2> HIDE DEF h, t, d
  <2> QED BY <1>3 DEF SchedPre, SchedType
<1> HIDE DEF h, t, d
<1>5. SchedType(d)
  <2>1. QUANTUM \in 1 .. QUANTUM
    BY SchedAssumption
  <2>2. [k.prstate EXCEPT ![h] = "CURR"] \in [Pid -> PrState]
    BY <1>1 DEF PrState
  <2> QED BY <1>2, <1>3, <2>1, <2>2 DEF SchedPre, SchedType
<1> HIDE DEF q
<1>6. k.prstate[h] = "READY"
  BY <1>1, <1>2 DEF SchedPre, ReadyListExact, q
<1>7. /\ OnlyCurrentRuns(d) /\ NullEligible(d) /\ d.prstate[d.currpid] = "CURR"
  BY <1>1, <1>2, <1>4 DEF SchedPre, OnlyCurrentRuns, NullEligible, PrState
<1>8. \A a, b \in 1 .. Len(q) : q[a] = q[b] => a = b
  BY DEF SchedPre, ReadyListExact, q
<1>9. ReadyListExact(d)
  <2>1. ASSUME NEW x \in Pid, d.prstate[x] = "READY"
        PROVE  \E j \in 1 .. Len(t) : t[j] = x
    <3>1. x # h /\ k.prstate[x] = "READY"
      BY <1>1, <1>2, <1>4, <2>1
    <3>2. PICK j \in 1 .. Len(q) : q[j] = x
      BY <3>1 DEF SchedPre, ReadyListExact, q
    <3>3. j # 1
      BY <1>2, <3>1, <3>2
    <3>4. j - 1 \in 1 .. Len(t) /\ (j - 1) + 1 = j
      BY <1>1, <1>2, <3>3
    <3>5. t[j - 1] = q[j]
      BY <1>2, <3>4
    <3> QED BY <3>2, <3>4, <3>5
  <2>2. ASSUME NEW x \in Pid, NEW j \in 1 .. Len(t), t[j] = x
        PROVE  d.prstate[x] = "READY"
    <3>1. q[j + 1] = x /\ j + 1 \in 1 .. Len(q) /\ j + 1 # 1
      BY <1>2, <2>2
    <3>2. x # h
      BY <1>2, <1>8, <3>1
    <3>3. k.prstate[x] = "READY"
      BY <3>1 DEF SchedPre, ReadyListExact, q
    <3> QED BY <1>1, <1>4, <3>2, <3>3
  <2>3. ASSUME NEW a \in 1 .. Len(t), NEW b \in 1 .. Len(t), t[a] = t[b]
        PROVE  a = b
    <3>1. a + 1 = b + 1
      BY <1>2, <1>8, <2>3
    <3> QED BY <3>1
  <2> QED BY <1>4, <2>1, <2>2, <2>3 DEF ReadyListExact
<1>10. ReadySorted(d)
  <2>1. ASSUME NEW a \in 1 .. Len(t), NEW b \in 1 .. Len(t), a < b
        PROVE  d.qkey[t[a]] >= d.qkey[t[b]]
    <3>1. t[a] = q[a + 1] /\ t[b] = q[b + 1] /\ a + 1 < b + 1
          /\ a + 1 \in 1 .. Len(q) /\ b + 1 \in 1 .. Len(q)
      BY <1>2, <2>1
    <3>2. k.qkey[q[a + 1]] >= k.qkey[q[b + 1]]
      BY <3>1 DEF SchedPre, ReadySorted, q
    <3> QED BY <1>4, <3>1, <3>2
  <2> QED BY <1>4, <2>1 DEF ReadySorted
<1> QED BY <1>2, <1>4, <1>5, <1>6, <1>7, <1>9, <1>10 DEF SchedInv, SchedPre, d

(* A predicate of two scheduler states: the second is the first after      *)
(* nothing but a change of the processes' places on the CPU and the list.  *)
SameButRunning(k, m) ==
  /\ m.prprio = k.prprio
  /\ m.ndefers = k.ndefers
  /\ \A p \in Pid :
       IF k.prstate[p] \in {"CURR", "READY"}
       THEN m.prstate[p] \in {"CURR", "READY"} ELSE m.prstate[p] = k.prstate[p]

(* resched() past its test of Defer: from any state in which a system call *)
(* may call it, it leaves exactly one running process and an exact list.   *)
LEMMA SwitchInv ==
  ASSUME NEW k, SchedPre(k)
  PROVE  SchedInv(Switch(k)) /\ SameButRunning(k, Switch(k))
<1>1. CASE KeepsCPU(k)
  BY <1>1 DEF Switch, KeepsCPU, SchedInv, SchedPre, SameButRunning
<1>2. CASE ~KeepsCPU(k) /\ k.prstate[k.currpid] = "CURR"
  <2> DEFINE m == MakeReady(k, k.currpid)
  <2>1. k.currpid \in Pid /\ k.prstate \in [Pid -> PrState]
    BY DEF SchedPre, SchedType
  <2>2. /\ SchedPre(m) /\ m.readylist # <<>>
        /\ m.prstate = [k.prstate EXCEPT ![k.currpid] = "READY"]
        /\ m.currpid = k.currpid /\ m.prprio = k.prprio /\ m.ndefers = k.ndefers
    BY <1>2, <2>1, MakeReadyPre
  <2>3. Switch(k) = Dispatch(m)
    BY <1>2 DEF Switch
  <2> HIDE DEF m
  <2>4. m.prstate[m.currpid] # "CURR"
    BY <2>1, <2>2
  <2> DEFINE d == Dispatch(m)
  <2>5. /\ SchedInv(d) /\ d.currpid \in Pid /\ m.prstate[d.currpid] = "READY"
        /\ d.prstate = [m.prstate EXCEPT ![d.currpid] = "CURR"]
        /\ d.prprio = m.prprio /\ d.ndefers = m.ndefers
    BY <2>2, <2>4, DispatchInv
  <2> HIDE DEF d
  <2>6. SameButRunning(k, d)
    <3>1. ASSUME NEW p \in Pid
          PROVE  IF k.prstate[p] \in {"CURR", "READY"}
                 THEN d.prstate[p] \in {"CURR", "READY"}
                 ELSE d.prstate[p] = k.prstate[p]
      BY <1>2, <2>1, <2>2, <2>5
    <3> QED BY <2>2, <2>5, <3>1 DEF SameButRunning
  <2> QED BY <2>3, <2>5, <2>6 DEF d
<1>3. CASE ~KeepsCPU(k) /\ k.prstate[k.currpid] # "CURR"
  <2>1. k.readylist # <<>>
    BY <1>3, SomebodyReady
  <2> DEFINE d == Dispatch(k)
  <2>2. /\ SchedInv(d) /\ d.currpid \in Pid /\ k.prstate[d.currpid] = "READY"
        /\ d.prstate = [k.prstate EXCEPT ![d.currpid] = "CURR"]
        /\ d.prprio = k.prprio /\ d.ndefers = k.ndefers
    BY <1>3, <2>1, DispatchInv
  <2>3. Switch(k) = d
    BY <1>3 DEF Switch
  <2> HIDE DEF d
  <2>4. SameButRunning(k, d)
    <3>1. k.prstate \in [Pid -> PrState]
      BY DEF SchedPre, SchedType
    <3> QED BY <2>2, <3>1 DEF SameButRunning
  <2> QED BY <2>2, <2>3, <2>4
<1> QED BY <1>1, <1>2, <1>3

(* resched(), deferred or not.  A deferred section never blocks its caller.*)
LEMMA ReschedInv ==
  ASSUME NEW k, SchedPre(k), k.ndefers > 0 => k.prstate[k.currpid] = "CURR"
  PROVE  SchedInv(Resched(k)) /\ SameButRunning(k, Resched(k))
<1>1. CASE k.ndefers > 0
  <2> DEFINE m == Resched(k)
  <2>1. m = [k EXCEPT !.attempt = TRUE]
    BY <1>1 DEF Resched
  <2>2. SchedType(m)
    BY <2>1 DEF SchedPre, SchedType
  <2>3. /\ m.prstate = k.prstate /\ m.currpid = k.currpid /\ m.prprio = k.prprio
        /\ m.readylist = k.readylist /\ m.qkey = k.qkey /\ m.ndefers = k.ndefers
    BY <2>1 DEF SchedPre, SchedType
  <2> HIDE DEF m
  <2> QED BY <1>1, <2>2, <2>3
          DEF SchedInv, SchedPre, SameButRunning, OnlyCurrentRuns,
              ReadyListExact, ReadySorted, NullEligible, m
<1>2. CASE ~(k.ndefers > 0)
  BY <1>2, SwitchInv DEF Resched
<1> QED BY <1>1, <1>2

(* ready(p), of a process that is neither running nor ready. *)
LEMMA ReadyInv ==
  ASSUME NEW k, SchedInv(k), NEW p \in Pid, k.prstate[p] \notin {"CURR", "READY"}
  PROVE  /\ SchedInv(Ready(k, p))
         /\ Ready(k, p).prprio = k.prprio
         /\ Ready(k, p).ndefers = k.ndefers
         /\ Ready(k, p).prstate[p] \in {"CURR", "READY"}
         /\ \A x \in Pid \ {p} :
              IF k.prstate[x] \in {"CURR", "READY"}
              THEN Ready(k, p).prstate[x] \in {"CURR", "READY"}
              ELSE Ready(k, p).prstate[x] = k.prstate[x]
<1> DEFINE m == MakeReady(k, p)
<1>1. SchedPre(k) /\ k.prstate[k.currpid] = "CURR" /\ k.prstate[p] # "READY"
  BY DEF SchedInv
<1>2. /\ SchedPre(m) /\ m.prstate = [k.prstate EXCEPT ![p] = "READY"]
      /\ m.currpid = k.currpid /\ m.prprio = k.prprio /\ m.ndefers = k.ndefers
  BY <1>1, MakeReadyPre
<1> HIDE DEF m
<1>3. k.prstate \in [Pid -> PrState] /\ k.currpid \in Pid
  BY <1>1 DEF SchedPre, SchedType
<1>4. m.prstate[m.currpid] = "CURR"
  BY <1>1, <1>2, <1>3
<1>5. SchedInv(Resched(m)) /\ SameButRunning(m, Resched(m))
  BY <1>2, <1>4, ReschedInv
<1>6. Ready(k, p) = Resched(m)
  BY DEF Ready, m
<1> HIDE DEF SchedInv
<1> QED BY <1>2, <1>3, <1>5, <1>6 DEF SameButRunning

(* A change of state of a process that is not ready and does not become so:*)
(* the current one before it blocks, or a blocked one.                     *)
LEMMA SetStatePre ==
  ASSUME NEW k, SchedPre(k), NEW p \in Pid, p # NULLPROC,
         NEW s \in PrState \ {"CURR", "READY"}, k.prstate[p] # "READY"
  PROVE  SchedPre([k EXCEPT !.prstate[p] = s])
<1> DEFINE m == [k EXCEPT !.prstate[p] = s]
<1>1. /\ m.prstate = [k.prstate EXCEPT ![p] = s] /\ m.currpid = k.currpid
      /\ m.readylist = k.readylist /\ m.qkey = k.qkey
  BY DEF SchedPre, SchedType
<1>2. SchedType(m)
  BY DEF SchedPre, SchedType
<1>3. k.prstate \in [Pid -> PrState]
  BY DEF SchedPre, SchedType
<1> HIDE DEF m
<1>4. OnlyCurrentRuns(m) /\ NullEligible(m)
  BY <1>1, <1>3 DEF SchedPre, OnlyCurrentRuns, NullEligible
<1>5. ReadyListExact(m) /\ ReadySorted(m)
  BY <1>1, <1>3 DEF SchedPre, ReadyListExact, ReadySorted
<1> QED BY <1>2, <1>4, <1>5 DEF SchedPre, m

(* The current process blocks: the call ends with another one running. *)
LEMMA BlockInv ==
  ASSUME NEW k, SchedInv(k), k.currpid # NULLPROC, k.ndefers = 0,
         NEW s \in PrState \ {"CURR", "READY"}
  PROVE  /\ SchedInv(Block(k, s))
         /\ Block(k, s).prprio = k.prprio
         /\ Block(k, s).ndefers = k.ndefers
         /\ Block(k, s).prstate[k.currpid] = s
         /\ \A x \in Pid \ {k.currpid} :
              IF k.prstate[x] = "READY"
              THEN Block(k, s).prstate[x] \in {"CURR", "READY"}
              ELSE Block(k, s).prstate[x] = k.prstate[x]
<1> DEFINE m == [k EXCEPT !.prstate[k.currpid] = s]
<1>1. /\ SchedPre(k) /\ k.prstate[k.currpid] = "CURR" /\ k.currpid \in Pid
      /\ k.prstate \in [Pid -> PrState]
      /\ \A x \in Pid \ {k.currpid} : k.prstate[x] # "CURR"
  BY DEF SchedInv, SchedPre, SchedType, OnlyCurrentRuns
<1>2. /\ m.prstate = [k.prstate EXCEPT ![k.currpid] = s]
      /\ m.prprio = k.prprio /\ m.ndefers = k.ndefers
  BY <1>1 DEF SchedPre, SchedType
<1>3. SchedPre(m)
  BY <1>1, SetStatePre
<1>4. Block(k, s) = Resched(m)
  BY DEF Block
<1> HIDE DEF m
<1>5. SchedInv(Resched(m)) /\ SameButRunning(m, Resched(m))
  BY <1>2, <1>3, ReschedInv
<1> HIDE DEF SchedInv
<1> QED BY <1>1, <1>2, <1>4, <1>5 DEF SameButRunning

(* getitem() of a ready process, for suspend() and kill(). *)
LEMMA WithdrawInv ==
  ASSUME NEW k, SchedInv(k), NEW p \in Pid, p # NULLPROC, k.prstate[p] = "READY",
         NEW s \in PrState \ {"CURR", "READY"}
  PROVE  /\ SchedInv(Withdraw(k, p, s))
         /\ Withdraw(k, p, s).prprio = k.prprio
         /\ Withdraw(k, p, s).ndefers = k.ndefers
         /\ Withdraw(k, p, s).currpid = k.currpid
         /\ Withdraw(k, p, s).prstate = [k.prstate EXCEPT ![p] = s]
<1> DEFINE q == k.readylist
           i == CHOOSE j \in 1 .. Len(q) : q[j] = p
           t == RemoveAt(q, i)
           m == Withdraw(k, p, s)
<1>1. /\ q \in Seq(Pid) /\ Len(q) \in Nat /\ k.qkey \in [Pid -> Nat]
      /\ k.prstate \in [Pid -> PrState] /\ k.currpid \in Pid
      /\ SchedPre(k) /\ k.prstate[k.currpid] = "CURR"
  BY DEF SchedInv, SchedPre, SchedType
<1>2. \E j \in 1 .. Len(q) : q[j] = p
  BY <1>1 DEF SchedPre, ReadyListExact
<1>3. i \in 1 .. Len(q) /\ q[i] = p
  BY <1>2
<1>4. m = [k EXCEPT !.readylist = t, !.prstate = [k.prstate EXCEPT ![p] = s]]
  BY <1>1 DEF Withdraw, Unlink, SchedPre, SchedType
<1> HIDE DEF q, i
<1>5. /\ t \in Seq(Pid) /\ Len(t) = Len(q) - 1
      /\ \A j \in 1 .. Len(q) - 1 : t[j] = IF j < i THEN q[j] ELSE q[j + 1]
  BY <1>1, <1>3, RemoveAtElements
<1> HIDE DEF t, m
<1>6. /\ m.prstate = [k.prstate EXCEPT ![p] = s] /\ m.readylist = t
      /\ m.qkey = k.qkey /\ m.currpid = k.currpid /\ m.prprio = k.prprio
      /\ m.ndefers = k.ndefers
  BY <1>1, <1>4 DEF SchedPre, SchedType
<1>7. SchedType(m)
  BY <1>1, <1>4, <1>5 DEF SchedPre, SchedType
<1>8. OnlyCurrentRuns(m) /\ NullEligible(m) /\ m.prstate[m.currpid] = "CURR"
  BY <1>1, <1>6 DEF SchedPre, OnlyCurrentRuns, NullEligible
<1> DEFINE g(j) == IF j < i THEN j ELSE j + 1
<1>9. \A j \in 1 .. Len(t) : g(j) \in 1 .. Len(q) /\ t[j] = q[g(j)] /\ g(j) # i
  <2> SUFFICES ASSUME NEW j \in 1 .. Len(q) - 1
               PROVE  g(j) \in 1 .. Len(q) /\ t[j] = q[g(j)] /\ g(j) # i
    BY <1>5
  <2>1. g(j) \in 1 .. Len(q) /\ g(j) # i
    BY <1>1, <1>3
  <2>2. t[j] = q[g(j)]
    <3>1. CASE j < i
      BY <1>5, <3>1
    <3>2. CASE ~(j < i)
      BY <1>5, <3>2
    <3> QED BY <3>1, <3>2
  <2> QED BY <2>1, <2>2
<1>10. \A a, b \in 1 .. Len(t) : (a < b <=> g(a) < g(b)) /\ (g(a) = g(b) => a = b)
  <2> SUFFICES ASSUME NEW a \in Int, NEW b \in Int
               PROVE  (a < b <=> g(a) < g(b)) /\ (g(a) = g(b) => a = b)
    OBVIOUS
  <2>1. i \in Int
    BY <1>1, <1>3
  <2> QED BY <2>1
<1> HIDE DEF g
<1>11. \A a, b \in 1 .. Len(q) : q[a] = q[b] => a = b
  BY <1>1 DEF SchedPre, ReadyListExact, q
<1>12. ReadyListExact(m)
  <2>1. ASSUME NEW x \in Pid, m.prstate[x] = "READY"
        PROVE  \E j \in 1 .. Len(t) : t[j] = x
    <3>1. x # p /\ k.prstate[x] = "READY"
      BY <1>1, <1>6, <2>1
    <3>2. PICK j \in 1 .. Len(q) : q[j] = x
      BY <1>1, <3>1 DEF SchedPre, ReadyListExact, q
    <3>3. CASE j < i
      <4>1. j \in 1 .. Len(t) /\ g(j) = j
        BY <1>1, <1>3, <1>5, <3>3 DEF g
      <4> QED BY <1>9, <3>2, <4>1
    <3>4. CASE j > i
      <4>1. j - 1 \in 1 .. Len(t) /\ g(j - 1) = j
        BY <1>1, <1>3, <1>5, <3>4 DEF g
      <4> QED BY <1>9, <3>2, <4>1
    <3> QED BY <1>3, <3>1, <3>2, <3>3, <3>4
  <2>2. ASSUME NEW x \in Pid, NEW j \in 1 .. Len(t), t[j] = x
        PROVE  m.prstate[x] = "READY"
    <3>1. g(j) \in 1 .. Len(q) /\ q[g(j)] = x /\ g(j) # i
      BY <1>9, <2>2
    <3>2. x # p
      BY <1>3, <1>11, <3>1
    <3>3. k.prstate[x] = "READY"
      BY <1>1, <3>1 DEF SchedPre, ReadyListExact, q
    <3> QED BY <1>1, <1>6, <3>2, <3>3
  <2>3. ASSUME NEW a \in 1 .. Len(t), NEW b \in 1 .. Len(t), t[a] = t[b]
        PROVE  a = b
    <3>1. g(a) = g(b)
      BY <1>9, <1>11, <2>3
    <3> QED BY <1>10, <3>1
  <2> QED BY <1>6, <2>1, <2>2, <2>3 DEF ReadyListExact
<1>13. ReadySorted(m)
  <2>1. ASSUME NEW a \in 1 .. Len(t), NEW b \in 1 .. Len(t), a < b
        PROVE  m.qkey[t[a]] >= m.qkey[t[b]]
    <3>1. /\ t[a] = q[g(a)] /\ t[b] = q[g(b)] /\ g(a) < g(b)
          /\ g(a) \in 1 .. Len(q) /\ g(b) \in 1 .. Len(q)
      BY <1>9, <1>10, <2>1
    <3>2. k.qkey[q[g(a)]] >= k.qkey[q[g(b)]]
      BY <1>1, <3>1 DEF SchedPre, ReadySorted, q
    <3> QED BY <1>6, <3>1, <3>2
  <2> QED BY <1>6, <2>1 DEF ReadySorted
<1> QED BY <1>6, <1>7, <1>8, <1>12, <1>13 DEF SchedInv, SchedPre, m

(* kill(): the victim is gone, and nobody else stops running or starts. *)
LEMMA DiesInv ==
  ASSUME NEW k, SchedInv(k), k.ndefers = 0, NEW p \in Pid, p # NULLPROC
  PROVE  /\ SchedInv(Dies(k, p))
         /\ Dies(k, p).ndefers = 0
         /\ Dies(k, p).prstate[p] = "FREE"
         /\ \A x \in Pid \ {p} :
              IF k.prstate[x] \in {"CURR", "READY"}
              THEN Dies(k, p).prstate[x] \in {"CURR", "READY"}
              ELSE Dies(k, p).prstate[x] = k.prstate[x]
<1>0. /\ "FREE" \in PrState \ {"CURR", "READY"}
      /\ k.prstate \in [Pid -> PrState] /\ SchedPre(k)
      /\ k.prstate[k.currpid] = "CURR"
      /\ \A x \in Pid : k.prstate[x] = "CURR" => x = k.currpid
  BY DEF PrState, SchedInv, SchedPre, SchedType, OnlyCurrentRuns
<1> DEFINE m == Dies(k, p)
<1>1. CASE k.prstate[p] = "CURR"
  <2>1. p = k.currpid /\ m = Block(k, "FREE")
    BY <1>0, <1>1 DEF Dies
  <2> HIDE DEF m
  <2>2. /\ SchedInv(m) /\ m.ndefers = k.ndefers /\ m.prstate[p] = "FREE"
        /\ \A x \in Pid \ {p} :
             IF k.prstate[x] = "READY" THEN m.prstate[x] \in {"CURR", "READY"}
                                       ELSE m.prstate[x] = k.prstate[x]
    BY <1>0, <2>1, BlockInv
  <2> HIDE DEF SchedInv
  <2>3. \A x \in Pid \ {p} : k.prstate[x] # "CURR"
    BY <1>0, <2>1
  <2> QED BY <2>2, <2>3 DEF m
<1>2. CASE k.prstate[p] = "READY"
  <2>1. m = Withdraw(k, p, "FREE")
    BY <1>2 DEF Dies
  <2> HIDE DEF m
  <2>2. SchedInv(m) /\ m.ndefers = k.ndefers
        /\ m.prstate = [k.prstate EXCEPT ![p] = "FREE"]
    BY <1>0, <1>2, <2>1, WithdrawInv
  <2> HIDE DEF SchedInv
  <2> QED BY <1>0, <2>2 DEF m
<1>3. CASE k.prstate[p] \notin {"CURR", "READY"}
  <2>1. m = [k EXCEPT !.prstate[p] = "FREE"]
    BY <1>3 DEF Dies
  <2> HIDE DEF m
  <2>2. m.prstate = [k.prstate EXCEPT ![p] = "FREE"] /\ m.currpid = k.currpid
        /\ m.ndefers = k.ndefers
    BY <2>1 DEF SchedInv, SchedPre, SchedType
  <2>3. SchedPre(m)
    BY <1>0, <1>3, <2>1, SetStatePre
  <2>4. m.prstate[m.currpid] = "CURR"
    BY <1>0, <1>3, <2>2
  <2> QED BY <1>0, <2>2, <2>3, <2>4 DEF SchedInv, m
<1> QED BY <1>1, <1>2, <1>3

(* A change of a priority: no place on any list moves. *)
LEMMA SetPrioInv ==
  ASSUME NEW k, SchedInv(k), NEW p \in Pid, NEW n \in Nat
  PROVE  /\ SchedInv([k EXCEPT !.prprio[p] = n])
         /\ [k EXCEPT !.prprio[p] = n].prstate = k.prstate
         /\ [k EXCEPT !.prprio[p] = n].ndefers = k.ndefers
<1> DEFINE m == [k EXCEPT !.prprio[p] = n]
<1>1. SchedType(m)
  BY DEF SchedInv, SchedPre, SchedType
<1>2. /\ m.prstate = k.prstate /\ m.readylist = k.readylist
      /\ m.qkey = k.qkey /\ m.currpid = k.currpid /\ m.ndefers = k.ndefers
  BY DEF SchedInv, SchedPre, SchedType
<1> HIDE DEF m
<1>3. OnlyCurrentRuns(m) /\ NullEligible(m) /\ ReadyListExact(m) /\ ReadySorted(m)
  BY <1>2 DEF SchedInv, SchedPre, OnlyCurrentRuns, NullEligible, ReadyListExact,
              ReadySorted
<1> QED BY <1>1, <1>2, <1>3 DEF SchedInv, SchedPre, m

(* The preemption part of clkhandler(). *)
LEMMA TickInv ==
  ASSUME NEW k, SchedInv(k), k.ndefers = 0
  PROVE  SchedInv(Tick(k)) /\ SameButRunning(k, Tick(k))
<1>0. /\ k.preempt \in 1 .. QUANTUM /\ QUANTUM \in 1 .. QUANTUM
      /\ k.preempt - 1 > 0 => k.preempt - 1 \in 1 .. QUANTUM
  BY SchedAssumption DEF SchedInv, SchedPre, SchedType
<1>1. ASSUME NEW n \in 1 .. QUANTUM
      PROVE  /\ SchedInv([k EXCEPT !.preempt = n])
             /\ SameButRunning(k, [k EXCEPT !.preempt = n])
             /\ [k EXCEPT !.preempt = n].ndefers = 0
             /\ [k EXCEPT !.preempt = n].prstate = k.prstate
  <2> DEFINE m == [k EXCEPT !.preempt = n]
  <2>1. SchedType(m)
    BY DEF SchedInv, SchedPre, SchedType
  <2>2. /\ m.prstate = k.prstate /\ m.readylist = k.readylist /\ m.prprio = k.prprio
        /\ m.qkey = k.qkey /\ m.currpid = k.currpid /\ m.ndefers = k.ndefers
    BY DEF SchedInv, SchedPre, SchedType
  <2> HIDE DEF m
  <2> QED BY <2>1, <2>2 DEF SchedInv, SchedPre, OnlyCurrentRuns, NullEligible,
             ReadyListExact, ReadySorted, SameButRunning, m
<1>2. CASE k.preempt - 1 <= 0
  <2> DEFINE m == [k EXCEPT !.preempt = QUANTUM]
  <2>1. SchedInv(m) /\ m.ndefers = 0 /\ m.prstate = k.prstate /\ SameButRunning(k, m)
    BY <1>0, <1>1
  <2>2. Tick(k) = Resched(m)
    BY <1>2 DEF Tick
  <2> HIDE DEF m
  <2>3. SchedInv(Resched(m)) /\ SameButRunning(m, Resched(m))
    BY <2>1, ReschedInv DEF SchedInv
  <2> HIDE DEF SchedInv
  <2> QED BY <2>1, <2>2, <2>3 DEF SameButRunning
<1>3. CASE ~(k.preempt - 1 <= 0)
  <2>1. Tick(k) = [k EXCEPT !.preempt = k.preempt - 1]
    BY <1>3 DEF Tick, SchedInv, SchedPre, SchedType
  <2>2. k.preempt - 1 \in 1 .. QUANTUM
    BY <1>0, <1>3
  <2> QED BY <1>1, <2>1, <2>2
<1> QED BY <1>2, <1>3

(* resched_cntl(DEFER_START) and resched_cntl(DEFER_STOP). *)
LEMMA DeferInv ==
  ASSUME NEW k, SchedInv(k)
  PROVE  /\ SchedInv(DeferStart(k)) /\ DeferStart(k).prstate = k.prstate
         /\ DeferStart(k).ndefers = k.ndefers + 1
         /\ DeferStart(k).currpid = k.currpid
         /\ k.ndefers > 0 => /\ SchedInv(DeferStop(k))
                             /\ DeferStop(k).ndefers = k.ndefers - 1
                             /\ \A p \in Pid :
                                  IF k.prstate[p] \in {"CURR", "READY"}
                                  THEN DeferStop(k).prstate[p] \in {"CURR", "READY"}
                                  ELSE DeferStop(k).prstate[p] = k.prstate[p]
<1>1. ASSUME NEW m, SchedType(m), m.prstate = k.prstate, m.readylist = k.readylist,
             m.qkey = k.qkey, m.currpid = k.currpid
      PROVE  SchedInv(m)
  BY <1>1 DEF SchedInv, SchedPre, OnlyCurrentRuns, NullEligible, ReadyListExact,
              ReadySorted
<1>2. k.ndefers \in Nat
  BY DEF SchedInv, SchedPre, SchedType
<1>3. /\ SchedInv(DeferStart(k)) /\ DeferStart(k).prstate = k.prstate
      /\ DeferStart(k).ndefers = k.ndefers + 1
      /\ DeferStart(k).currpid = k.currpid
  <2> DEFINE m == DeferStart(k)
  <2>1. SchedType(m)
    <3>1. k.ndefers + 1 \in Nat
      BY <1>2
    <3>2. k.attempt \in BOOLEAN
      BY DEF SchedInv, SchedPre, SchedType
    <3>3. (IF k.ndefers = 0 THEN FALSE ELSE k.attempt) \in BOOLEAN
      BY <3>2
    <3> QED BY <3>1, <3>3 DEF SchedInv, SchedPre, SchedType, DeferStart
  <2>2. /\ m.prstate = k.prstate /\ m.readylist = k.readylist
        /\ m.qkey = k.qkey /\ m.currpid = k.currpid /\ m.ndefers = k.ndefers + 1
    BY DEF SchedInv, SchedPre, SchedType, DeferStart
  <2> HIDE DEF m
  <2>3. SchedInv(m)
    BY <1>1, <2>1, <2>2
  <2> QED BY <2>2, <2>3 DEF m
<1>4. ASSUME k.ndefers > 0
      PROVE  /\ SchedInv(DeferStop(k))
             /\ DeferStop(k).ndefers = k.ndefers - 1
             /\ \A p \in Pid :
                  IF k.prstate[p] \in {"CURR", "READY"}
                  THEN DeferStop(k).prstate[p] \in {"CURR", "READY"}
                  ELSE DeferStop(k).prstate[p] = k.prstate[p]
  <2> DEFINE d == [k EXCEPT !.ndefers = @ - 1]
  <2>1. SchedType(d)
    <3>1. k.ndefers - 1 \in Nat
      BY <1>2, <1>4
    <3> QED BY <3>1 DEF SchedInv, SchedPre, SchedType
  <2>2. /\ d.prstate = k.prstate /\ d.readylist = k.readylist
        /\ d.qkey = k.qkey /\ d.currpid = k.currpid /\ d.ndefers = k.ndefers - 1
    BY DEF SchedInv, SchedPre, SchedType
  <2>3. DeferStop(k) = Switch(d) \/ DeferStop(k) = d
    BY <1>2, <1>4 DEF DeferStop
  <2> HIDE DEF d
  <2>4. SchedInv(d) /\ SchedPre(d)
    BY <1>1, <2>1, <2>2 DEF SchedInv
  <2>5. SchedInv(Switch(d)) /\ SameButRunning(d, Switch(d))
    BY <2>4, SwitchInv
  <2> HIDE DEF SchedInv
  <2> QED BY <2>2, <2>3, <2>4, <2>5 DEF SameButRunning
<1> QED BY <1>3, <1>4

-----------------------------------------------------------------------------
(* The state the components start from. *)
LEMMA SchedCreatedInv ==
  ASSUME NEW prio \in [Pid -> Nat]
  PROVE  /\ SchedInv(SchedCreated(prio))
         /\ SchedCreated(prio).currpid = 1 /\ SchedCreated(prio).ndefers = 0
         /\ SchedCreated(prio).prstate =
              [p \in Pid |-> CASE p = NULLPROC -> "READY" [] p = 1 -> "CURR"
                               [] OTHER -> "SUSP"]
<1> PICK k : k = SchedCreated(prio)
  OBVIOUS
<1>0. NULLPROC \in Pid /\ 1 \in Pid /\ 1 # NULLPROC
  BY SchedAssumption DEF Pid, NULLPROC
<1>1. /\ k.currpid = 1 /\ k.readylist = <<NULLPROC>> /\ k.ndefers = 0
      /\ k.prstate = [p \in Pid |-> CASE p = NULLPROC -> "READY" [] p = 1 -> "CURR"
                                      [] OTHER -> "SUSP"]
      /\ k.prprio = [p \in Pid |-> IF p = NULLPROC THEN 0 ELSE prio[p]]
      /\ k.qkey = [p \in Pid |-> 0] /\ k.preempt = QUANTUM /\ k.attempt = FALSE
      /\ k = [currpid |-> k.currpid, prstate |-> k.prstate, prprio |-> k.prprio,
              readylist |-> k.readylist, qkey |-> k.qkey, preempt |-> k.preempt,
              ndefers |-> k.ndefers, attempt |-> k.attempt]
  BY <1>0 DEF SchedCreated, SchedInit
<1>2. SchedType(k)
  <2>1. QUANTUM \in 1 .. QUANTUM
    BY SchedAssumption
  <2>2. <<NULLPROC>> \in Seq(Pid)
    BY <1>0
  <2>3. /\ k.prstate \in [Pid -> PrState] /\ k.prprio \in [Pid -> Nat]
        /\ k.qkey \in [Pid -> Nat]
    BY <1>1 DEF PrState
  <2>4. /\ k.currpid \in Pid /\ k.readylist \in Seq(Pid)
        /\ k.preempt \in 1 .. QUANTUM /\ k.ndefers \in Nat /\ k.attempt \in BOOLEAN
    <3>1. k.currpid \in Pid /\ k.attempt \in BOOLEAN
      BY <1>0, <1>1
    <3>2. k.readylist \in Seq(Pid)
      BY <1>1, <2>2
    <3>3. k.preempt \in 1 .. QUANTUM
      BY <1>1, <2>1
    <3>4. k.ndefers \in Nat
      <4>1. k.ndefers = 0
        BY <1>1
      <4> QED BY ONLY <4>1
    <3> QED BY <3>1, <3>2, <3>3, <3>4
  <2>5. k = [currpid |-> k.currpid, prstate |-> k.prstate, prprio |-> k.prprio,
             readylist |-> k.readylist, qkey |-> k.qkey, preempt |-> k.preempt,
             ndefers |-> k.ndefers, attempt |-> k.attempt]
    BY <1>1
  <2> QED BY ONLY <2>3, <2>4, <2>5 DEF SchedType
<1>3. ReadyListExact(k) /\ ReadySorted(k)
  BY <1>0, <1>1 DEF ReadyListExact, ReadySorted
<1>4. OnlyCurrentRuns(k) /\ NullEligible(k) /\ k.prstate[k.currpid] = "CURR"
  BY <1>0, <1>1 DEF OnlyCurrentRuns, NullEligible
<1> QED BY <1>1, <1>2, <1>3, <1>4 DEF SchedInv, SchedPre

-----------------------------------------------------------------------------
(* Who runs.  The keys on the ready list are the priorities, and the       *)
(* running process has one that no ready process exceeds, unless a         *)
(* resched() that has been deferred is still to come.                      *)
Ranked(k) == \A p \in Pid : k.prstate[p] = "READY" => k.qkey[p] = k.prprio[p]
Served(k) == Ranked(k) /\ (HighestRuns(k) \/ (k.ndefers > 0 /\ k.attempt))

(* The first on the ready list has the highest priority of those on it. *)
LEMMA HeadHighest ==
  ASSUME NEW k, SchedPre(k), Ranked(k), k.readylist # <<>>
  PROVE  /\ Head(k.readylist) \in Pid /\ k.prstate[Head(k.readylist)] = "READY"
         /\ \A p \in Pid : k.prstate[p] = "READY"
              => k.prprio[Head(k.readylist)] >= k.prprio[p]
<1> DEFINE q == k.readylist
<1>1. /\ q \in Seq(Pid) /\ Len(q) \in Nat /\ 1 \in 1 .. Len(q)
      /\ Head(q) = q[1] /\ q[1] \in Pid /\ k.prprio \in [Pid -> Nat]
      /\ k.qkey \in [Pid -> Nat]
  BY DEF SchedPre, SchedType
<1>2. k.prstate[q[1]] = "READY"
  BY <1>1 DEF SchedPre, ReadyListExact
<1>3. ASSUME NEW p \in Pid, k.prstate[p] = "READY"
      PROVE  k.prprio[q[1]] >= k.prprio[p]
  <2>1. PICK i \in 1 .. Len(q) : q[i] = p
    BY <1>3 DEF SchedPre, ReadyListExact
  <2>2. k.qkey[q[1]] >= k.qkey[q[i]]
    <3>1. CASE i = 1
      BY <1>1, <3>1
    <3>2. CASE i # 1
      <4>1. 1 < i
        BY <1>1, <3>2
      <4> QED BY <1>1, <4>1 DEF SchedPre, ReadySorted
    <3> QED BY <3>1, <3>2
  <2> QED BY <1>1, <1>2, <1>3, <2>1, <2>2 DEF Ranked
<1> QED BY <1>1, <1>2, <1>3

LEMMA MakeReadyRanked ==
  ASSUME NEW k, SchedPre(k), Ranked(k), NEW p \in Pid
  PROVE  Ranked(MakeReady(k, p))
<1> DEFINE m == MakeReady(k, p)
<1>1. /\ m.prstate = [k.prstate EXCEPT ![p] = "READY"] /\ m.prprio = k.prprio
      /\ m.qkey = [k.qkey EXCEPT ![p] = k.prprio[p]]
      /\ k.prstate \in [Pid -> PrState] /\ k.qkey \in [Pid -> Nat]
  BY DEF MakeReady, SchedPre, SchedType
<1> HIDE DEF m
<1> QED BY <1>1 DEF Ranked, m

LEMMA DispatchHighest ==
  ASSUME NEW k, SchedPre(k), Ranked(k), k.readylist # <<>>
  PROVE  Ranked(Dispatch(k)) /\ HighestRuns(Dispatch(k))
<1> DEFINE h == Head(k.readylist)
           d == Dispatch(k)
<1>1. /\ h \in Pid
      /\ \A p \in Pid : k.prstate[p] = "READY" => k.prprio[h] >= k.prprio[p]
  BY HeadHighest
<1>2. /\ d.prstate = [k.prstate EXCEPT ![h] = "CURR"] /\ d.currpid = h
      /\ d.prprio = k.prprio /\ d.qkey = k.qkey
      /\ k.prstate \in [Pid -> PrState]
  BY DEF Dispatch, SchedPre, SchedType
<1> HIDE DEF h, d
<1>3. \A p \in Pid : d.prstate[p] = "READY" => k.prstate[p] = "READY"
  BY <1>1, <1>2
<1> QED BY <1>1, <1>2, <1>3 DEF Ranked, HighestRuns, d

(* resched() that is not deferred leaves the highest priority running. *)
LEMMA SwitchHighest ==
  ASSUME NEW k, SchedPre(k), Ranked(k)
  PROVE  Ranked(Switch(k)) /\ HighestRuns(Switch(k))
<1>0. /\ k.currpid \in Pid /\ k.prprio \in [Pid -> Nat] /\ k.qkey \in [Pid -> Nat]
      /\ k.readylist \in Seq(Pid)
  BY DEF SchedPre, SchedType
<1>1. CASE KeepsCPU(k)
  <2>1. Switch(k) = k
    BY <1>1 DEF Switch
  <2>2. CASE k.readylist = <<>>
    <3>1. \A p \in Pid : k.prstate[p] # "READY"
      BY <2>2 DEF SchedPre, ReadyListExact
    <3> QED BY <2>1, <3>1 DEF HighestRuns
  <2>3. CASE k.readylist # <<>>
    <3> DEFINE h == Head(k.readylist)
    <3>1. /\ h \in Pid /\ k.prstate[h] = "READY"
          /\ \A p \in Pid : k.prstate[p] = "READY" => k.prprio[h] >= k.prprio[p]
      BY <2>3, HeadHighest
    <3>2. k.prprio[k.currpid] > k.qkey[h]
      BY <1>1, <2>3 DEF KeepsCPU
    <3> HIDE DEF h
    <3>3. k.qkey[h] = k.prprio[h]
      BY <3>1 DEF Ranked
    <3>4. ASSUME NEW p \in Pid, k.prstate[p] = "READY"
          PROVE  k.prprio[k.currpid] >= k.prprio[p]
      BY <1>0, <3>1, <3>2, <3>3, <3>4
    <3> QED BY <2>1, <3>4 DEF HighestRuns
  <2> QED BY <2>1, <2>2, <2>3
<1>2. CASE ~KeepsCPU(k) /\ k.prstate[k.currpid] = "CURR"
  <2> DEFINE m == MakeReady(k, k.currpid)
  <2>1. SchedPre(m) /\ m.readylist # <<>> /\ Ranked(m)
    BY <1>0, <1>2, MakeReadyPre, MakeReadyRanked
  <2>2. Switch(k) = Dispatch(m)
    BY <1>2 DEF Switch
  <2> HIDE DEF m
  <2> QED BY <2>1, <2>2, DispatchHighest
<1>3. CASE ~KeepsCPU(k) /\ k.prstate[k.currpid] # "CURR"
  <2>1. k.readylist # <<>> /\ Switch(k) = Dispatch(k)
    BY <1>3, SomebodyReady DEF Switch
  <2> QED BY <2>1, DispatchHighest
<1> QED BY <1>1, <1>2, <1>3

LEMMA ReschedServed ==
  ASSUME NEW k, SchedPre(k), Ranked(k)
  PROVE  Served(Resched(k))
<1>1. CASE k.ndefers > 0
  <2> DEFINE m == Resched(k)
  <2>1. /\ m.prstate = k.prstate /\ m.qkey = k.qkey /\ m.prprio = k.prprio
        /\ m.ndefers = k.ndefers /\ m.attempt = TRUE
    BY <1>1 DEF Resched, SchedPre, SchedType
  <2> HIDE DEF m
  <2> QED BY <1>1, <2>1 DEF Served, Ranked, m
<1>2. CASE ~(k.ndefers > 0)
  BY <1>2, SwitchHighest DEF Resched, Served
<1> QED BY <1>1, <1>2

LEMMA ReadyServed ==
  ASSUME NEW k, SchedInv(k), Served(k), NEW p \in Pid, k.prstate[p] # "READY"
  PROVE  Served(Ready(k, p))
<1>1. SchedPre(k) /\ Ranked(k)
  BY DEF SchedInv, Served
<1> QED BY <1>1, MakeReadyPre, MakeReadyRanked, ReschedServed DEF Ready

(* A process that is not ready, and does not become so, changes state. *)
LEMMA SetStateRanked ==
  ASSUME NEW k, SchedPre(k), Ranked(k), NEW p \in Pid,
         NEW s \in PrState \ {"CURR", "READY"}
  PROVE  Ranked([k EXCEPT !.prstate[p] = s])
<1> DEFINE m == [k EXCEPT !.prstate[p] = s]
<1>1. /\ m.prstate = [k.prstate EXCEPT ![p] = s] /\ m.qkey = k.qkey
      /\ m.prprio = k.prprio /\ k.prstate \in [Pid -> PrState]
  BY DEF SchedPre, SchedType
<1> HIDE DEF m
<1> QED BY <1>1 DEF Ranked, m

LEMMA BlockServed ==
  ASSUME NEW k, SchedInv(k), Served(k), k.currpid # NULLPROC,
         NEW s \in PrState \ {"CURR", "READY"}
  PROVE  Served(Block(k, s))
<1> DEFINE m == [k EXCEPT !.prstate[k.currpid] = s]
<1>1. SchedPre(k) /\ Ranked(k) /\ k.currpid \in Pid /\ k.prstate[k.currpid] = "CURR"
  BY DEF SchedInv, Served, SchedPre, SchedType
<1>2. SchedPre(m) /\ Ranked(m)
  BY <1>1, SetStatePre, SetStateRanked
<1>3. Block(k, s) = Resched(m)
  BY DEF Block
<1> HIDE DEF m
<1> QED BY <1>2, <1>3, ReschedServed

(* Nothing but ready processes that leave the list, or fields nobody is    *)
(* ranked by, has changed.                                                 *)
LEMMA FewerServed ==
  ASSUME NEW k, Served(k), NEW m, m.prprio = k.prprio, m.currpid = k.currpid,
         m.qkey = k.qkey, m.ndefers = k.ndefers, m.attempt = k.attempt,
         \A p \in Pid : m.prstate[p] = "READY" => k.prstate[p] = "READY"
  PROVE  Served(m)
BY DEF Served, Ranked, HighestRuns

LEMMA WithdrawServed ==
  ASSUME NEW k, SchedInv(k), Served(k), NEW p \in Pid,
         NEW s \in PrState \ {"CURR", "READY"}
  PROVE  Served(Withdraw(k, p, s))
<1> DEFINE m == Withdraw(k, p, s)
<1>1. /\ m.prstate = [k.prstate EXCEPT ![p] = s] /\ m.qkey = k.qkey
      /\ m.prprio = k.prprio /\ m.currpid = k.currpid
      /\ m.ndefers = k.ndefers /\ m.attempt = k.attempt
      /\ k.prstate \in [Pid -> PrState]
  BY DEF Withdraw, SchedInv, SchedPre, SchedType
<1> HIDE DEF m
<1>2. \A x \in Pid : m.prstate[x] = "READY" => k.prstate[x] = "READY"
  BY <1>1
<1> QED BY <1>1, <1>2, FewerServed DEF m

LEMMA DiesServed ==
  ASSUME NEW k, SchedInv(k), Served(k), NEW p \in Pid, p # NULLPROC
  PROVE  Served(Dies(k, p))
<1>0. /\ "FREE" \in PrState \ {"CURR", "READY"}
      /\ k.prstate \in [Pid -> PrState] /\ k.prstate[k.currpid] = "CURR"
      /\ \A x \in Pid : k.prstate[x] = "CURR" => x = k.currpid
  BY DEF PrState, SchedInv, SchedPre, SchedType, OnlyCurrentRuns
<1>1. CASE k.prstate[p] = "CURR"
  BY <1>0, <1>1, BlockServed DEF Dies
<1>2. CASE k.prstate[p] = "READY"
  BY <1>0, <1>2, WithdrawServed DEF Dies
<1>3. CASE k.prstate[p] \notin {"CURR", "READY"}
  <2> DEFINE m == Dies(k, p)
  <2>1. m = [k EXCEPT !.prstate[p] = "FREE"]
    BY <1>3 DEF Dies
  <2>2. /\ m.prstate = [k.prstate EXCEPT ![p] = "FREE"] /\ m.qkey = k.qkey
        /\ m.prprio = k.prprio /\ m.currpid = k.currpid
        /\ m.ndefers = k.ndefers /\ m.attempt = k.attempt
    BY <2>1 DEF SchedInv, SchedPre, SchedType
  <2> HIDE DEF m
  <2>3. \A x \in Pid : m.prstate[x] = "READY" => k.prstate[x] = "READY"
    BY <1>0, <2>2
  <2> QED BY <2>2, <2>3, FewerServed DEF m
<1> QED BY <1>1, <1>2, <1>3

LEMMA TickServed ==
  ASSUME NEW k, SchedInv(k), Served(k)
  PROVE  Served(Tick(k))
<1>1. ASSUME NEW n \in 1 .. QUANTUM
      PROVE  /\ SchedPre([k EXCEPT !.preempt = n])
             /\ Served([k EXCEPT !.preempt = n])
  <2> DEFINE m == [k EXCEPT !.preempt = n]
  <2>1. SchedType(m)
    BY DEF SchedInv, SchedPre, SchedType
  <2>2. /\ m.prstate = k.prstate /\ m.readylist = k.readylist /\ m.prprio = k.prprio
        /\ m.qkey = k.qkey /\ m.currpid = k.currpid /\ m.ndefers = k.ndefers
        /\ m.attempt = k.attempt
    BY DEF SchedInv, SchedPre, SchedType
  <2> HIDE DEF m
  <2>3. SchedPre(m)
    BY <2>1, <2>2 DEF SchedInv, SchedPre, OnlyCurrentRuns, NullEligible,
                      ReadyListExact, ReadySorted
  <2>4. Served(m)
    BY <2>2, FewerServed
  <2> QED BY <2>3, <2>4 DEF m
<1>2. CASE k.preempt - 1 <= 0
  <2> DEFINE m == [k EXCEPT !.preempt = QUANTUM]
  <2>1. QUANTUM \in 1 .. QUANTUM
    BY SchedAssumption
  <2>2. SchedPre(m) /\ Served(m)
    BY <1>1, <2>1
  <2>3. Tick(k) = Resched(m)
    BY <1>2 DEF Tick
  <2> HIDE DEF m
  <2> QED BY <2>2, <2>3, ReschedServed DEF Served
<1>3. CASE ~(k.preempt - 1 <= 0)
  <2>1. Tick(k) = [k EXCEPT !.preempt = k.preempt - 1]
    BY <1>3 DEF Tick, SchedInv, SchedPre, SchedType
  <2>2. k.preempt - 1 \in 1 .. QUANTUM
    BY <1>3, SchedAssumption DEF SchedInv, SchedPre, SchedType
  <2> QED BY <1>1, <2>1, <2>2
<1> QED BY <1>2, <1>3

(* The end of a deferral makes up for the resched() that was put off. *)
LEMMA DeferServed ==
  ASSUME NEW k, SchedInv(k), Served(k)
  PROVE  Served(DeferStart(k)) /\ Served(DeferStop(k))
<1>0. k.ndefers \in Nat /\ SchedPre(k) /\ k.attempt \in BOOLEAN
  BY DEF SchedInv, SchedPre, SchedType
<1>1. Served(DeferStart(k))
  <2> DEFINE m == DeferStart(k)
  <2>1. /\ m.prstate = k.prstate /\ m.prprio = k.prprio /\ m.qkey = k.qkey
        /\ m.currpid = k.currpid /\ m.ndefers = k.ndefers + 1
        /\ k.ndefers # 0 => m.attempt = k.attempt
    BY DEF SchedInv, SchedPre, SchedType, DeferStart
  <2> HIDE DEF m
  <2>2. Ranked(m) /\ (HighestRuns(k) => HighestRuns(m))
    BY <2>1 DEF Served, Ranked, HighestRuns
  <2>3. m.ndefers > 0
    BY <1>0, <2>1
  <2>4. k.ndefers > 0 => k.ndefers # 0
    BY <1>0
  <2>5. k.ndefers > 0 /\ k.attempt => m.attempt
    BY <2>1, <2>4, Zenon
  <2> QED BY <2>2, <2>3, <2>5 DEF Served, m
<1>2. Served(DeferStop(k))
  <2> DEFINE d == [k EXCEPT !.ndefers = @ - 1]
  <2>1. CASE k.ndefers <= 0
    BY <2>1 DEF DeferStop
  <2>2. CASE ~(k.ndefers <= 0)
    <3>1. SchedType(d)
      <4>1. k.ndefers - 1 \in Nat
        BY <1>0, <2>2
      <4> QED BY <4>1 DEF SchedInv, SchedPre, SchedType
    <3>2. /\ d.prstate = k.prstate /\ d.readylist = k.readylist /\ d.prprio = k.prprio
          /\ d.qkey = k.qkey /\ d.currpid = k.currpid /\ d.ndefers = k.ndefers - 1
          /\ d.attempt = k.attempt
      BY DEF SchedInv, SchedPre, SchedType
    <3>3. DeferStop(k) = IF d.ndefers = 0 /\ k.attempt THEN Switch(d) ELSE d
      BY <2>2 DEF DeferStop
    <3> HIDE DEF d
    <3>4. SchedPre(d)
      BY <3>1, <3>2 DEF SchedInv, SchedPre, OnlyCurrentRuns, NullEligible,
                        ReadyListExact, ReadySorted
    <3>5. Ranked(d) /\ (HighestRuns(k) => HighestRuns(d))
      BY <3>2 DEF Served, Ranked, HighestRuns
    <3>6. CASE d.ndefers = 0 /\ k.attempt
      BY <3>3, <3>4, <3>5, <3>6, SwitchHighest DEF Served
    <3>7. CASE ~(d.ndefers = 0 /\ k.attempt)
      <4>1. DeferStop(k) = d
        BY <3>3, <3>7
      <4>2. CASE HighestRuns(k)
        BY <3>5, <4>1, <4>2 DEF Served
      <4>3. CASE k.ndefers > 0 /\ k.attempt
        <5>1. d.ndefers > 0 /\ d.attempt
          BY <1>0, <2>2, <3>2, <3>7, <4>3
        <5> QED BY <3>5, <4>1, <5>1 DEF Served
      <4> QED BY <4>2, <4>3 DEF Served
    <3> QED BY <3>6, <3>7
  <2> QED BY <2>1, <2>2
<1> QED BY <1>1, <1>2

LEMMA SchedCreatedServed ==
  ASSUME NEW prio \in [Pid -> Nat]
  PROVE  Served(SchedCreated(prio))
<1> PICK k : k = SchedCreated(prio)
  OBVIOUS
<1>0. NULLPROC \in Pid /\ 1 \in Pid /\ 1 # NULLPROC
  BY SchedAssumption DEF Pid, NULLPROC
<1>1. /\ k.currpid = 1
      /\ k.prstate = [p \in Pid |-> CASE p = NULLPROC -> "READY" [] p = 1 -> "CURR"
                                      [] OTHER -> "SUSP"]
      /\ k.prprio = [p \in Pid |-> IF p = NULLPROC THEN 0 ELSE prio[p]]
      /\ k.qkey = [p \in Pid |-> 0]
  BY <1>0 DEF SchedCreated, SchedInit
<1>2. \A p \in Pid : k.prstate[p] = "READY" => p = NULLPROC
  BY <1>1
<1> QED BY <1>0, <1>1, <1>2 DEF Served, Ranked, HighestRuns
=============================================================================
