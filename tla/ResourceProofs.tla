---------------------------- MODULE ResourceProofs ----------------------------
(***************************************************************************)
(* Theorems about what the system shares out: memory, marks, buffers of    *)
(* the pools and messages of the ports.  They hold for every number of     *)
(* processes and pools, all sizes and every interleaving of the calls.     *)
(***************************************************************************)
EXTENDS Memory, Marks, Buffers, Ports, SchedProofs

-----------------------------------------------------------------------------
(***************************************************************************)
(* MemListExact for every memory map and all sizes: the free list of       *)
(* Memory.tla never overlaps itself or what is handed out, loses nothing,  *)
(* and its blocks never touch.                                             *)
(***************************************************************************)

IsFree(x) == \E b \in memlist : x \in Extent(b)

MemInv ==
  /\ memlist \subseteq MemBlk
  /\ memused \subseteq MemCells
  /\ \A b, c \in memlist : b # c => Apart(b, c)
  /\ \A x : IsFree(x) <=> x \in MemCells /\ x \notin memused
  /\ memleft = -Cardinality(memused)

(* A size a caller asks for is at least one unit. *)
LEMMA RoundPositive == ASSUME NEW n \in MemRequest PROVE roundmb(n) \in Nat \ {0}
<1>1. /\ MemWord \in Nat /\ n \in Int /\ n >= 1 /\ n <= MemWord - 8 BY MemAssumption
<1>2. n + 7 < MemWord BY <1>1
<1>3. (n + 7) \div 8 \in Nat \ {0} BY <1>1
<1>. QED BY <1>2, <1>3 DEF roundmb

(* The cells of an interval, and how many they are. *)
LEMMA ExtentCells == ASSUME NEW b \in MemBlk PROVE
   /\ IsFiniteSet(Extent(b)) /\ Cardinality(Extent(b)) = b.len
   /\ \A x : x \in Extent(b) <=> x \in Int /\ b.addr <= x /\ x < b.addr + b.len
<1>1. b.addr \in Nat /\ b.len \in Nat \ {0} BY DEF MemBlk
<1>2. b.addr \in Int /\ b.addr + b.len - 1 \in Int /\ b.addr <= b.addr + b.len - 1 BY <1>1
<1>3. IsFiniteSet(b.addr .. b.addr + b.len - 1) BY <1>2, FS_Interval
<1>4. Cardinality(b.addr .. b.addr + b.len - 1) = b.len
  <2>. DEFINE hi == b.addr + b.len - 1
              C  == Cardinality(b.addr .. hi)
  <2>1. C = IF b.addr > hi THEN 0 ELSE hi - b.addr + 1 BY <1>2, FS_Interval
  <2>. HIDE DEF C
  <2>2. C = b.len BY <2>1, <1>1
  <2>. QED BY <2>2 DEF C
<1>. QED BY <1>1, <1>3, <1>4 DEF Extent

(* Cells go in and out of use: the count follows. *)
LEMMA CountIn ==
  ASSUME NEW S \in SUBSET MemCells, NEW b \in MemBlk, S \cap Extent(b) = {}
  PROVE  Cardinality(S \cup Extent(b)) = Cardinality(S) + b.len
<1>1. IsFiniteSet(S) BY MemAssumption, FS_Subset
<1>2. IsFiniteSet(Extent(b)) /\ Cardinality(Extent(b)) = b.len BY ExtentCells
<1>3. Cardinality(S \cup Extent(b)) = Cardinality(S) + Cardinality(Extent(b)) - Cardinality(S \cap Extent(b))
  BY <1>1, <1>2, FS_Union
<1>4. Cardinality(S \cap Extent(b)) = 0 BY FS_EmptySet
<1>5. Cardinality(S) \in Nat /\ b.len \in Nat BY <1>1, FS_CardinalityType DEF MemBlk
<1>. QED BY <1>2, <1>3, <1>4, <1>5

LEMMA CountOut ==
  ASSUME NEW S \in SUBSET MemCells, NEW b \in MemBlk, Extent(b) \subseteq S
  PROVE  Cardinality(S \ Extent(b)) = Cardinality(S) - b.len
<1>. DEFINE T == S \ Extent(b)
<1>1. T \in SUBSET MemCells /\ T \cap Extent(b) = {} OBVIOUS
<1>2. T \cup Extent(b) = S OBVIOUS
<1>3. Cardinality(T \cup Extent(b)) = Cardinality(T) + b.len BY <1>1, CountIn
<1>4. IsFiniteSet(T) BY <1>1, MemAssumption, FS_Subset
<1>5. Cardinality(T) \in Nat /\ b.len \in Nat BY <1>4, FS_CardinalityType DEF MemBlk
<1>. HIDE DEF T
<1>6. Cardinality(S) = Cardinality(T) + b.len BY <1>2, <1>3
<1>7. Cardinality(T) = Cardinality(S) - b.len BY <1>5, <1>6
<1>. QED BY <1>7 DEF T

-----------------------------------------------------------------------------
(* Taking one end of a free block, as getmem() and getstk() do.            *)
LEMMA TakeKeeps ==
  ASSUME MemInv, NEW b \in memlist, NEW got \in MemBlk,
         NEW rest \in SUBSET MemBlk,
         \A r, s \in rest : r = s,
         \A x : x \in Extent(b) <=> x \in Extent(got) \/ \E r \in rest : x \in Extent(r),
         \A r \in rest : /\ b.addr <= r.addr /\ r.addr + r.len <= b.addr + b.len
                         /\ Extent(r) \cap Extent(got) = {},
         memlist' = (memlist \ {b}) \cup rest,
         memleft' = memleft - got.len,
         memused' = memused \cup Extent(got)
  PROVE  MemInv'
<1>. USE DEF MemInv
<1>b. b \in MemBlk OBVIOUS
<1>i. \A c \in MemBlk : c.addr \in Nat /\ c.len \in Nat \ {0} BY DEF MemBlk
<1>g. Extent(got) \subseteq MemCells /\ memused \cap Extent(got) = {} BY DEF IsFree
<1>1. memlist' \subseteq MemBlk BY <1>b
<1>2. memused' \subseteq MemCells BY <1>g
<1>3. ASSUME NEW c \in memlist', NEW d \in memlist', c # d PROVE Apart(c, d)
  <2>1. CASE c \in rest /\ d \notin rest
    <3>1. d \in memlist /\ d # b BY <2>1, <1>3
    <3>2. Apart(b, d) BY <3>1
    <3>. QED BY <2>1, <3>1, <3>2, <1>i, <1>b DEF Apart
  <2>2. CASE d \in rest /\ c \notin rest
    <3>1. c \in memlist /\ c # b BY <2>2, <1>3
    <3>2. Apart(b, c) BY <3>1
    <3>. QED BY <2>2, <3>1, <3>2, <1>i, <1>b DEF Apart
  <2>3. CASE c \in rest /\ d \in rest BY <2>3, <1>3
  <2>4. CASE c \notin rest /\ d \notin rest BY <2>4, <1>3
  <2>. QED BY <2>1, <2>2, <2>3, <2>4
<1>4. ASSUME NEW x PROVE IsFree(x)' <=> x \in MemCells /\ x \notin memused'
  <2>1. \A c \in memlist : c # b => ~(x \in Extent(b) /\ x \in Extent(c))
    <3>. SUFFICES ASSUME NEW c \in memlist, c # b, x \in Extent(b), x \in Extent(c) PROVE FALSE
      OBVIOUS
    <3>1. Apart(b, c) OBVIOUS
    <3>2. c \in MemBlk OBVIOUS
    <3>3. x \in Int /\ b.addr <= x /\ x < b.addr + b.len /\ c.addr <= x /\ x < c.addr + c.len
      BY <1>b, <3>2, ExtentCells
    <3>. QED BY <3>1, <3>2, <3>3, <1>b, <1>i DEF Apart
  <2>2. IsFree(x)' <=> \E c \in memlist' : x \in Extent(c) BY DEF IsFree, Extent
  <2>3. IsFree(x)' <=> (\E c \in memlist : c # b /\ x \in Extent(c)) \/ \E r \in rest : x \in Extent(r)
    BY <2>2
  <2>4. IsFree(x) <=> (\E c \in memlist : c # b /\ x \in Extent(c)) \/ x \in Extent(b) BY DEF IsFree
  <2>5. \A r \in rest : ~(x \in Extent(r) /\ x \in Extent(got)) OBVIOUS
  <2>6. x \in Extent(got) => x \in Extent(b) OBVIOUS
  <2>. QED BY <2>1, <2>3, <2>4, <2>5, <2>6
<1>5. memleft' = -Cardinality(memused')
  <2>1. Cardinality(memused \cup Extent(got)) = Cardinality(memused) + got.len BY <1>g, CountIn
  <2>2. IsFiniteSet(memused) BY MemAssumption, FS_Subset
  <2>3. Cardinality(memused) \in Nat BY <2>2, FS_CardinalityType
  <2>. QED BY <2>1, <2>3, <1>i
<1>. QED BY <1>1, <1>2, <1>3, <1>4, <1>5 DEF IsFree, Apart, MemCells, Extent

LEMMA GetmemKeeps == ASSUME MemInv, NEW n \in MemRequest, NEW b \in memlist, getmem(n, b) PROVE MemInv'
<1>. DEFINE size == roundmb(n)
            got  == [addr |-> b.addr, len |-> size]
            rest == IF b.len = size THEN {} ELSE {[addr |-> b.addr + size, len |-> b.len - size]}
<1>1. size \in Nat \ {0} BY RoundPositive
<1>2. b \in MemBlk BY DEF MemInv
<1>3. b.addr \in Nat /\ b.len \in Nat \ {0} BY <1>2 DEF MemBlk
<1>4. /\ b.len >= size /\ memlist' = (memlist \ {b}) \cup rest /\ memleft' = memleft - size
      /\ memused' = memused \cup Extent(got) BY DEF getmem
<1>. HIDE DEF size
<1>5. got \in MemBlk BY <1>1, <1>3 DEF MemBlk
<1>6. rest \in SUBSET MemBlk BY <1>1, <1>3, <1>4 DEF MemBlk
<1>7. \A x : x \in Extent(b) <=> x \in Extent(got) \/ \E r \in rest : x \in Extent(r)
  <2>1. CASE b.len = size BY <2>1 DEF Extent
  <2>2. CASE b.len # size
    <3>. DEFINE high == [addr |-> b.addr + size, len |-> b.len - size]
    <3>1. rest = {high} /\ high \in MemBlk BY <2>2, <1>6
    <3>2. high.addr = b.addr + size /\ high.addr + high.len = b.addr + b.len BY <1>1, <1>3
    <3>3. got.addr = b.addr /\ got.addr + got.len = b.addr + size BY <1>1, <1>3
    <3>. HIDE DEF high, got, rest
    <3>4. \A x : x \in Extent(high) <=> x \in Int /\ high.addr <= x /\ x < high.addr + high.len
      BY <3>1, ExtentCells
    <3>5. \A x : x \in Extent(got) <=> x \in Int /\ got.addr <= x /\ x < got.addr + got.len
      BY <1>5, ExtentCells
    <3>6. \A x : x \in Extent(b) <=> x \in Int /\ b.addr <= x /\ x < b.addr + b.len
      BY <1>2, ExtentCells
    <3>7. \A x : x \in Extent(b) <=> x \in Extent(got) \/ x \in Extent(high)
      BY <1>1, <1>3, <1>4, <3>2, <3>3, <3>4, <3>5, <3>6
    <3>. QED BY <3>1, <3>7
  <2>. QED BY <2>1, <2>2
<1>8. \A r \in rest : /\ b.addr <= r.addr /\ r.addr + r.len <= b.addr + b.len
                      /\ Extent(r) \cap Extent(got) = {} BY <1>1, <1>3, <1>4 DEF Extent
<1>9. got.len = size OBVIOUS
<1>10. \A r, s \in rest : r = s OBVIOUS
<1>. HIDE DEF got, rest
<1>. QED BY <1>4, <1>5, <1>6, <1>7, <1>8, <1>9, <1>10, TakeKeeps

LEMMA GetstkKeeps == ASSUME MemInv, NEW n \in MemRequest, NEW b \in memlist, getstk(n, b) PROVE MemInv'
<1>. DEFINE size == roundmb(n)
            got  == [addr |-> b.addr + b.len - size, len |-> size]
            rest == IF b.len = size THEN {} ELSE {[addr |-> b.addr, len |-> b.len - size]}
<1>1. size \in Nat \ {0} BY RoundPositive
<1>2. b \in MemBlk BY DEF MemInv
<1>3. b.addr \in Nat /\ b.len \in Nat \ {0} BY <1>2 DEF MemBlk
<1>4. /\ b.len >= size /\ memlist' = (memlist \ {b}) \cup rest /\ memleft' = memleft - size
      /\ memused' = memused \cup Extent(got) BY DEF getstk
<1>. HIDE DEF size
<1>5. got \in MemBlk BY <1>1, <1>3, <1>4 DEF MemBlk
<1>6. rest \in SUBSET MemBlk BY <1>1, <1>3, <1>4 DEF MemBlk
<1>7. \A x : x \in Extent(b) <=> x \in Extent(got) \/ \E r \in rest : x \in Extent(r)
  <2>1. CASE b.len = size BY <2>1, <1>1, <1>3 DEF Extent
  <2>2. CASE b.len # size
    <3>. DEFINE high == [addr |-> b.addr, len |-> b.len - size]
    <3>1. rest = {high} /\ high \in MemBlk BY <2>2, <1>6
    <3>2. high.addr = b.addr /\ high.addr + high.len = b.addr + b.len - size BY <1>1, <1>3
    <3>3. got.addr = b.addr + b.len - size /\ got.addr + got.len = b.addr + b.len BY <1>1, <1>3
    <3>. HIDE DEF high, got, rest
    <3>4. \A x : x \in Extent(high) <=> x \in Int /\ high.addr <= x /\ x < high.addr + high.len
      BY <3>1, ExtentCells
    <3>5. \A x : x \in Extent(got) <=> x \in Int /\ got.addr <= x /\ x < got.addr + got.len
      BY <1>5, ExtentCells
    <3>6. \A x : x \in Extent(b) <=> x \in Int /\ b.addr <= x /\ x < b.addr + b.len
      BY <1>2, ExtentCells
    <3>7. \A x : x \in Extent(b) <=> x \in Extent(got) \/ x \in Extent(high)
      BY <1>1, <1>3, <1>4, <3>2, <3>3, <3>4, <3>5, <3>6
    <3>. QED BY <3>1, <3>7
  <2>. QED BY <2>1, <2>2
<1>8. \A r \in rest : /\ b.addr <= r.addr /\ r.addr + r.len <= b.addr + b.len
                      /\ Extent(r) \cap Extent(got) = {} BY <1>1, <1>3, <1>4 DEF Extent
<1>9. got.len = size OBVIOUS
<1>10. \A r, s \in rest : r = s OBVIOUS
<1>. HIDE DEF got, rest
<1>. QED BY <1>4, <1>5, <1>6, <1>7, <1>8, <1>9, <1>10, TakeKeeps

-----------------------------------------------------------------------------
(* A block that is not refused holds no free cell: if a free block reached *)
(* into it from below, that block would be the one just before it.         *)
LEMMA BeforeIsLast ==
  ASSUME MemInv, NEW a \in Nat, NEW p \in memlist, p.addr < a, p.addr + p.len >= a
  PROVE  p \in Before(a)
<1>1. ASSUME NEW q \in memlist, q.addr < a PROVE q.addr <= p.addr
  <2>1. p \in MemBlk /\ q \in MemBlk BY DEF MemInv
  <2>2. /\ p.addr \in Nat /\ p.len \in Nat \ {0} /\ q.addr \in Nat /\ q.len \in Nat \ {0}
    BY <2>1 DEF MemBlk
  <2>3. q = p \/ Apart(p, q) BY DEF MemInv
  <2>. QED BY <2>2, <2>3, <1>1 DEF Apart
<1>. QED BY <1>1 DEF Before

LEMMA FreememKeeps == ASSUME MemInv, NEW n \in MemRequest, NEW a \in MemCells, freemem(a, n) PROVE MemInv'
<1>. DEFINE size  == roundmb(n)
            block == [addr |-> a, len |-> size]
            low   == {p \in Before(a) : p.addr + p.len = a}
            high  == {p \in Behind(a) : p.addr = a + size}
            start == IF low = {} THEN a ELSE (CHOOSE p \in low : TRUE).addr
            end   == IF high = {} THEN a + size
                     ELSE LET p == CHOOSE p \in high : TRUE IN p.addr + p.len
            new   == [addr |-> start, len |-> end - start]
<1>1. size \in Nat \ {0} BY RoundPositive
<1>2. a \in Nat
  <2>1. PICK r \in MemMap : a \in Extent(r) BY DEF MemCells
  <2>2. r \in MemBlk BY MemAssumption
  <2>. QED BY <2>1, <2>2, ExtentCells DEF MemBlk
<1>3. /\ \E r \in MemMap : Extent(block) \subseteq Extent(r)
      /\ ~Overlaps(block)
      /\ memlist' = (memlist \ (low \cup high)) \cup {new}
      /\ memleft' = memleft + size
      /\ memused' = memused \ Extent(block)
  BY DEF freemem
<1>4. block \in MemBlk /\ block.addr = a /\ block.len = size BY <1>1, <1>2 DEF MemBlk
<1>5. \A x : x \in Extent(block) <=> x \in Int /\ a <= x /\ x < a + size BY <1>4, ExtentCells
<1>6. Extent(block) \subseteq MemCells BY <1>3 DEF MemCells
<1>. HIDE DEF size, block
<1>7. \A p \in memlist : p \in MemBlk /\ p.addr \in Nat /\ p.len \in Nat \ {0} BY DEF MemInv, MemBlk
<1>8. \A p \in memlist : \A x : x \in Extent(p) <=> x \in Int /\ p.addr <= x /\ x < p.addr + p.len
  BY <1>7, ExtentCells
(* No free block overlaps the one given back. *)
<1>9. \A p \in memlist : p.addr + p.len <= a \/ a + size <= p.addr
  <2>. SUFFICES ASSUME NEW p \in memlist, p.addr + p.len > a, p.addr < a + size PROVE FALSE
    BY <1>1, <1>2, <1>7
  <2>1. CASE p.addr < a
    <3>1. p \in Before(a) BY <2>1, <1>2, <1>7, BeforeIsLast
    <3>. QED BY <3>1, <1>3, <1>4 DEF Overlaps
  <2>2. CASE p.addr >= a
    <3>1. p \in Behind(a) BY <2>2 DEF Behind
    <3>. QED BY <3>1, <1>3, <1>4 DEF Overlaps
  <2>. QED BY <2>1, <2>2, <1>2, <1>7
<1>10. Extent(block) \subseteq memused
  <2>. SUFFICES ASSUME NEW x \in Extent(block), x \notin memused PROVE FALSE OBVIOUS
  <2>1. PICK p \in memlist : x \in Extent(p) BY <1>6 DEF MemInv, IsFree
  <2>2. x \in Int /\ p.addr <= x /\ x < p.addr + p.len /\ a <= x /\ x < a + size
    BY <2>1, <1>5, <1>8
  <2>. QED BY <2>2, <1>1, <1>2, <1>7, <1>9
(* The blocks that are joined are those that touch it. *)
<1>11. low = {p \in memlist : p.addr + p.len = a}
  <2>1. \A p \in memlist : p.addr + p.len = a => p \in Before(a)
    <3>. SUFFICES ASSUME NEW p \in memlist, p.addr + p.len = a PROVE p \in Before(a) OBVIOUS
    <3>1. p.addr < a /\ p.addr + p.len >= a BY <1>2, <1>7
    <3>. QED BY <3>1, <1>2, BeforeIsLast
  <2>. QED BY <2>1 DEF Before
<1>12. high = {p \in memlist : p.addr = a + size} BY <1>1, <1>2, <1>7 DEF Behind
<1>. HIDE DEF low, high
<1>13. \/ low = {} /\ start = a
       \/ \E p \in memlist : low = {p} /\ start = p.addr /\ p.addr + p.len = a
  <2>1. CASE low = {} BY <2>1
  <2>2. CASE low # {}
    <3>. DEFINE p == CHOOSE q \in low : TRUE
    <3>1. p \in low BY <2>2
    <3>2. start = p.addr BY <2>2
    <3>. HIDE DEF p
    <3>3. \A q \in low : q = p
      <4>. SUFFICES ASSUME NEW q \in low, q # p PROVE FALSE OBVIOUS
      <4>1. p \in memlist /\ q \in memlist /\ p.addr + p.len = a /\ q.addr + q.len = a
        BY <3>1, <1>11
      <4>2. Apart(p, q) BY <4>1 DEF MemInv
      <4>. QED BY <4>1, <4>2, <1>7, <1>2 DEF Apart
    <3>. QED BY <3>1, <3>2, <3>3, <1>11
  <2>. QED BY <2>1, <2>2
<1>14. \/ high = {} /\ end = a + size
       \/ \E p \in memlist : high = {p} /\ end = p.addr + p.len /\ p.addr = a + size
  <2>1. CASE high = {} BY <2>1
  <2>2. CASE high # {}
    <3>. DEFINE p == CHOOSE q \in high : TRUE
    <3>1. p \in high BY <2>2
    <3>2. end = p.addr + p.len BY <2>2
    <3>. HIDE DEF p
    <3>3. \A q \in high : q = p
      <4>. SUFFICES ASSUME NEW q \in high, q # p PROVE FALSE OBVIOUS
      <4>1. p \in memlist /\ q \in memlist /\ p.addr = a + size /\ q.addr = a + size
        BY <3>1, <1>12
      <4>2. Apart(p, q) BY <4>1 DEF MemInv
      <4>. QED BY <4>1, <4>2, <1>7, <1>1, <1>2 DEF Apart
    <3>. QED BY <3>1, <3>2, <3>3, <1>12
  <2>. QED BY <2>1, <2>2
<1>. HIDE DEF start, end
<1>15. start \in Nat /\ end \in Nat /\ start <= a /\ a + size <= end BY <1>1, <1>2, <1>7, <1>13, <1>14
<1>16. new \in MemBlk /\ new.addr = start /\ new.addr + new.len = end BY <1>1, <1>2, <1>15 DEF MemBlk
<1>17. \A x : x \in Extent(new) <=> x \in Int /\ start <= x /\ x < end BY <1>16, ExtentCells
<1>. HIDE DEF new
<1>18. memlist' \subseteq MemBlk BY <1>3, <1>7, <1>16
<1>19. memused' \subseteq MemCells BY <1>3 DEF MemInv
(* The joined block is as far from every other as each of its parts. *)
<1>20. ASSUME NEW c \in memlist, c \notin low \cup high PROVE Apart(new, c) /\ Apart(c, new)
  <2>1. c.addr + c.len < a \/ a + size < c.addr
    BY <1>1, <1>2, <1>7, <1>9, <1>11, <1>12, <1>20
  <2>2. c.addr + c.len < start \/ start <= c.addr
    <3>1. CASE start = a BY <3>1, <2>1, <1>1, <1>2, <1>7
    <3>2. CASE \E p \in memlist : low = {p} /\ start = p.addr /\ p.addr + p.len = a
      <4>1. PICK p \in memlist : low = {p} /\ start = p.addr /\ p.addr + p.len = a BY <3>2
      <4>2. Apart(c, p) BY <4>1, <1>20 DEF MemInv
      <4>. QED BY <4>1, <4>2, <1>2, <1>7 DEF Apart
    <3>. QED BY <3>1, <3>2, <1>13
  <2>3. c.addr + c.len < start \/ a + size < c.addr
    <3>1. CASE start = a BY <3>1, <2>1
    <3>2. CASE \E p \in memlist : low = {p} /\ start = p.addr /\ p.addr + p.len = a
      <4>1. PICK p \in memlist : low = {p} /\ start = p.addr /\ p.addr + p.len = a BY <3>2
      <4>2. Apart(c, p) BY <4>1, <1>20 DEF MemInv
      <4>. QED BY <4>1, <4>2, <2>1, <1>2, <1>7 DEF Apart
    <3>. QED BY <3>1, <3>2, <1>13
  <2>4. c.addr + c.len < start \/ end < c.addr
    <3>1. CASE end = a + size BY <3>1, <2>3
    <3>2. CASE \E p \in memlist : high = {p} /\ end = p.addr + p.len /\ p.addr = a + size
      <4>1. PICK p \in memlist : high = {p} /\ end = p.addr + p.len /\ p.addr = a + size BY <3>2
      <4>2. Apart(c, p) BY <4>1, <1>20 DEF MemInv
      <4>. QED BY <4>1, <4>2, <2>3, <1>1, <1>2, <1>7 DEF Apart
    <3>. QED BY <3>1, <3>2, <1>14
  <2>. QED BY <2>4, <1>7, <1>15, <1>16 DEF Apart
<1>21. ASSUME NEW c \in memlist', NEW d \in memlist', c # d PROVE Apart(c, d)
  <2>1. CASE c = new
    <3>1. d \in memlist /\ d \notin low \cup high BY <2>1, <1>21, <1>3
    <3>. QED BY <2>1, <3>1, <1>20
  <2>2. CASE d = new
    <3>1. c \in memlist /\ c \notin low \cup high BY <2>2, <1>21, <1>3
    <3>. QED BY <2>2, <3>1, <1>20
  <2>3. CASE c # new /\ d # new BY <2>3, <1>3, <1>21 DEF MemInv
  <2>. QED BY <2>1, <2>2, <2>3
(* Its cells are those given back and those of the blocks it replaces. *)
<1>22. \A x : x \in Extent(new) <=> x \in Extent(block) \/ \E p \in low \cup high : x \in Extent(p)
  <2>1. \A x : (x \in Int /\ start <= x /\ x < a) <=> \E p \in low : x \in Extent(p)
    <3>1. CASE low = {} /\ start = a BY <3>1, <1>2
    <3>2. CASE \E p \in memlist : low = {p} /\ start = p.addr /\ p.addr + p.len = a BY <3>2, <1>8
    <3>. QED BY <3>1, <3>2, <1>13
  <2>2. \A x : (x \in Int /\ a + size <= x /\ x < end) <=> \E p \in high : x \in Extent(p)
    <3>1. CASE high = {} /\ end = a + size BY <3>1, <1>1, <1>2
    <3>2. CASE \E p \in memlist : high = {p} /\ end = p.addr + p.len /\ p.addr = a + size
      BY <3>2, <1>8
    <3>. QED BY <3>1, <3>2, <1>14
  <2>3. \A x : x \in Extent(new) <=> \/ x \in Int /\ start <= x /\ x < a
                                     \/ x \in Extent(block)
                                     \/ x \in Int /\ a + size <= x /\ x < end
    BY <1>1, <1>2, <1>5, <1>15, <1>17
  <2>. QED BY <2>1, <2>2, <2>3
<1>23. ASSUME NEW x PROVE IsFree(x)' <=> x \in MemCells /\ x \notin memused'
  <2>1. IsFree(x)' <=> \E c \in memlist' : x \in Extent(c) BY DEF IsFree, Extent
  <2>2. low \cup high \subseteq memlist BY <1>11, <1>12
  <2>3. IsFree(x)' <=> \/ \E c \in memlist \ (low \cup high) : x \in Extent(c)
                     \/ x \in Extent(new)
    BY <2>1, <1>3
  <2>4. IsFree(x)' <=> IsFree(x) \/ x \in Extent(block) BY <2>2, <2>3, <1>22 DEF IsFree
  <2>. QED BY <2>4, <1>3, <1>6, <1>10 DEF MemInv
<1>24. memleft' = -Cardinality(memused')
  <2>1. memused \in SUBSET MemCells BY DEF MemInv
  <2>2. Cardinality(memused \ Extent(block)) = Cardinality(memused) - size
    BY <2>1, <1>4, <1>10, CountOut
  <2>3. IsFiniteSet(memused) BY <2>1, MemAssumption, FS_Subset
  <2>4. Cardinality(memused) \in Nat BY <2>3, FS_CardinalityType
  <2>. QED BY <2>2, <2>4, <1>1, <1>3 DEF MemInv
<1>. QED BY <1>18, <1>19, <1>21, <1>23, <1>24 DEF MemInv, IsFree, Apart, MemCells, Extent

-----------------------------------------------------------------------------
LEMMA MemInitHolds == MemInit => MemInv
<1>. SUFFICES ASSUME MemInit PROVE MemInv OBVIOUS
<1>1. memlist = MemMap /\ memleft = 0 /\ memused = {} BY DEF MemInit
<1>2. \A x : IsFree(x) <=> x \in MemCells BY <1>1 DEF IsFree, MemCells
<1>3. Cardinality(memused) = 0 BY <1>1, FS_EmptySet
<1>. QED BY <1>1, <1>2, <1>3, MemAssumption DEF MemInv

LEMMA MemStepKeeps == MemInv /\ [MemNext]_MemVars => MemInv'
<1>. SUFFICES ASSUME MemInv, [MemNext]_MemVars PROVE MemInv' OBVIOUS
<1>1. CASE \E n \in MemRequest, b \in memlist : getmem(n, b) BY <1>1, GetmemKeeps
<1>2. CASE \E n \in MemRequest, b \in memlist : getstk(n, b) BY <1>2, GetstkKeeps
<1>3. CASE \E n \in MemRequest, a \in MemCells : freemem(a, n) BY <1>3, FreememKeeps
<1>4. CASE UNCHANGED MemVars BY <1>4 DEF MemVars, MemInv, IsFree, Apart, MemCells, Extent
<1>. QED BY <1>1, <1>2, <1>3, <1>4 DEF MemNext

(* The free list is exact in every reachable state: nothing that is handed *)
(* out is free, nothing is lost, neighbours are joined (freemem.c:43).     *)
THEOREM MemListExactHolds == MemSpec => []MemListExact
<1>1. MemInv => MemListExact
  <2>. SUFFICES ASSUME MemInv PROVE MemListExact OBVIOUS
  <2>1. UNION {Extent(b) : b \in memlist} = MemCells \ memused
    <3>1. \A x : x \in UNION {Extent(b) : b \in memlist} <=> IsFree(x) BY DEF IsFree
    <3>. QED BY <3>1 DEF MemInv
  <2>. QED BY <2>1 DEF MemInv, MemListExact
<1>. QED BY <1>1, MemInitHolds, MemStepKeeps, PTL DEF MemSpec

-----------------------------------------------------------------------------
(* A mark holds, for any number of processes and locations and any size of *)
(* the table: the mutex makes the three assignments of mark() one.         *)

MkInside(p) == mkpc[p].pc \in {"count", "store"}
Storing(l) == \E q \in MkProc : mkpc[q].pc = "store" /\ mkpc[q].loc = l

MkTypes ==
  /\ marks \in [0..MAXMARK -> MkLoc \cup {MkNone}]
  /\ nmarks \in 0..(MAXMARK + 1)
  /\ mkloc \in [MkLoc -> Int]
  /\ mkpc \in [MkProc -> [pc : {"idle", "limit", "wait", "count", "store", "OK", "SYSERR"},
                          loc : MkLoc \cup {MkNone}, n : Nat]]
  /\ \A p \in MkProc : mkpc[p].pc # "idle" => mkpc[p].loc \in MkLoc

(* Only the holder of the mutex is between reading nmarks and the end.     *)
MkExclusive == \A p \in MkProc : MkInside(p) => mkmutex = p
MkHolder ==
  \A p \in MkProc :
    /\ mkpc[p].pc = "count" => mkpc[p].n = nmarks
    /\ mkpc[p].pc = "store" => /\ mkpc[p].n = nmarks - 1 /\ mkpc[p].n >= 0
                               /\ mkloc[mkpc[p].loc] = mkpc[p].n
                               /\ marks[mkpc[p].n] = MkNone
(* The table is empty from nmarks on, and before it refers to what mark()  *)
(* has put there.                                                          *)
MkTable ==
  /\ \A i \in 0..MAXMARK : i >= nmarks => marks[i] = MkNone
  /\ \A i \in 0..MAXMARK : marks[i] \in mkgiven \cup {MkNone}
MkDone == \A p \in MkProc : mkpc[p].pc = "OK" => ~notmarked(mkpc[p].loc) \/ Storing(mkpc[p].loc)

MkInv == MkTypes /\ MkExclusive /\ MkHolder /\ MkTable /\ MkDone

LEMMA MkInitHolds == MkInit => MkInv
  BY MarksAssumption
  DEF MkInit, MkInv, MkTypes, MkExclusive, MkInside, MkHolder, MkTable, MkDone, MkAt

LEMMA MkInvShows == MkInv => MarkedStaysMarked
<1>. SUFFICES ASSUME MkInv, NEW l \in MkLoc
     PROVE  /\ (\E p \in MkProc : mkpc[p].pc = "OK" /\ mkpc[p].loc = l) /\ ~Storing(l) => ~notmarked(l)
            /\ ~notmarked(l) => l \in mkgiven
  BY DEF MarkedStaysMarked, Storing
<1>1. (\E p \in MkProc : mkpc[p].pc = "OK" /\ mkpc[p].loc = l) /\ ~Storing(l) => ~notmarked(l)
  BY DEF MkInv, MkDone
<1>2. ASSUME ~notmarked(l) PROVE l \in mkgiven
  <2>1. mkloc[l] \in 0..MAXMARK /\ marks[mkloc[l]] = l
    BY <1>2, MarksAssumption DEF MkInv, MkTypes, notmarked
  <2>. QED BY <2>1, MarksAssumption DEF MkInv, MkTable
<1>. QED BY <1>1, <1>2

-----------------------------------------------------------------------------
(* Steps that change nothing but where a process is in mark().             *)
LEMMA MovesKeep ==
  ASSUME MkInv, NEW p \in MkProc, UNCHANGED <<marks, nmarks, mkloc, mkgiven>>,
         NEW k \in [pc : {"limit", "wait", "count", "OK", "SYSERR"}, loc : MkLoc, n : Nat],
         mkpc' = [mkpc EXCEPT ![p] = k], ~MkInside(p),
         k.pc = "OK" => ~notmarked(k.loc),
         k.pc = "count" => k.n = nmarks /\ mkmutex = MkNone /\ mkmutex' = p,
         k.pc # "count" => mkmutex' = mkmutex
  PROVE  MkInv'
<1>1. /\ mkpc'[p] = k
      /\ \A q \in MkProc : q # p => mkpc'[q] = mkpc[q]
  BY DEF MkInv, MkTypes
<1>2. MkTypes' BY <1>1 DEF MkInv, MkTypes
<1>3. MkExclusive'
  <2>1. CASE k.pc = "count"
    <3>1. \A q \in MkProc : ~MkInside(q) BY <2>1, MarksAssumption DEF MkInv, MkExclusive
    <3>. QED BY <1>1, <2>1, <3>1 DEF MkExclusive, MkInside
  <2>2. CASE k.pc # "count" BY <1>1, <2>2 DEF MkInv, MkExclusive, MkInside
  <2>. QED BY <2>1, <2>2
<1>4. MkHolder' BY <1>1 DEF MkInv, MkHolder
<1>5. MkTable' BY DEF MkInv, MkTable
<1>6. MkDone'
  <2>1. \A l : notmarked(l)' <=> notmarked(l) BY DEF notmarked
  <2>2. \A l : Storing(l) => Storing(l)' BY <1>1 DEF Storing, MkInside
  <2>. QED BY <1>1, <2>1, <2>2 DEF MkInv, MkDone
<1>. QED BY <1>2, <1>3, <1>4, <1>5, <1>6 DEF MkInv

LEMMA CallKeeps == ASSUME MkInv, NEW p \in MkProc, NEW l \in MkLoc, mark(p, l) PROVE MkInv'
<1> DEFINE k == MkAt(IF notmarked(l) THEN "limit" ELSE "OK", l, 0)
<1>1. k \in [pc : {"limit", "wait", "count", "OK", "SYSERR"}, loc : MkLoc, n : Nat] BY DEF MkAt
<1>2. k.pc # "count" /\ k.loc = l /\ (k.pc = "OK" => ~notmarked(l)) BY DEF MkAt
<1>3. mkpc' = [mkpc EXCEPT ![p] = k] /\ UNCHANGED <<marks, nmarks, mkloc, mkmutex, mkgiven>> BY DEF mark
<1>4. ~MkInside(p) BY DEF mark, MkInside
<1> HIDE DEF k
<1>. QED BY <1>1, <1>2, <1>3, <1>4, MovesKeep

LEMMA LimitKeeps == ASSUME MkInv, NEW p \in MkProc, MarkLimit(p) PROVE MkInv'
<1> DEFINE k == [mkpc[p] EXCEPT !.pc = IF nmarks >= MAXMARK THEN "SYSERR" ELSE "wait"]
<1>1. k \in [pc : {"limit", "wait", "count", "OK", "SYSERR"}, loc : MkLoc, n : Nat]
      /\ k.pc \notin {"count", "OK"}
  BY DEF MkInv, MkTypes, MarkLimit
<1>2. mkpc' = [mkpc EXCEPT ![p] = k] BY DEF MarkLimit, MkGoes
<1>3. ~MkInside(p) /\ UNCHANGED <<marks, nmarks, mkloc, mkmutex, mkgiven>> BY DEF MarkLimit, MkInside
<1> HIDE DEF k
<1>. QED BY <1>1, <1>2, <1>3, MovesKeep

LEMMA WaitsKeeps == ASSUME MkInv, NEW p \in MkProc, MarkWaits(p) PROVE MkInv'
<1> DEFINE k == [mkpc[p] EXCEPT !.pc = "count", !.n = nmarks]
<1>1. k \in [pc : {"limit", "wait", "count", "OK", "SYSERR"}, loc : MkLoc, n : Nat]
      /\ k.pc = "count" /\ k.n = nmarks
  <2>1. nmarks \in Nat BY MarksAssumption DEF MkInv, MkTypes
  <2>2. mkpc[p] \in [pc : {"wait"}, loc : MkLoc, n : Nat] BY DEF MkInv, MkTypes, MarkWaits
  <2>. QED BY <2>1, <2>2
<1>2. mkpc' = [mkpc EXCEPT ![p] = k] BY DEF MarkWaits, MkInv, MkTypes
<1>3. ~MkInside(p) /\ mkmutex = MkNone /\ mkmutex' = p /\ UNCHANGED <<marks, nmarks, mkloc, mkgiven>>
  BY DEF MarkWaits, MkInside
<1> HIDE DEF k
<1>. QED BY <1>1, <1>2, <1>3, MovesKeep

-----------------------------------------------------------------------------
(* The assignment.  Nobody else is inside.                                 *)
LEMMA Alone == ASSUME MkInv, NEW p \in MkProc, MkInside(p)
               PROVE  \A q \in MkProc : q # p => ~MkInside(q)
  BY DEF MkInv, MkExclusive

LEMMA CountsKeeps == ASSUME MkInv, ~MkOverrun, NEW p \in MkProc, MarkCounts(p) PROVE MkInv'
<1> DEFINE k == [mkpc[p] EXCEPT !.pc = "store"]
<1>1. /\ mkpc[p].pc = "count" /\ mkpc[p].n = nmarks /\ mkpc[p].loc \in MkLoc
      /\ nmarks \in 0..MAXMARK /\ mkpc[p] \in [pc : {"count"}, loc : MkLoc, n : Nat]
  BY MarksAssumption DEF MarkCounts, MkInv, MkTypes, MkHolder, MkOverrun
<1>2. /\ mkpc' = [mkpc EXCEPT ![p] = k] /\ nmarks' = nmarks + 1
      /\ mkloc' = [mkloc EXCEPT ![mkpc[p].loc] = nmarks] /\ UNCHANGED <<marks, mkmutex, mkgiven>>
  BY <1>1 DEF MarkCounts, MkGoes
<1>3. k \in [pc : {"store"}, loc : MkLoc, n : Nat] /\ k.pc = "store" /\ k.loc = mkpc[p].loc /\ k.n = nmarks
  BY <1>1
<1> HIDE DEF k
<1>4. mkpc'[p] = k /\ \A q \in MkProc : q # p => mkpc'[q] = mkpc[q] BY <1>2 DEF MkInv, MkTypes
<1>5. \A q \in MkProc : q # p => ~MkInside(q) BY <1>1, Alone DEF MkInside
<1>6. MkTypes' BY <1>1, <1>2, <1>3, <1>4, MarksAssumption DEF MkInv, MkTypes
<1>7. MkExclusive' BY <1>1, <1>2, <1>4, <1>5 DEF MkInv, MkExclusive, MkInside
<1>8. MkHolder'
  <2>1. mkloc'[k.loc] = nmarks BY <1>1, <1>2, <1>3 DEF MkInv, MkTypes
  <2>2. marks[nmarks] = MkNone BY <1>1 DEF MkInv, MkTable
  <2>. QED BY <1>1, <1>2, <1>3, <1>4, <1>5, <2>1, <2>2 DEF MkHolder, MkInside
<1>9. MkTable' BY <1>1, <1>2, MarksAssumption DEF MkInv, MkTable
<1>10. MkDone'
  <2>1. SUFFICES ASSUME NEW q \in MkProc, mkpc'[q].pc = "OK"
                 PROVE  (~notmarked(mkpc[q].loc) \/ Storing(mkpc[q].loc))'
    BY DEF MkDone
  <2>2. PICK l \in MkLoc : l = mkpc[q].loc /\ l = mkpc'[q].loc
    BY <1>3, <1>4, <2>1 DEF MkInv, MkTypes
  <2>3. CASE l = k.loc
    <3>1. Storing(l)' BY <1>3, <1>4, <2>3 DEF Storing
    <3>. QED BY <2>2, <3>1 DEF Storing
  <2>4. CASE l # k.loc
    <3>1. ~Storing(l) BY <1>1, <1>3, <1>5, <2>4 DEF Storing, MkInside
    <3>2. ~notmarked(l) BY <1>3, <1>4, <2>1, <2>2, <3>1 DEF MkInv, MkDone
    <3>3. mkloc'[l] = mkloc[l] BY <1>2, <1>3, <2>4 DEF MkInv, MkTypes
    <3>4. ~notmarked(l)' BY <1>1, <1>2, <3>2, <3>3 DEF notmarked, MkInv, MkTypes
    <3>. QED BY <2>2, <3>4 DEF notmarked
  <2>. QED BY <2>3, <2>4
<1>. QED BY <1>6, <1>7, <1>8, <1>9, <1>10 DEF MkInv

LEMMA StoresKeeps == ASSUME MkInv, ~MkOverrun, NEW p \in MkProc, MarkStores(p) PROVE MkInv'
<1> DEFINE k == [mkpc[p] EXCEPT !.pc = "OK"]
<1>1. /\ mkpc[p].pc = "store" /\ mkpc[p].loc \in MkLoc /\ mkpc[p] \in [pc : {"store"}, loc : MkLoc, n : Nat]
      /\ mkpc[p].n = nmarks - 1 /\ mkpc[p].n < MAXMARK /\ mkpc[p].n \in 0..MAXMARK
      /\ mkloc[mkpc[p].loc] = mkpc[p].n /\ marks[mkpc[p].n] = MkNone /\ nmarks \in 0..MAXMARK
  BY MarksAssumption DEF MarkStores, MkInv, MkTypes, MkHolder, MkOverrun
<1>2. PICK m \in MkLoc, n \in 0..MAXMARK : m = mkpc[p].loc /\ n = mkpc[p].n BY <1>1
<1>3. /\ mkpc' = [mkpc EXCEPT ![p] = k] /\ marks' = [marks EXCEPT ![n] = m]
      /\ mkmutex' = MkNone /\ mkgiven' = mkgiven \cup {m} /\ UNCHANGED <<nmarks, mkloc>>
  BY <1>1, <1>2 DEF MarkStores, MkGoes
<1>4. k \in [pc : {"OK"}, loc : MkLoc, n : Nat] /\ k.pc = "OK" /\ k.loc = m BY <1>1, <1>2
<1> HIDE DEF k
<1>5. mkpc'[p] = k /\ \A q \in MkProc : q # p => mkpc'[q] = mkpc[q] BY <1>3 DEF MkInv, MkTypes
<1>6. \A q \in MkProc : q # p => ~MkInside(q) BY <1>1, Alone DEF MkInside
<1>7. marks'[n] = m /\ \A i \in 0..MAXMARK : i # n => marks'[i] = marks[i]
  BY <1>2, <1>3 DEF MkInv, MkTypes
<1>8. MkTypes' BY <1>1, <1>2, <1>3, <1>4, <1>5 DEF MkInv, MkTypes
<1>9. MkExclusive' BY <1>4, <1>5, <1>6 DEF MkExclusive, MkInside
<1>10. MkHolder' BY <1>4, <1>5, <1>6 DEF MkHolder, MkInside
<1>11. MkTable'
  <2>1. \A i \in 0..MAXMARK : i >= nmarks => i # n BY <1>1, <1>2
  <2>. QED BY <1>2, <1>3, <1>7, <2>1, MarksAssumption DEF MkInv, MkTable
<1>12. MkDone'
  <2>1. ~notmarked(m)' BY <1>1, <1>2, <1>3, <1>7, MarksAssumption DEF notmarked
  <2>2. ASSUME NEW l \in MkLoc, l # m, ~notmarked(l) PROVE ~notmarked(l)'
    <3>1. mkloc[l] \in 0..MAXMARK /\ marks[mkloc[l]] = l
      BY <1>1, <2>2, MarksAssumption DEF notmarked, MkInv, MkTypes
    <3>2. mkloc[l] # n BY <1>1, <1>2, <3>1, MarksAssumption
    <3>. QED BY <1>3, <1>7, <2>2, <3>1, <3>2 DEF notmarked
  <2>3. SUFFICES ASSUME NEW q \in MkProc, mkpc'[q].pc = "OK"
                 PROVE  (~notmarked(mkpc[q].loc) \/ Storing(mkpc[q].loc))'
    BY DEF MkDone
  <2>4. PICK l \in MkLoc : l = mkpc[q].loc /\ l = mkpc'[q].loc
    BY <1>2, <1>4, <1>5, <2>3 DEF MkInv, MkTypes
  <2>5. CASE l = m BY <2>1, <2>4, <2>5 DEF notmarked
  <2>6. CASE l # m
    <3>1. q # p /\ mkpc[q].pc = "OK" BY <1>4, <1>5, <2>3, <2>4, <2>6
    <3>2. ~Storing(l) BY <1>1, <1>2, <1>6, <2>6 DEF Storing, MkInside
    <3>3. ~notmarked(l) BY <2>4, <3>1, <3>2 DEF MkInv, MkDone
    <3>4. ~notmarked(l)' BY <2>2, <2>6, <3>3
    <3>. QED BY <2>4, <3>4 DEF notmarked
  <2>. QED BY <2>5, <2>6
<1>. QED BY <1>8, <1>9, <1>10, <1>11, <1>12 DEF MkInv

-----------------------------------------------------------------------------
LEMMA MkStepKeeps == MkInv /\ [MkNext]_MkVars => MkInv'
<1>. SUFFICES ASSUME MkInv, [MkNext]_MkVars PROVE MkInv' OBVIOUS
<1>1. CASE UNCHANGED MkVars
  BY <1>1 DEF MkVars, MkInv, MkTypes, MkExclusive, MkInside, MkHolder, MkTable, MkDone, notmarked, Storing
<1>2. CASE MkNext
  <2>1. PICK p \in MkProc :
          MarkLimit(p) \/ MarkWaits(p) \/ MarkCounts(p) \/ MarkStores(p) \/ (\E l \in MkLoc : mark(p, l))
    BY <1>2 DEF MkNext
  <2>2. ~MkOverrun BY <1>2 DEF MkNext
  <2>. QED BY <2>1, <2>2, LimitKeeps, WaitsKeeps, CountsKeeps, StoresKeeps, CallKeeps
<1>. QED BY <1>1, <1>2

(* Whatever processes call mark() at the same time and whatever locations  *)
(* contain before, a marked location stays marked and no other seems so    *)
(* (mark.c:37).                                                            *)
THEOREM MarkedStaysMarkedAlways == MkSpec => []MarkedStaysMarked
<1>. QED BY MkInitHolds, MkStepKeeps, MkInvShows, PTL DEF MkSpec

-----------------------------------------------------------------------------
(* Buffer pools.  The invariant says of each buffer where it is - on the   *)
(* list of its pool once, or with one process - and of each semaphore who  *)
(* is in its queue and how many it has let through.                        *)
TakenOut(b) == \E p \in BpProc : b \in bpheld[p]
Passed(i) == {p \in BpProc : bpstate[p].in \in {"passed", "killed"} /\ bpstate[p].pool = i}
Waits(p, i) == bpstate[p].in = "waits" /\ bpstate[p].pool = i
Pos(n) == IF n > 0 THEN n ELSE 0

BpTypes ==
  /\ nbpools \in Nat /\ nbpools <= NBPOOLS
  /\ bpnext \in [BpId -> Seq(BpId \X Nat)]
  /\ bpsem \in [BpId -> [count : Int, queue : Seq(BpProc)]]
  /\ bpsize \in [BpId -> Nat]
  /\ bpstate \in [BpProc -> [in : {"runs", "waits", "passed", "killed"}, pool : BpId \cup {-1}]]
  /\ bpheld \in [BpProc -> SUBSET (BpId \X Nat)]
StatesRight == \A p \in BpProc : bpstate[p].in \in {"waits", "passed"} => bpstate[p].pool \in BpId
HeldRight ==
  /\ \A p, q \in BpProc : p # q => bpheld[p] \cap bpheld[q] = {}
  /\ \A p \in BpProc : \A b \in bpheld[p] : b \in DOMAIN bpheader /\ bpheader[b] = b[1]
ListRight(i) ==
  /\ Once(bpnext[i])
  /\ \A b : InQ(bpnext[i], b) \/ (TakenOut(b) /\ b \in {i} \X Nat) <=> b \in {i} \X (1 .. bpsize[i])
  /\ \A b : ~(InQ(bpnext[i], b) /\ TakenOut(b))
LineRight(i) ==
  /\ Once(bpsem[i].queue)
  /\ \A p \in BpProc : InQ(bpsem[i].queue, p) <=> Waits(p, i)
  /\ Len(bpsem[i].queue) = Pos(- bpsem[i].count)
NumbersRight(i) == Len(bpnext[i]) = Pos(bpsem[i].count) + Cardinality(Passed(i))
Unmade(i) == i >= nbpools => bpsize[i] = 0 /\ bpsem[i].count = 0
BpInv == /\ BpTypes /\ StatesRight /\ HeldRight
         /\ \A i \in BpId : ListRight(i) /\ LineRight(i) /\ NumbersRight(i) /\ Unmade(i)

LEMMA SemSet ==
  ASSUME NEW s \in [count : Int, queue : Seq(BpProc)]
  PROVE  /\ s.count \in Int /\ s.queue \in Seq(BpProc)
         /\ \A c \in Int :
              LET t == [s EXCEPT !.count = c]
              IN t \in [count : Int, queue : Seq(BpProc)] /\ t.count = c /\ t.queue = s.queue
         /\ \A c \in Int, q \in Seq(BpProc) :
              LET t == [s EXCEPT !.count = c, !.queue = q]
              IN t \in [count : Int, queue : Seq(BpProc)] /\ t.count = c /\ t.queue = q
OBVIOUS

LEMMA InitBpInv == BpInit => BpInv
<1> SUFFICES ASSUME BpInit PROVE BpInv
  OBVIOUS
<1>1. BpTypes
  BY BuffersAssumption DEF BpInit, BpTypes, BpRuns, BpId
<1>2. StatesRight /\ HeldRight
  BY DEF BpInit, StatesRight, HeldRight, BpRuns
<1>3. ASSUME NEW i \in BpId
      PROVE ListRight(i) /\ LineRight(i) /\ NumbersRight(i) /\ Unmade(i)
  <2>1. Passed(i) = {}
    BY DEF Passed, BpInit, BpRuns
  <2>2. bpnext[i] = <<>> /\ bpsem[i].count = 0 /\ bpsem[i].queue = <<>> /\ bpsize[i] = 0
    BY DEF BpInit
  <2>3. \A x : ~InQ(<<>>, x)
    BY DEF InQ
  <2>4. ~ \E b : TakenOut(b)
    BY DEF TakenOut, BpInit
  <2>5. ListRight(i)
    <3>1. 1 .. bpsize[i] = {}
      BY <2>2
    <3> QED BY <2>2, <2>3, <2>4, <3>1 DEF ListRight, Once
  <2>6. LineRight(i)
    BY <2>2, <2>3 DEF LineRight, Once, Pos, Waits, BpInit, BpRuns
  <2>7. NumbersRight(i)
    BY <2>1, <2>2, FS_EmptySet DEF NumbersRight, Pos
  <2> QED BY <2>2, <2>5, <2>6, <2>7 DEF Unmade
<1> QED BY <1>1, <1>2, <1>3 DEF BpInv

(* Unlinking the first buffer of a list that is not empty.                 *)
LEMMA UnlinksKeeps ==
  ASSUME BpInv, NEW p \in BpProc, NEW i \in BpId, bpnext[i] # <<>>,
         Unlinks(p, i), UNCHANGED bpsize
  PROVE  /\ bpnext' \in [BpId -> Seq(BpId \X Nat)]
         /\ bpheld' \in [BpProc -> SUBSET (BpId \X Nat)]
         /\ HeldRight' /\ \A j \in BpId : ListRight(j)'
         /\ \A j \in BpId : Len(bpnext'[j]) = IF j = i THEN Len(bpnext[j]) - 1 ELSE Len(bpnext[j])
<1> DEFINE b == bpnext[i][1]
           l == bpnext[i]
           t == Tail(bpnext[i])
<1>1. l \in Seq(BpId \X Nat) /\ Once(l) /\ l # <<>>
  BY DEF BpInv, BpTypes, ListRight
<1>2. /\ t \in Seq(BpId \X Nat) /\ Len(t) = Len(l) - 1
      /\ b \in BpId \X Nat /\ InQ(l, b) /\ Once(t)
      /\ \A y : InQ(t, y) <=> InQ(l, y) /\ y # b
  <2> HIDE DEF l
  <2>1. Head(l) = l[1]
    BY <1>1
  <2> QED BY <1>1, <2>1, TailQ DEF l
<1>3. b \in {i} \X Nat /\ b[1] = i /\ ~TakenOut(b)
  BY <1>2 DEF BpInv, ListRight
<1>4. SubSeq(bpnext[i], 2, Len(bpnext[i])) = t
  BY <1>1, SubSeqTail
<1>5. /\ bpnext' = [bpnext EXCEPT ![i] = t]
      /\ bpheld' = [bpheld EXCEPT ![p] = @ \cup {b}]
      /\ bpheader' = [c \in DOMAIN bpheader \cup {b} |-> IF c = b THEN i ELSE bpheader[c]]
  BY <1>4 DEF Unlinks
<1> HIDE DEF b, t
<1>6. /\ bpnext' \in [BpId -> Seq(BpId \X Nat)]
      /\ bpheld' \in [BpProc -> SUBSET (BpId \X Nat)]
  BY <1>2, <1>5 DEF BpInv, BpTypes
<1>7. HeldRight'
  <2>1. \A q \in BpProc : b \notin bpheld[q]
    BY <1>3 DEF TakenOut
  <2>2. \A q \in BpProc : bpheld'[q] = IF q = p THEN bpheld[q] \cup {b} ELSE bpheld[q]
    BY <1>5 DEF BpInv, BpTypes
  <2>3. ASSUME NEW q \in BpProc, NEW r \in BpProc, q # r
        PROVE  bpheld'[q] \cap bpheld'[r] = {}
    <3>1. bpheld[q] \cap bpheld[r] = {}
      BY <2>3 DEF BpInv, HeldRight
    <3> QED BY <2>1, <2>2, <2>3, <3>1
  <2>4. \A q \in BpProc : \A c \in bpheld'[q] : c \in DOMAIN bpheader' /\ bpheader'[c] = c[1]
    BY <1>3, <1>5, <2>2 DEF BpInv, HeldRight
  <2> QED BY <2>3, <2>4 DEF HeldRight
<1>8. \A c : TakenOut(c)' <=> TakenOut(c) \/ c = b
  BY <1>5 DEF TakenOut, BpInv, BpTypes
<1>9. ASSUME NEW j \in BpId PROVE ListRight(j)'
  <2>0. ListRight(j)
    BY DEF BpInv
  <2>1. CASE j = i
    <3>1. bpnext'[j] = t
      BY <1>5, <2>1 DEF BpInv, BpTypes
    <3> QED BY <1>2, <1>3, <1>8, <2>0, <2>1, <3>1 DEF ListRight
  <2>2. CASE j # i
    <3>1. bpnext'[j] = bpnext[j]
      BY <1>5, <2>2 DEF BpInv, BpTypes
    <3>2. b \notin {j} \X Nat /\ ~InQ(bpnext[j], b)
      BY <1>3, <2>0, <2>2 DEF ListRight
    <3> QED BY <1>8, <2>0, <3>1, <3>2 DEF ListRight
  <2> QED BY <2>1, <2>2
<1>10. \A j \in BpId : Len(bpnext'[j]) = IF j = i THEN Len(bpnext[j]) - 1 ELSE Len(bpnext[j])
  BY <1>2, <1>5 DEF BpInv, BpTypes
<1> QED BY <1>6, <1>7, <1>9, <1>10

(* What depends on the states of the processes, when they do not change.   *)
LEMMA SameStates ==
  ASSUME UNCHANGED bpstate
  PROVE  /\ StatesRight' = StatesRight
         /\ \A i \in BpId : Passed(i)' = Passed(i) /\ \A p \in BpProc : Waits(p, i)' = Waits(p, i)
BY DEF StatesRight, Passed, Waits
LEMMA SameLists ==
  ASSUME UNCHANGED <<bpnext, bpheld, bpheader, bpsize>>
  PROVE  (HeldRight <=> HeldRight') /\ \A i : ListRight(i) <=> ListRight(i)'
BY DEF HeldRight, ListRight, TakenOut

LEMMA PassedFinite == \A i : IsFiniteSet(Passed(i)) /\ Cardinality(Passed(i)) \in Nat
<1> TAKE i
<1>1. Passed(i) \in SUBSET BpProc
  BY DEF Passed
<1> QED BY <1>1, BuffersAssumption, FS_Subset, FS_CardinalityType

LEMMA MkbufpoolKeeps ==
  ASSUME BpInv, NEW n \in BpSizes, mkbufpool(n)
  PROVE  BpInv'
<1>0. n \in Nat /\ nbpools \in BpId /\ NBPOOLS \in Nat
  BY BuffersAssumption DEF mkbufpool, BpInv, BpTypes, BpId
<1> DEFINE i == nbpools
<1>1. PICK w \in BpId : w = i
  BY <1>0
<1>2. /\ bpnext' = [bpnext EXCEPT ![w] = BpLinked(w, n)]
      /\ bpsem' = [bpsem EXCEPT ![w].count = n]
      /\ bpsize' = [bpsize EXCEPT ![w] = n]
      /\ nbpools' = w + 1 /\ nbpools' <= NBPOOLS
      /\ UNCHANGED <<bpheader, bpstate, bpheld>>
  BY <1>0, <1>1 DEF mkbufpool, BpId
<1>3. bpsize[w] = 0 /\ bpsem[w].count = 0
  BY <1>0, <1>1 DEF BpInv, Unmade, BpId
<1> DEFINE l == BpLinked(w, n)
<1>4. /\ l \in Seq(BpId \X Nat) /\ Len(l) = n
      /\ \A k \in 1 .. n : l[k] = <<w, k>>
  BY <1>0 DEF BpLinked
<1> HIDE DEF l
<1>5. BpTypes'
  <2>1. nbpools' \in Nat /\ nbpools' <= NBPOOLS
    BY <1>0, <1>1, <1>2 DEF BpId
  <2>2. bpnext' \in [BpId -> Seq(BpId \X Nat)]
    BY <1>2, <1>4 DEF BpTypes, BpInv, l
  <2>3. bpsem' \in [BpId -> [count : Int, queue : Seq(BpProc)]]
    <3>1. bpsem' = [bpsem EXCEPT ![w] = [@ EXCEPT !.count = n]]
      BY <1>2
    <3>2. [bpsem[w] EXCEPT !.count = n] \in [count : Int, queue : Seq(BpProc)]
      <4>1. bpsem[w] \in [count : Int, queue : Seq(BpProc)] /\ n \in Int
        BY <1>0 DEF BpTypes, BpInv
      <4> QED BY <4>1, SemSet
    <3> QED BY <3>1, <3>2 DEF BpTypes, BpInv
  <2>4. bpsize' \in [BpId -> Nat]
    BY <1>0, <1>2 DEF BpTypes, BpInv
  <2> QED BY <1>2, <2>1, <2>2, <2>3, <2>4 DEF BpTypes, BpInv
<1>6. StatesRight' /\ HeldRight'
  BY <1>2 DEF BpInv, StatesRight, HeldRight
<1>7. ASSUME NEW j \in BpId
      PROVE (ListRight(j) /\ LineRight(j) /\ NumbersRight(j) /\ Unmade(j))'
  <2>0. ListRight(j) /\ LineRight(j) /\ NumbersRight(j) /\ Unmade(j)
    BY DEF BpInv
  <2>1. CASE j # w
    <3>1. bpnext'[j] = bpnext[j] /\ bpsem'[j] = bpsem[j] /\ bpsize'[j] = bpsize[j]
      BY <1>2, <2>1 DEF BpInv, BpTypes
    <3>2. j >= nbpools' => j >= nbpools
      BY <1>0, <1>1, <1>2 DEF BpId
    <3> QED BY <1>2, <2>0, <3>1, <3>2, SameStates DEF ListRight, LineRight, NumbersRight, Unmade, TakenOut
  <2>2. CASE j = w
    <3>1. bpnext'[j] = l /\ bpsem'[j].count = n /\ bpsem'[j].queue = bpsem[j].queue /\ bpsize'[j] = n
      BY <1>2, <2>2 DEF BpInv, BpTypes, l
    <3>2. ListRight(j)'
      <4>1. ASSUME NEW b PROVE InQ(l, b) <=> b \in {w} \X (1 .. n)
        <5>1. ASSUME InQ(l, b) PROVE b \in {w} \X (1 .. n)
          <6>1. PICK k \in 1 .. n : l[k] = b
            BY <1>4, <5>1 DEF InQ
          <6> QED BY <1>4, <6>1
        <5>2. ASSUME b \in {w} \X (1 .. n) PROVE InQ(l, b)
          <6>1. PICK k \in 1 .. n : b = <<w, k>>
            BY <5>2
          <6> QED BY <1>4, <6>1 DEF InQ
        <5> QED BY <5>1, <5>2
      <4>2. Once(l)
        BY <1>0, <1>4 DEF Once
      <4>3. \A b : ~(TakenOut(b) /\ b \in {w} \X Nat)
        <5>1. 1 .. bpsize[w] = {}
          BY <1>3
        <5> QED BY <2>0, <2>2, <5>1 DEF ListRight
      <4>4. \A b : TakenOut(b)' <=> TakenOut(b)
        BY <1>2 DEF TakenOut
      <4>5. \A b : b \in {w} \X (1 .. n) => b \in {w} \X Nat
        BY <1>0
      <4> QED BY <2>2, <3>1, <4>1, <4>2, <4>3, <4>4, <4>5 DEF ListRight
    <3>3. LineRight(j)'
      <4>1. Pos(- n) = 0 /\ Pos(- 0) = 0
        BY <1>0 DEF Pos
      <4> QED BY <1>2, <1>3, <2>0, <2>2, <3>1, <4>1, SameStates DEF LineRight
    <3>4. NumbersRight(j)'
      <4>1. Cardinality(Passed(j)) = 0
        <5>1. Len(bpnext[w]) = 0
          <6>1. bpnext[w] \in Seq(BpId \X Nat)
            BY DEF BpInv, BpTypes
          <6>2. \A b : ~InQ(bpnext[w], b)
            <7>1. 1 .. bpsize[w] = {}
              BY <1>3
            <7> QED BY <2>0, <2>2, <7>1 DEF ListRight
          <6>3. Len(bpnext[w]) \in Nat /\ (Len(bpnext[w]) > 0 => 1 \in 1 .. Len(bpnext[w]))
            BY <6>1
          <6>4. Len(bpnext[w]) > 0 => InQ(bpnext[w], bpnext[w][1])
            BY <6>3 DEF InQ
          <6> QED BY <6>2, <6>3, <6>4
        <5>2. 0 = 0 + Cardinality(Passed(j))
          BY <1>3, <2>0, <2>2, <5>1 DEF NumbersRight, Pos
        <5> QED BY <5>2, PassedFinite
      <4> QED BY <1>0, <1>2, <1>4, <3>1, <4>1, SameStates DEF NumbersRight, Pos
    <3>5. Unmade(j)'
      BY <1>0, <1>2, <2>2 DEF Unmade, BpId
    <3> QED BY <3>2, <3>3, <3>4, <3>5
  <2> QED BY <2>1, <2>2
<1> QED BY <1>5, <1>6, <1>7 DEF BpInv

(* A step that sets the semaphore of pool i and leaves the sizes alone.    *)
LEMMA PoolStep ==
  ASSUME BpInv, NEW i \in BpId, NEW s \in [count : Int, queue : Seq(BpProc)],
         bpsem' = [bpsem EXCEPT ![i] = s], UNCHANGED <<nbpools, bpsize>>,
         bpnext' \in [BpId -> Seq(BpId \X Nat)],
         bpstate' \in [BpProc -> [in : {"runs", "waits", "passed", "killed"}, pool : BpId \cup {-1}]],
         bpheld' \in [BpProc -> SUBSET (BpId \X Nat)],
         StatesRight', HeldRight', \A j \in BpId : ListRight(j)',
         \A j \in BpId \ {i} : /\ Len(bpnext'[j]) = Len(bpnext[j])
                              /\ Passed(j)' = Passed(j)
                              /\ \A p \in BpProc : Waits(p, j)' <=> Waits(p, j),
         LineRight(i)', NumbersRight(i)', Unmade(i)'
  PROVE  BpInv'
<1>1. bpsem' \in [BpId -> [count : Int, queue : Seq(BpProc)]]
  BY DEF BpInv, BpTypes
<1>2. BpTypes'
  BY <1>1 DEF BpInv, BpTypes
<1>3. ASSUME NEW j \in BpId PROVE (LineRight(j) /\ NumbersRight(j) /\ Unmade(j))'
  <2>1. CASE j = i
    BY <2>1
  <2>2. CASE j # i
    <3>1. bpsem'[j] = bpsem[j] /\ bpsize'[j] = bpsize[j]
      BY <2>2 DEF BpInv, BpTypes
    <3>2. LineRight(j) /\ NumbersRight(j) /\ Unmade(j)
      BY DEF BpInv
    <3>3. LineRight(j)'
      BY <2>2, <3>1, <3>2 DEF LineRight
    <3>4. NumbersRight(j)'
      BY <2>2, <3>1, <3>2 DEF NumbersRight
    <3>5. Unmade(j)'
      BY <3>1, <3>2 DEF Unmade
    <3> QED BY <3>3, <3>4, <3>5
  <2> QED BY <2>1, <2>2
<1> QED BY <1>2, <1>3 DEF BpInv

LEMMA GetbufKeeps ==
  ASSUME BpInv, NEW p \in BpProc, NEW i \in BpId, getbuf(p, i)
  PROVE  BpInv'
<1>1. /\ bpsem[i] \in [count : Int, queue : Seq(BpProc)] /\ bpstate[p] = BpRuns /\ i < nbpools
      /\ Len(bpnext[i]) \in Nat /\ nbpools \in Nat /\ NBPOOLS \in Nat /\ i \in Nat
      /\ ListRight(i) /\ LineRight(i) /\ NumbersRight(i) /\ Unmade(i)
  BY BuffersAssumption DEF BpInv, BpTypes, getbuf, BpId
<1> DEFINE c == bpsem[i].count
           l == bpsem[i].queue
           n == Cardinality(Passed(i))
<1>2. c \in Int /\ l \in Seq(BpProc) /\ n \in Nat
  BY <1>1, SemSet, PassedFinite
<1>3. Unmade(i)'
  BY <1>1 DEF Unmade, getbuf
<1>4. UNCHANGED <<nbpools, bpsize>>
  BY DEF getbuf
<1>5. CASE c > 0
  <2>1. Unlinks(p, i) /\ UNCHANGED bpstate
    BY <1>5 DEF getbuf
  <2>2. Len(bpnext[i]) = c + n /\ bpnext[i] # <<>>
    <3>1. Len(bpnext[i]) = c + n
      BY <1>1, <1>5 DEF NumbersRight, Pos
    <3> QED BY <1>2, <1>5, <3>1
  <2> DEFINE s == [bpsem[i] EXCEPT !.count = c - 1]
  <2>3. bpsem' = [bpsem EXCEPT ![i] = s]
    <3>1. bpsem' = [bpsem EXCEPT ![i].count = @ - 1, ![i].queue = @]
      BY <1>5 DEF getbuf
    <3> QED BY <3>1, <1>1 DEF BpInv, BpTypes
  <2>4. s \in [count : Int, queue : Seq(BpProc)] /\ s.count = c - 1 /\ s.queue = l
    <3>1. c - 1 \in Int
      BY <1>2
    <3> HIDE DEF c, l
    <3>2. s.queue = bpsem[i].queue
      BY <1>1, <3>1, SemSet
    <3> QED BY <1>1, <3>1, <3>2, SemSet DEF l
  <2>5. bpsem'[i] = s
    BY <2>3 DEF BpInv, BpTypes
  <2> HIDE DEF s
  <2>6. LineRight(i)'
    <3>1. Pos(- c) = 0 /\ Pos(- (c - 1)) = 0
      BY <1>2, <1>5 DEF Pos
    <3> QED BY <1>1, <2>1, <2>4, <2>5, <3>1, SameStates DEF LineRight
  <2>7. /\ bpnext' \in [BpId -> Seq(BpId \X Nat)]
        /\ bpheld' \in [BpProc -> SUBSET (BpId \X Nat)]
        /\ HeldRight' /\ \A j \in BpId : ListRight(j)'
        /\ \A j \in BpId : Len(bpnext'[j]) = IF j = i THEN Len(bpnext[j]) - 1 ELSE Len(bpnext[j])
    BY <1>4, <2>1, <2>2, UnlinksKeeps
  <2>8. NumbersRight(i)'
    <3>1. Pos(c - 1) = c - 1
      BY <1>2, <1>5 DEF Pos
    <3>2. Passed(i)' = Passed(i)
      BY <2>1, SameStates
    <3>3. Len(bpnext'[i]) = Len(bpnext[i]) - 1
      BY <2>7
    <3> QED BY <1>2, <2>2, <2>4, <2>5, <3>1, <3>2, <3>3 DEF NumbersRight
  <2>9. StatesRight' /\ bpstate' \in [BpProc -> [in : {"runs", "waits", "passed", "killed"}, pool : BpId \cup {-1}]]
    BY <2>1 DEF BpInv, BpTypes, StatesRight
  <2> HIDE DEF c, l, n
  <2> QED BY <1>3, <1>4, <2>1, <2>3, <2>4, <2>6, <2>7, <2>8, <2>9, SameStates, PoolStep
<1>6. CASE ~(c > 0)
  <2>1. /\ bpstate' = [bpstate EXCEPT ![p] = [in |-> "waits", pool |-> i]]
        /\ UNCHANGED <<bpnext, bpheld, bpheader, bpsize>>
    BY <1>6 DEF getbuf
  <2> DEFINE s == [bpsem[i] EXCEPT !.count = c - 1, !.queue = Append(l, p)]
  <2>2. bpsem' = [bpsem EXCEPT ![i] = s]
    <3>1. bpsem' = [bpsem EXCEPT ![i].count = @ - 1, ![i].queue = Append(@, p)]
      BY <1>6 DEF getbuf
    <3> QED BY <3>1, <1>1 DEF BpInv, BpTypes
  <2>3. /\ Append(l, p) \in Seq(BpProc) /\ Len(Append(l, p)) = Len(l) + 1 /\ Once(Append(l, p))
        /\ \A y : InQ(Append(l, p), y) <=> InQ(l, y) \/ y = p
    <3>1. ~InQ(l, p) /\ Once(l)
      BY <1>1 DEF LineRight, Waits, BpRuns
    <3> QED BY <1>2, <3>1, AppendQ
  <2>a. bpsem'[i] = s
    BY <2>2 DEF BpInv, BpTypes
  <2>4. /\ s \in [count : Int, queue : Seq(BpProc)] /\ s.count = c - 1 /\ s.queue = Append(l, p)
        /\ bpsem'[i] = s
    <3>1. c - 1 \in Int
      BY <1>2
    <3> HIDE DEF c, l
    <3> QED BY <1>1, <2>3, <2>a, <3>1, SemSet
  <2> HIDE DEF s
  <2>5. \A q \in BpProc : bpstate'[q] = IF q = p THEN [in |-> "waits", pool |-> i] ELSE bpstate[q]
    BY <2>1 DEF BpInv, BpTypes
  <2>6. \A q \in BpProc, j \in BpId : Waits(q, j)' <=> Waits(q, j) \/ (q = p /\ j = i)
    BY <1>1, <2>5 DEF Waits, BpRuns
  <2>7. \A j \in BpId : Passed(j)' = Passed(j)
    BY <1>1, <2>5 DEF Passed, BpRuns
  <2>8. LineRight(i)'
    <3>1. Pos(- (c - 1)) = Pos(- c) + 1
      BY <1>2, <1>6 DEF Pos
    <3>2. Len(l) = Pos(- c)
      BY <1>1 DEF LineRight
    <3>3. \A q \in BpProc : InQ(Append(l, p), q) <=> Waits(q, i)'
      BY <1>1, <2>3, <2>6 DEF LineRight
    <3> QED BY <2>3, <2>4, <3>1, <3>2, <3>3 DEF LineRight
  <2>9. NumbersRight(i)'
    <3>1. Pos(c - 1) = 0 /\ Pos(c) = 0
      BY <1>2, <1>6 DEF Pos
    <3> QED BY <1>1, <2>1, <2>4, <2>7, <3>1 DEF NumbersRight
  <2>10. StatesRight' /\ bpstate' \in [BpProc -> [in : {"runs", "waits", "passed", "killed"}, pool : BpId \cup {-1}]]
    BY <2>1, <2>5 DEF BpInv, BpTypes, StatesRight
  <2>11. /\ bpnext' \in [BpId -> Seq(BpId \X Nat)] /\ bpheld' \in [BpProc -> SUBSET (BpId \X Nat)]
         /\ HeldRight' /\ \A j \in BpId : ListRight(j)'
    BY <2>1, SameLists DEF BpInv, BpTypes
  <2> HIDE DEF c, l, n
  <2> QED BY <1>3, <1>4, <2>1, <2>2, <2>4, <2>6, <2>7, <2>8, <2>9, <2>10, <2>11, PoolStep
<1> QED BY <1>5, <1>6

LEMMA GetbufResumesKeeps ==
  ASSUME BpInv, NEW p \in BpProc, GetbufResumes(p)
  PROVE  BpInv'
<1>1. PICK i \in BpId : i = bpstate[p].pool
  BY DEF BpInv, StatesRight, GetbufResumes
<1>2. /\ bpsem[i] \in [count : Int, queue : Seq(BpProc)]
      /\ Len(bpnext[i]) \in Nat
      /\ ListRight(i) /\ LineRight(i) /\ NumbersRight(i) /\ Unmade(i)
  BY DEF BpInv, BpTypes
<1>3. /\ bpstate[p].in = "passed" /\ Unlinks(p, i)
      /\ bpstate' = [bpstate EXCEPT ![p] = BpRuns] /\ UNCHANGED <<nbpools, bpsem, bpsize>>
  BY <1>1 DEF GetbufResumes
<1>4. \A q \in BpProc : bpstate'[q] = IF q = p THEN BpRuns ELSE bpstate[q]
  BY <1>3 DEF BpInv, BpTypes
<1>5. Passed(i)' = Passed(i) \ {p} /\ p \in Passed(i)
  BY <1>1, <1>3, <1>4 DEF Passed, BpRuns
<1>6. \A j \in BpId \ {i} : Passed(j)' = Passed(j)
  BY <1>1, <1>3, <1>4 DEF Passed, BpRuns
<1>7. \A j \in BpId, q \in BpProc : Waits(q, j)' <=> Waits(q, j)
  BY <1>3, <1>4 DEF Waits, BpRuns
<1>8. Cardinality(Passed(i)') = Cardinality(Passed(i)) - 1 /\ Cardinality(Passed(i)) \in Nat
  BY <1>5, PassedFinite, FS_RemoveElement
<1>9. Cardinality(Passed(i)) >= 1 /\ bpnext[i] # <<>>
  <2>1. Cardinality(Passed(i)) # 0
    BY <1>5, PassedFinite, FS_EmptySet
  <2>2. bpsem[i].count \in Int
    BY <1>2, SemSet
  <2>3. Len(bpnext[i]) # 0
    BY <1>2, <1>8, <2>1, <2>2 DEF NumbersRight, Pos
  <2> QED BY <1>8, <2>1, <2>3
<1>10. /\ bpnext' \in [BpId -> Seq(BpId \X Nat)]
       /\ bpheld' \in [BpProc -> SUBSET (BpId \X Nat)]
       /\ HeldRight' /\ \A j \in BpId : ListRight(j)'
       /\ \A j \in BpId : Len(bpnext'[j]) = IF j = i THEN Len(bpnext[j]) - 1 ELSE Len(bpnext[j])
  BY <1>3, <1>9, UnlinksKeeps
<1>11. LineRight(i)'
  BY <1>2, <1>3, <1>7 DEF LineRight
<1>12. NumbersRight(i)'
  <2>a. bpsem[i].count \in Int
    BY <1>2, SemSet
  <2>1. bpsem[i].count \in Int /\ Pos(bpsem[i].count) \in Int
    BY <2>a DEF Pos
  <2>2. Len(bpnext'[i]) = Len(bpnext[i]) - 1
    BY <1>10
  <2> QED BY <1>2, <1>3, <1>8, <2>1, <2>2 DEF NumbersRight
<1>13. Unmade(i)'
  BY <1>2, <1>3 DEF Unmade
<1>14. StatesRight' /\ bpstate' \in [BpProc -> [in : {"runs", "waits", "passed", "killed"}, pool : BpId \cup {-1}]]
  BY <1>3, <1>4 DEF BpInv, BpTypes, StatesRight, BpRuns
<1>15. bpsem' = [bpsem EXCEPT ![i] = bpsem[i]]
  BY <1>3 DEF BpInv, BpTypes
<1> QED BY <1>2, <1>3, <1>6, <1>7, <1>10, <1>11, <1>12, <1>13, <1>14, <1>15, PoolStep

(* The buffer goes to the front of its pool's list, and the first waiter,  *)
(* if there is one, has passed the semaphore.                              *)
LEMMA GivesBackKeeps ==
  ASSUME BpInv, NEW p \in BpProc, NEW b, b \in bpheld[p], NEW i \in BpId, i = b[1],
         bpheld' = [bpheld EXCEPT ![p] = @ \ {b}],
         bpnext' = [bpnext EXCEPT ![i] = <<b>> \o @], UNCHANGED <<bpsize, bpheader>>
  PROVE  /\ bpnext' \in [BpId -> Seq(BpId \X Nat)]
         /\ bpheld' \in [BpProc -> SUBSET (BpId \X Nat)]
         /\ HeldRight' /\ \A j \in BpId : ListRight(j)'
         /\ \A j \in BpId : Len(bpnext'[j]) = IF j = i THEN Len(bpnext[j]) + 1 ELSE Len(bpnext[j])
<1>1. /\ bpnext[i] \in Seq(BpId \X Nat) /\ Once(bpnext[i])
      /\ b \in BpId \X Nat /\ TakenOut(b) /\ ~InQ(bpnext[i], b) /\ b \in {i} \X Nat
  BY DEF BpInv, BpTypes, ListRight, TakenOut
<1> DEFINE t == <<b>> \o bpnext[i]
<1>2. /\ t \in Seq(BpId \X Nat) /\ Len(t) = Len(bpnext[i]) + 1 /\ Once(t)
      /\ \A y : InQ(t, y) <=> InQ(bpnext[i], y) \/ y = b
  BY <1>1, PushQ
<1>3. \A j \in BpId : bpnext'[j] = IF j = i THEN t ELSE bpnext[j]
  BY DEF BpInv, BpTypes
<1> HIDE DEF t
<1>4. \A q \in BpProc : bpheld'[q] = IF q = p THEN bpheld[q] \ {b} ELSE bpheld[q]
  BY DEF BpInv, BpTypes
<1>5. \A q \in BpProc : q # p => b \notin bpheld[q]
  BY DEF BpInv, HeldRight
<1>6. ASSUME NEW c PROVE TakenOut(c)' <=> TakenOut(c) /\ c # b
  <2>1. ASSUME NEW q \in BpProc PROVE c \in bpheld'[q] <=> c \in bpheld[q] /\ c # b
    <3>1. CASE q = p
      <4>1. bpheld'[q] = bpheld[q] \ {b}
        BY <1>4, <3>1
      <4> QED BY <4>1
    <3>2. CASE q # p
      <4>1. bpheld'[q] = bpheld[q] /\ b \notin bpheld[q]
        BY <1>4, <1>5, <3>2
      <4> QED BY <4>1
    <3> QED BY <3>1, <3>2
  <2> QED BY <2>1 DEF TakenOut
<1>7. HeldRight'
  <2>1. ASSUME NEW q \in BpProc, NEW r \in BpProc, q # r
        PROVE  bpheld'[q] \cap bpheld'[r] = {}
    <3>1. bpheld[q] \cap bpheld[r] = {}
      BY <2>1 DEF BpInv, HeldRight
    <3> QED BY <1>4, <2>1, <3>1
  <2>2. \A q \in BpProc : \A c \in bpheld'[q] : c \in DOMAIN bpheader' /\ bpheader'[c] = c[1]
    BY <1>4 DEF BpInv, HeldRight
  <2> QED BY <2>1, <2>2 DEF HeldRight
<1>8. ASSUME NEW j \in BpId PROVE ListRight(j)'
  <2>0. ListRight(j)
    BY DEF BpInv
  <2>1. CASE j = i
    BY <1>1, <1>2, <1>3, <1>6, <2>0, <2>1 DEF ListRight
  <2>2. CASE j # i
    <3>1. b \notin {j} \X Nat /\ ~InQ(bpnext[j], b)
      BY <1>1, <2>0, <2>2 DEF ListRight
    <3> QED BY <1>3, <1>6, <2>0, <2>2, <3>1 DEF ListRight
  <2> QED BY <2>1, <2>2
<1>9. bpnext' \in [BpId -> Seq(BpId \X Nat)] /\ bpheld' \in [BpProc -> SUBSET (BpId \X Nat)]
  BY <1>2 DEF BpInv, BpTypes, t
<1>10. \A j \in BpId : Len(bpnext'[j]) = IF j = i THEN Len(bpnext[j]) + 1 ELSE Len(bpnext[j])
  BY <1>2, <1>3
<1> QED BY <1>7, <1>8, <1>9, <1>10

LEMMA FreebufKeeps ==
  ASSUME BpInv, NEW p \in BpProc, NEW b \in bpheld[p], freebuf(p, b)
  PROVE  BpInv'
<1>1. b \in BpId \X Nat /\ bpheader[b] = b[1]
  BY DEF BpInv, BpTypes, HeldRight
<1>2. PICK i \in BpId : i = bpheader[b] /\ i = b[1]
  BY <1>1
<1>3. /\ bpsem[i] \in [count : Int, queue : Seq(BpProc)]
      /\ Len(bpnext[i]) \in Nat
      /\ ListRight(i) /\ LineRight(i) /\ NumbersRight(i) /\ Unmade(i)
  BY DEF BpInv, BpTypes
<1> DEFINE c == bpsem[i].count
           l == bpsem[i].queue
           woken == IF c < 0 THEN {l[1]} ELSE {}
           s == [bpsem[i] EXCEPT !.count = c + 1, !.queue = IF woken = {} THEN l ELSE Tail(l)]
<1>4. /\ bpstate[p] = BpRuns
      /\ bpheld' = [bpheld EXCEPT ![p] = @ \ {b}]
      /\ bpnext' = [bpnext EXCEPT ![i] = <<b>> \o @]
      /\ bpsem' = [bpsem EXCEPT ![i].count = @ + 1, ![i].queue = IF woken = {} THEN @ ELSE Tail(@)]
      /\ bpstate' = [q \in BpProc |-> IF q \in woken THEN [in |-> "passed", pool |-> i] ELSE bpstate[q]]
      /\ UNCHANGED <<nbpools, bpsize, bpheader>>
  BY <1>2 DEF freebuf
<1>5. bpsem' = [bpsem EXCEPT ![i] = s]
  BY <1>3, <1>4 DEF BpInv, BpTypes
<1>6. c \in Int /\ l \in Seq(BpProc)
  BY <1>3, SemSet
<1>7. /\ bpnext' \in [BpId -> Seq(BpId \X Nat)]
      /\ bpheld' \in [BpProc -> SUBSET (BpId \X Nat)]
      /\ HeldRight' /\ \A j \in BpId : ListRight(j)'
      /\ \A j \in BpId : Len(bpnext'[j]) = IF j = i THEN Len(bpnext[j]) + 1 ELSE Len(bpnext[j])
  BY <1>2, <1>4, GivesBackKeeps
<1>8. Unmade(i)'
  <2>1. b \in {i} \X (1 .. bpsize[i])
    <3>1. TakenOut(b) /\ b \in {i} \X Nat
      BY <1>1, <1>2 DEF TakenOut
    <3> QED BY <1>3, <3>1 DEF ListRight
  <2>2. bpsize[i] # 0
    BY <2>1
  <2> QED BY <1>3, <1>4, <2>2 DEF Unmade
<1>9. CASE ~(c < 0)
  <2>1. woken = {}
    BY <1>9
  <2>2. s.count = c + 1 /\ s.queue = l /\ s \in [count : Int, queue : Seq(BpProc)] /\ bpsem'[i] = s
    <3>1. s = [bpsem[i] EXCEPT !.count = c + 1, !.queue = l] /\ c + 1 \in Int
      BY <1>6, <2>1
    <3>2. bpsem'[i] = s
      BY <1>5 DEF BpInv, BpTypes
    <3> HIDE DEF c, l, s
    <3>3. l \in Seq(BpProc) /\ c + 1 \in Int
      BY <1>6, <3>1
    <3>4. bpsem[i] \in [count : Int, queue : Seq(BpProc)]
      BY <1>3, <1>6
    <3>5. s \in [count : Int, queue : Seq(BpProc)] /\ s.count = c + 1 /\ s.queue = l
      BY ONLY <3>1, <3>3, <3>4, SemSet
    <3> QED BY ONLY <3>2, <3>5
  <2>3. bpstate' = bpstate
    BY <1>4, <2>1 DEF BpInv, BpTypes
  <2> HIDE DEF s, woken
  <2>4. LineRight(i)'
    <3>1. Pos(- c) = 0 /\ Pos(- (c + 1)) = 0
      BY <1>6, <1>9 DEF Pos
    <3> QED BY <1>3, <2>2, <2>3, <3>1, SameStates DEF LineRight
  <2>5. NumbersRight(i)'
    <3>1. Pos(c + 1) = c + 1 /\ Pos(c) = c
      BY <1>6, <1>9 DEF Pos
    <3>2. Passed(i)' = Passed(i) /\ Len(bpnext'[i]) = Len(bpnext[i]) + 1
      BY <1>7, <2>3, SameStates
    <3>3. Cardinality(Passed(i)) \in Nat
      BY PassedFinite
    <3> QED BY <1>3, <1>6, <2>2, <3>1, <3>2, <3>3 DEF NumbersRight
  <2>6. StatesRight' /\ bpstate' \in [BpProc -> [in : {"runs", "waits", "passed", "killed"}, pool : BpId \cup {-1}]]
    BY <2>3 DEF BpInv, BpTypes, StatesRight
  <2> HIDE DEF c, l
  <2> QED BY <1>4, <1>5, <1>7, <1>8, <2>2, <2>3, <2>4, <2>5, <2>6, SameStates, PoolStep
<1>10. CASE c < 0
  <2>0. l # <<>> /\ Once(l) /\ Len(l) = - c
    BY <1>3, <1>6, <1>10 DEF LineRight, Pos
  <2>1. PICK q \in BpProc : q = l[1] /\ q = Head(l)
    BY <1>6, <2>0
  <2>2. woken = {q}
    BY <1>10, <2>1
  <2>3. /\ Tail(l) \in Seq(BpProc) /\ Len(Tail(l)) = Len(l) - 1 /\ InQ(l, q) /\ Once(Tail(l))
        /\ \A y : InQ(Tail(l), y) <=> InQ(l, y) /\ y # q
    BY <1>6, <2>0, <2>1, TailQ
  <2>4. s.count = c + 1 /\ s.queue = Tail(l) /\ s \in [count : Int, queue : Seq(BpProc)] /\ bpsem'[i] = s
    <3>a. woken # {}
      BY <2>2
    <3>1. s = [bpsem[i] EXCEPT !.count = c + 1, !.queue = Tail(l)] /\ c + 1 \in Int
      <4>1. c + 1 \in Int
        BY <1>6
      <4>2. (IF woken = {} THEN l ELSE Tail(l)) = Tail(l)
        BY <3>a
      <4> QED BY <4>1, <4>2
    <3>2. bpsem'[i] = s
      BY <1>5 DEF BpInv, BpTypes
    <3>3. PICK d, u, r : d = c + 1 /\ u = Tail(l) /\ r = bpsem[i]
      OBVIOUS
    <3> HIDE DEF c, l, s
    <3>4. r \in [count : Int, queue : Seq(BpProc)] /\ d \in Int /\ u \in Seq(BpProc)
      BY <1>3, <2>3, <3>1, <3>3
    <3>5. s = [r EXCEPT !.count = d, !.queue = u]
      BY <3>1, <3>3
    <3>6. s.count = d /\ s.queue = u /\ s \in [count : Int, queue : Seq(BpProc)]
      BY <3>4, <3>5, SemSet
    <3> QED BY <3>2, <3>3, <3>6
  <2>5. \A r \in BpProc : bpstate'[r] = IF r = q THEN [in |-> "passed", pool |-> i] ELSE bpstate[r]
    BY <1>4, <2>2
  <2> HIDE DEF s, woken
  <2>6. bpstate[q].in = "waits" /\ bpstate[q].pool = i
    BY <1>3, <2>3 DEF LineRight, Waits
  <2>7. \A r \in BpProc, j \in BpId : Waits(r, j)' <=> Waits(r, j) /\ r # q
    BY <2>5, <2>6 DEF Waits
  <2>8. Passed(i)' = Passed(i) \cup {q} /\ q \notin Passed(i)
    BY <2>5, <2>6 DEF Passed
  <2>9. \A j \in BpId \ {i} : Passed(j)' = Passed(j) /\ \A r \in BpProc : Waits(r, j)' <=> Waits(r, j)
    BY <2>5, <2>6 DEF Passed, Waits
  <2>10. LineRight(i)'
    <3>1. Len(Tail(l)) = Pos(- (c + 1))
      BY <1>6, <1>10, <2>0, <2>3 DEF Pos
    <3>2. \A r \in BpProc : InQ(Tail(l), r) <=> Waits(r, i)'
      BY <1>3, <2>3, <2>7 DEF LineRight
    <3> QED BY <2>3, <2>4, <3>1, <3>2 DEF LineRight
  <2>11. NumbersRight(i)'
    <3>1. Pos(c + 1) = 0 /\ Pos(c) = 0
      BY <1>6, <1>10 DEF Pos
    <3>2. Len(bpnext'[i]) = Len(bpnext[i]) + 1
      BY <1>7
    <3>3. Cardinality(Passed(i)') = Cardinality(Passed(i)) + 1 /\ Cardinality(Passed(i)) \in Nat
      BY <2>8, PassedFinite, FS_AddElement
    <3> QED BY <1>3, <2>4, <3>1, <3>2, <3>3 DEF NumbersRight
  <2>12. StatesRight' /\ bpstate' \in [BpProc -> [in : {"runs", "waits", "passed", "killed"}, pool : BpId \cup {-1}]]
    BY <1>4, <2>5 DEF BpInv, BpTypes, StatesRight
  <2> HIDE DEF c, l
  <2> QED BY <1>4, <1>5, <1>7, <1>8, <2>4, <2>9, <2>10, <2>11, <2>12, PoolStep
<1> QED BY <1>9, <1>10

LEMMA BpKillKeeps ==
  ASSUME BpInv, NEW p \in BpProc, BpKill(p)
  PROVE  BpInv'
<1> DEFINE st == bpstate[p]
           dead == [in |-> "killed", pool |-> IF st.in = "passed" THEN st.pool ELSE -1]
<1>1. /\ bpstate' = [bpstate EXCEPT ![p] = dead] /\ st.in # "killed"
      /\ UNCHANGED <<nbpools, bpnext, bpsize, bpheader, bpheld>>
  BY DEF BpKill
<1>2. dead \in [in : {"runs", "waits", "passed", "killed"}, pool : BpId \cup {-1}]
  BY DEF BpInv, BpTypes, StatesRight
<1>3. \A q \in BpProc : bpstate'[q] = IF q = p THEN dead ELSE bpstate[q]
  BY <1>1 DEF BpInv, BpTypes
<1>4. StatesRight' /\ bpstate' \in [BpProc -> [in : {"runs", "waits", "passed", "killed"}, pool : BpId \cup {-1}]]
  <2>1. StatesRight'
    BY <1>3 DEF BpInv, StatesRight
  <2> QED BY <1>1, <1>2, <2>1 DEF BpInv, BpTypes
<1>5. \A j \in BpId : Passed(j)' = Passed(j)
  <2>1. -1 \notin BpId
    BY BuffersAssumption DEF BpId
  <2> QED BY <1>1, <1>3, <2>1 DEF Passed
<1>6. \A q \in BpProc, j \in BpId : Waits(q, j)' <=> Waits(q, j) /\ q # p
  BY <1>3 DEF Waits
<1>7. /\ bpnext' \in [BpId -> Seq(BpId \X Nat)] /\ bpheld' \in [BpProc -> SUBSET (BpId \X Nat)]
      /\ HeldRight' /\ \A j \in BpId : ListRight(j)'
  BY <1>1, SameLists DEF BpInv, BpTypes
<1>8. CASE st.in # "waits"
  <2>1. bpsem' = bpsem
    BY <1>8 DEF BpKill
  <2>2. \A q \in BpProc, j \in BpId : Waits(q, j)' <=> Waits(q, j)
    BY <1>6, <1>8 DEF Waits
  <2>3. \A j \in BpId : LineRight(j)' /\ NumbersRight(j)' /\ Unmade(j)'
    BY <1>1, <1>5, <2>1, <2>2 DEF BpInv, LineRight, NumbersRight, Unmade
  <2>4. BpTypes'
    BY <1>1, <1>4, <1>7, <2>1 DEF BpInv, BpTypes
  <2> QED BY <1>4, <1>7, <2>3, <2>4 DEF BpInv
<1>9. CASE st.in = "waits"
  <2>1. PICK i \in BpId : i = st.pool
    BY <1>9 DEF BpInv, StatesRight
  <2>2. /\ bpsem[i] \in [count : Int, queue : Seq(BpProc)]
        /\ Len(bpnext[i]) \in Nat
        /\ ListRight(i) /\ LineRight(i) /\ NumbersRight(i) /\ Unmade(i)
    BY DEF BpInv, BpTypes
  <2> DEFINE c == bpsem[i].count
             l == bpsem[i].queue
             s == [bpsem[i] EXCEPT !.count = c + 1, !.queue = Unlink(l, p)]
  <2>3. bpsem' = [bpsem EXCEPT ![i] = s]
    <3>1. bpsem' = [bpsem EXCEPT ![i].count = @ + 1, ![i].queue = Unlink(@, p)]
      BY <1>9, <2>1 DEF BpKill
    <3> QED BY <2>2, <3>1 DEF BpInv, BpTypes
  <2>4. c \in Int /\ l \in Seq(BpProc) /\ c + 1 \in Int
    <3> HIDE DEF s
    <3>1. c \in Int /\ l \in Seq(BpProc)
      BY <2>2, SemSet
    <3> QED BY <3>1
  <2>5. InQ(l, p) /\ Once(l) /\ Len(l) = Pos(- c)
    BY <1>9, <2>1, <2>2 DEF LineRight, Waits
  <2>6. /\ Unlink(l, p) \in Seq(BpProc) /\ Len(Unlink(l, p)) = Len(l) - 1 /\ Once(Unlink(l, p))
        /\ \A y : InQ(Unlink(l, p), y) <=> InQ(l, y) /\ y # p
    BY <2>4, <2>5, UnlinkQ
  <2>7. Len(l) # 0 /\ Len(l) \in Nat
    BY <2>4, <2>5 DEF InQ
  <2>8. c < 0
    BY <2>4, <2>5, <2>7 DEF Pos
  <2>9. /\ s \in [count : Int, queue : Seq(BpProc)] /\ s.count = c + 1 /\ s.queue = Unlink(l, p)
        /\ bpsem'[i] = s
    <3>1. bpsem'[i] = s
      BY <2>3 DEF BpInv, BpTypes
    <3> HIDE DEF c, l
    <3> QED BY <2>2, <2>4, <2>6, <3>1, SemSet
  <2> HIDE DEF s
  <2>10. LineRight(i)'
    <3>1. Len(l) - 1 = Pos(- (c + 1))
      BY <2>4, <2>5, <2>8 DEF Pos
    <3>2. \A q \in BpProc : InQ(Unlink(l, p), q) <=> Waits(q, i)'
      BY <1>6, <2>2, <2>6 DEF LineRight
    <3> QED BY <2>6, <2>9, <3>1, <3>2 DEF LineRight
  <2>11. NumbersRight(i)'
    <3>1. Pos(c + 1) = 0 /\ Pos(c) = 0
      BY <2>4, <2>8 DEF Pos
    <3> QED BY <1>1, <1>5, <2>2, <2>9, <3>1 DEF NumbersRight
  <2>12. Unmade(i)'
    BY <1>1, <2>2, <2>8 DEF Unmade
  <2>13. \A j \in BpId \ {i} : \A q \in BpProc : Waits(q, j)' <=> Waits(q, j)
    BY <1>6, <1>9, <2>1 DEF Waits
  <2> HIDE DEF c, l
  <2> QED BY <1>1, <1>4, <1>5, <1>7, <2>3, <2>9, <2>10, <2>11, <2>12, <2>13, PoolStep
<1> QED BY <1>8, <1>9

LEMMA NextBpInv == BpInv /\ [BpNext]_BpVars => BpInv'
<1> SUFFICES ASSUME BpInv, [BpNext]_BpVars PROVE BpInv'
  OBVIOUS
<1>1. CASE UNCHANGED BpVars
  <2>1. BpTypes' /\ StatesRight' /\ HeldRight'
    BY <1>1 DEF BpInv, BpTypes, StatesRight, HeldRight, BpVars
  <2>2. ASSUME NEW i \in BpId PROVE ListRight(i)' /\ LineRight(i)' /\ NumbersRight(i)' /\ Unmade(i)'
    <3>1. ListRight(i) /\ LineRight(i) /\ NumbersRight(i) /\ Unmade(i)
      BY DEF BpInv
    <3>2. ListRight(i)'
      BY <1>1, <3>1, SameLists DEF BpVars
    <3>3. LineRight(i)' /\ NumbersRight(i)' /\ Unmade(i)'
      BY <1>1, <3>1, SameStates DEF BpVars, LineRight, NumbersRight, Unmade
    <3> QED BY <3>2, <3>3
  <2> QED BY <2>1, <2>2 DEF BpInv
<1>2. CASE BpNext
  BY <1>2, MkbufpoolKeeps, GetbufKeeps, GetbufResumesKeeps, FreebufKeeps, BpKillKeeps DEF BpNext
<1> QED BY <1>1, <1>2

LEMMA BpInvAlways == BpSpec => []BpInv
<1>1. BpInit => BpInv
  BY InitBpInv
<1>2. BpInv /\ [BpNext]_BpVars => BpInv'
  BY NextBpInv
<1> QED BY <1>1, <1>2, PTL DEF BpSpec

(* Every buffer of a pool is on its list or with one process, and the list *)
(* is as long as the semaphore says, with one more for each process that   *)
(* was let through and has not run since (mkbufpool.c, getbuf.c, freebuf.c)*)
THEOREM BuffersAccountedAlways == BpSpec => []BuffersAccounted
<1>1. BpInv => BuffersAccounted
  <2> SUFFICES ASSUME BpInv, NEW i \in BpId
      PROVE LET passed == {p \in BpProc : bpstate[p].in \in {"passed", "killed"} /\ bpstate[p].pool = i}
                free == ToSet(bpnext[i])
                taken == (UNION {bpheld[p] : p \in BpProc}) \cap ({i} \X Nat)
            IN /\ Len(bpnext[i]) = (IF bpsem[i].count > 0 THEN bpsem[i].count ELSE 0) + Cardinality(passed)
               /\ free \cup taken = {i} \X (1..bpsize[i])
               /\ Len(bpnext[i]) + Cardinality(taken) = bpsize[i]
               /\ \A p, q \in BpProc : p # q => bpheld[p] \cap bpheld[q] = {}
    BY DEF BuffersAccounted
  <2> DEFINE free == ToSet(bpnext[i])
             taken == (UNION {bpheld[p] : p \in BpProc}) \cap ({i} \X Nat)
  <2>1. NumbersRight(i) /\ ListRight(i) /\ HeldRight /\ bpnext[i] \in Seq(BpId \X Nat) /\ bpsize[i] \in Nat
    BY DEF BpInv, BpTypes
  <2>2. ASSUME NEW b PROVE b \in free <=> InQ(bpnext[i], b)
    <3>1. DOMAIN bpnext[i] = 1 .. Len(bpnext[i])
      BY <2>1
    <3>2. b \in ToSet(bpnext[i]) <=> \E j \in 1 .. Len(bpnext[i]) : bpnext[i][j] = b
      BY <3>1 DEF ToSet
    <3> QED BY <3>2 DEF InQ
  <2>3. ASSUME NEW b PROVE b \in taken <=> TakenOut(b) /\ b \in {i} \X Nat
    <3>1. b \in UNION {bpheld[p] : p \in BpProc} <=> \E p \in BpProc : b \in bpheld[p]
      OBVIOUS
    <3>2. TakenOut(b) <=> \E p \in BpProc : b \in bpheld[p]
      BY DEF TakenOut
    <3>3. b \in taken <=> b \in UNION {bpheld[p] : p \in BpProc} /\ b \in {i} \X Nat
      OBVIOUS
    <3> HIDE DEF taken
    <3> QED BY <3>1, <3>2, <3>3
  <2> HIDE DEF free, taken
  <2>4. free \cup taken = {i} \X (1 .. bpsize[i]) /\ free \cap taken = {}
    BY <2>1, <2>2, <2>3 DEF ListRight
  <2>5. Len(bpnext[i]) + Cardinality(taken) = bpsize[i]
    <3>1. IsFiniteSet(free) /\ Cardinality(free) = Len(bpnext[i])
      BY <2>1, OnceCardinality DEF free, ListRight
    <3>2. \A n \in Nat : IsFiniteSet(1 .. n) /\ Cardinality(1 .. n) = n
      BY FS_Interval
    <3>3. IsFiniteSet({i}) /\ Cardinality({i}) = 1
      BY FS_Singleton
    <3>4. IsFiniteSet(free \cup taken) /\ Cardinality(free \cup taken) = 1 * bpsize[i]
      <4>1. IsFiniteSet(1 .. bpsize[i]) /\ Cardinality(1 .. bpsize[i]) = bpsize[i]
        BY <2>1, <3>2
      <4>2. /\ IsFiniteSet({i} \X (1 .. bpsize[i]))
            /\ Cardinality({i} \X (1 .. bpsize[i])) = Cardinality({i}) * Cardinality(1 .. bpsize[i])
        BY <3>3, <4>1, FS_Product
      <4> QED BY <2>4, <3>3, <4>1, <4>2
    <3>5. IsFiniteSet(taken) /\ Cardinality(taken) \in Nat
      <4>1. taken \in SUBSET (free \cup taken)
        OBVIOUS
      <4> QED BY <3>4, <4>1, FS_Subset, FS_CardinalityType
    <3>6. Cardinality(free \cup taken) = Cardinality(free) + Cardinality(taken) - Cardinality(free \cap taken)
      BY <3>1, <3>5, FS_Union
    <3>7. Cardinality(free \cap taken) = 0
      BY <2>4, FS_EmptySet
    <3> QED BY <2>1, <3>1, <3>4, <3>5, <3>6, <3>7
  <2> QED BY <2>1, <2>4, <2>5 DEF NumbersRight, Passed, Pos, HeldRight, free, taken
<1> QED BY <1>1, BpInvAlways, PTL

-----------------------------------------------------------------------------
(* Message ports.  A process inside ptsend() or ptrecv() carries the        *)
(* generation of the port it saw, and that generation is over for everyone *)
(* as soon as the port is not allocated: so what a step does to a port in  *)
(* use concerns only those who came to it in its present generation.       *)
SemType == [made : BOOLEAN, count : Int, line : Seq(Proc)]
PtTypes ==
  /\ ptstate \in [Port -> {"PT_FREE", "PT_ALLOC", "PT_LIMBO"}]
  /\ ptseq \in [Port -> Nat] /\ ptmaxcnt \in [Port -> Nat]
  /\ ptlist \in [Port -> Seq(Nat)]
  /\ ptsem \in [Port -> [Side -> SemType]]
  /\ ptnextid \in Port /\ ptfree \in Nat
  /\ ptcont \in [Proc -> Cont]
  /\ ptlost \in [Port -> [Side -> Nat]]
  /\ panicked \in BOOLEAN

(* Who is in the line of a semaphore has called on that side of the port,  *)
(* in this generation while the port is in use.                            *)
SemOk(s) == /\ Once(s.line) /\ Len(s.line) = Positive(- s.count)
            /\ ~s.made => s.line = <<>> /\ s.count = 0
InCall(x, q, side) == ptcont[x].op = side /\ ptcont[x].port = q
Came(x, q, side) == InCall(x, q, side) /\ ptcont[x].n = ptseq[q]
LineOk(q, side) ==
  /\ SemOk(ptsem[q][side])
  /\ \A x \in Proc : InQ(ptsem[q][side].line, x) =>
       InCall(x, q, side) /\ (Alloc(q) => ptcont[x].n = ptseq[q])
YoungOk(q, side) ==
  \A x \in Proc : InCall(x, q, side) =>
    ptcont[x].n <= ptseq[q] /\ (ptcont[x].n = ptseq[q] => Alloc(q) /\ ptsem[q][side].made)

(* A port in limbo has at most one process that clears it; what it has     *)
(* done so far is done.                                                    *)
SndCleared(q, to) ==
  /\ ptlist[q] = <<>> /\ ptlost[q].snd = 0 /\ ptsem[q].snd.line = <<>>
  /\ to = "PT_ALLOC" /\ ptsem[q].snd.made => Positive(ptsem[q].snd.count) = ptmaxcnt[q]
RcvCleared(q) == ptlost[q].rcv = 0 /\ ptsem[q].rcv.line = <<>> /\ ptsem[q].rcv.count = 0
ClearOk(q) ==
  /\ \A x, y \in Proc : Clears(x, q) /\ Clears(y, q) => x = y
  /\ \A x \in Proc : Clears(x, q) =>
       /\ ptstate[q] = "PT_LIMBO"
       /\ ptcont[x].op # "clear" => SndCleared(q, ptcont[x].to)
       /\ ptcont[x].op = "cleared" => RcvCleared(q)

(* What a port in use holds, and its permits. *)
ListOk(q) ==
  /\ Len(ptlist[q]) <= ptmaxcnt[q]
  /\ ptstate[q] = "PT_FREE" => ptlist[q] = <<>>
  /\ Alloc(q) => \A i \in 1 .. Len(ptlist[q]) : ptlist[q][i] = ptseq[q]
  /\ Alloc(q) /\ ~ptsem[q].snd.made => ptlist[q] = <<>>
SndPermits(q) ==
  ptsem[q].snd.made => Positive(ptsem[q].snd.count) + Len(ptlist[q])
                         + Cardinality(Granted(q, "snd")) + ptlost[q].snd = ptmaxcnt[q]
RcvPermits(q) ==
  ptsem[q].rcv.made => Positive(ptsem[q].rcv.count)
                         + Cardinality(Granted(q, "rcv")) + ptlost[q].rcv = Len(ptlist[q])
PermitsOk(q) == Alloc(q) /\ ~panicked => SndPermits(q) /\ RcvPermits(q)

PortOk(q) == /\ LineOk(q, "snd") /\ LineOk(q, "rcv") /\ YoungOk(q, "snd") /\ YoungOk(q, "rcv")
             /\ ClearOk(q) /\ ListOk(q) /\ PermitsOk(q)
PtInv == PtTypes /\ (\A q \in Port : PortOk(q)) /\ NodesAccounted

LEMMA PtConst == /\ NPORTS \in Nat \ {0} /\ IsFiniteSet(Port) /\ IsFiniteSet(Proc) /\ 0 \in Port
                 /\ PT_MSGS \in Nat /\ \A c \in Sizes : c \in Nat /\ c % Uint16 = c
<1>1. Uint16 \in Nat /\ Uint16 > 0
  BY DEF Uint16
<1>2. \A c \in 0 .. Uint16 - 1 : c \in Nat /\ c % Uint16 = c
  BY <1>1
<1>3. NPORTS \in Nat \ {0} /\ IsFiniteSet(Proc) /\ PT_MSGS \in Nat /\ Sizes \subseteq 0 .. Uint16 - 1
  BY PortsAssumption
<1>4. IsFiniteSet(0 .. NPORTS - 1) /\ 0 \in 0 .. NPORTS - 1
  <2>1. 0 \in Int /\ NPORTS - 1 \in Int
    BY <1>3
  <2> QED BY <1>3, <2>1, FS_Interval
<1> QED BY <1>1, <1>2, <1>3, <1>4 DEF Port

WithLine(s, c, l) == [s EXCEPT !.count = c, !.line = l]
LEMMA SetSem ==
  ASSUME NEW s \in SemType, NEW c \in Int, NEW l \in Seq(Proc)
  PROVE  /\ WithLine(s, c, l) \in SemType /\ WithLine(s, c, l).count = c
         /\ WithLine(s, c, l).line = l /\ WithLine(s, c, l).made = s.made
<1>1. WithLine(s, c, l) \in SemType
  BY DEF SemType, WithLine
<1>2. WithLine(s, c, l).count = c /\ WithLine(s, c, l).line = l
  BY DEF SemType, WithLine
<1>3. WithLine(s, c, l).made = s.made
  BY DEF SemType, WithLine
<1> QED BY <1>1, <1>2, <1>3

(* wait(), signal(), semreset() and semdelete() on one semaphore.          *)
LEMMA WaitSem ==
  ASSUME NEW s \in SemType, SemOk(s), s.made, NEW p \in Proc, ~InQ(s.line, p)
  PROVE  /\ Wait(s, p) \in SemType /\ SemOk(Wait(s, p)) /\ Wait(s, p).made
         /\ Blocks(s) => /\ \A x : InQ(Wait(s, p).line, x) <=> InQ(s.line, x) \/ x = p
                         /\ Positive(Wait(s, p).count) = Positive(s.count)
         /\ ~Blocks(s) => /\ Wait(s, p).line = s.line
                          /\ Positive(Wait(s, p).count) = Positive(s.count) - 1
                          /\ Positive(s.count) > 0
<1>1. s.count \in Int /\ s.line \in Seq(Proc) /\ Once(s.line) /\ Len(s.line) = Positive(- s.count)
  BY DEF SemType, SemOk
<1>2. CASE Blocks(s)
  <2>1. Wait(s, p) = WithLine(s, s.count - 1, Append(s.line, p))
    BY <1>2 DEF Wait, WithLine
  <2>2. /\ Append(s.line, p) \in Seq(Proc) /\ Len(Append(s.line, p)) = Len(s.line) + 1
        /\ Once(Append(s.line, p))
        /\ \A y : InQ(Append(s.line, p), y) <=> InQ(s.line, y) \/ y = p
    BY <1>1, AppendQ
  <2>3. /\ Wait(s, p).count = s.count - 1 /\ Wait(s, p).line = Append(s.line, p) /\ Wait(s, p).made
        /\ Wait(s, p) \in SemType
    <3>1. s.count - 1 \in Int
      BY <1>1
    <3>2. PICK c \in Int, l \in Seq(Proc) : c = s.count - 1 /\ l = Append(s.line, p)
      BY <2>2, <3>1
    <3>3. /\ WithLine(s, c, l) \in SemType /\ WithLine(s, c, l).count = c
          /\ WithLine(s, c, l).line = l /\ WithLine(s, c, l).made = s.made
      BY SetSem
    <3> QED BY <2>1, <3>2, <3>3
  <2>4. Len(s.line) + 1 = Positive(- (s.count - 1)) /\ Positive(s.count - 1) = Positive(s.count)
    BY <1>1, <1>2 DEF Blocks, Positive
  <2> QED BY <1>2, <2>2, <2>3, <2>4 DEF SemOk
<1>3. CASE ~Blocks(s)
  <2>1. Wait(s, p) = [s EXCEPT !.count = s.count - 1]
    BY <1>3 DEF Wait, SemType
  <2>2. /\ Wait(s, p).count = s.count - 1 /\ Wait(s, p).line = s.line /\ Wait(s, p).made
        /\ Wait(s, p) \in SemType
    BY <1>1, <2>1 DEF SemType
  <2>3. /\ Positive(- s.count) = Positive(- (s.count - 1)) /\ Positive(s.count - 1) = Positive(s.count) - 1
        /\ Positive(s.count) > 0
    BY <1>1, <1>3 DEF Blocks, Positive
  <2> QED BY <1>1, <1>3, <2>2, <2>3 DEF SemOk
<1> QED BY <1>2, <1>3

LEMMA SignalSem ==
  ASSUME NEW s \in SemType, SemOk(s)
  PROVE  /\ Signal(s) \in SemType /\ SemOk(Signal(s)) /\ Signal(s).made = s.made
         /\ \/ /\ \A x : InQ(Signal(s).line, x) <=> InQ(s.line, x)
               /\ s.made => Positive(Signal(s).count) = Positive(s.count) + 1
            \/ \E y \in Proc : /\ s.made /\ InQ(s.line, y)
                               /\ \A x : InQ(Signal(s).line, x) <=> InQ(s.line, x) /\ x # y
                               /\ Positive(Signal(s).count) = Positive(s.count)
<1>1. s.count \in Int /\ s.line \in Seq(Proc) /\ Once(s.line) /\ Len(s.line) = Positive(- s.count)
  BY DEF SemType, SemOk
<1>2. CASE ~s.made
  BY <1>2 DEF Signal
<1>3. CASE s.made /\ ~(s.count < 0)
  <2>1. Signal(s) = [s EXCEPT !.count = s.count + 1]
    BY <1>3 DEF Signal, SemType
  <2>2. /\ Signal(s).count = s.count + 1 /\ Signal(s).line = s.line /\ Signal(s).made = s.made
        /\ Signal(s) \in SemType
    BY <1>1, <2>1 DEF SemType
  <2>3. Positive(- s.count) = Positive(- (s.count + 1)) /\ Positive(s.count + 1) = Positive(s.count) + 1
    BY <1>1, <1>3 DEF Positive
  <2> QED BY <1>1, <1>3, <2>2, <2>3 DEF SemOk
<1>4. CASE s.made /\ s.count < 0
  <2>1. Signal(s) = WithLine(s, s.count + 1, Tail(s.line))
    BY <1>4 DEF Signal, WithLine
  <2>2. Len(s.line) = - s.count /\ s.line # <<>>
    BY <1>1, <1>4 DEF Positive
  <2>3. /\ Tail(s.line) \in Seq(Proc) /\ Len(Tail(s.line)) = Len(s.line) - 1 /\ Once(Tail(s.line))
        /\ Head(s.line) \in Proc /\ InQ(s.line, Head(s.line))
        /\ \A y : InQ(Tail(s.line), y) <=> InQ(s.line, y) /\ y # Head(s.line)
    BY <1>1, <2>2, TailQ
  <2>4. /\ Signal(s).count = s.count + 1 /\ Signal(s).line = Tail(s.line) /\ Signal(s).made = s.made
        /\ Signal(s) \in SemType
    <3>1. s.count + 1 \in Int
      BY <1>1
    <3>2. PICK c \in Int, l \in Seq(Proc) : c = s.count + 1 /\ l = Tail(s.line)
      BY <2>3, <3>1
    <3>3. /\ WithLine(s, c, l) \in SemType /\ WithLine(s, c, l).count = c
          /\ WithLine(s, c, l).line = l /\ WithLine(s, c, l).made = s.made
      BY SetSem
    <3> QED BY <2>1, <3>2, <3>3
  <2>5. Len(Tail(s.line)) = Positive(- (s.count + 1)) /\ Positive(s.count + 1) = Positive(s.count)
    BY <1>1, <1>4, <2>2, <2>3 DEF Positive
  <2>6. SemOk(Signal(s))
    BY <1>4, <2>3, <2>4, <2>5 DEF SemOk
  <2> QED BY <1>4, <2>3, <2>4, <2>5, <2>6
<1>5. s.made \in BOOLEAN
  BY DEF SemType
<1> QED BY <1>1, <1>2, <1>3, <1>4, <1>5

LEMMA NoSemOk == NoSem \in SemType /\ SemOk(NoSem) /\ NoSem.line = <<>> /\ ~NoSem.made /\ NoSem.count = 0
<1>1. <<>> \in Seq(Proc) /\ Once(<<>>) /\ Len(<<>>) = 0 /\ Positive(- 0) = 0
  BY DEF Once, Positive
<1> QED BY <1>1 DEF NoSem, SemType, SemOk

LEMMA NewSemOk ==
  ASSUME NEW c \in Nat
  PROVE  /\ NewSem(c) \in SemType /\ SemOk(NewSem(c)) /\ NewSem(c).line = <<>>
         /\ NewSem(c).made /\ NewSem(c).count = c /\ Positive(c) = c
<1>1. <<>> \in Seq(Proc) /\ Once(<<>>) /\ Len(<<>>) = 0 /\ Positive(- c) = 0 /\ Positive(c) = c
  BY DEF Once, Positive
<1> QED BY <1>1 DEF NewSem, SemType, SemOk

LEMMA ReleaseSem ==
  ASSUME NEW s \in SemType, SemOk(s), NEW to \in {"PT_FREE", "PT_ALLOC"}, NEW c \in Nat
  PROVE  /\ Release(s, to, c) \in SemType /\ SemOk(Release(s, to, c)) /\ Release(s, to, c).line = <<>>
         /\ to = "PT_ALLOC" /\ Release(s, to, c).made => Release(s, to, c).count = c
         /\ Release(s, to, c).count \in {0, c} /\ Positive(c) = c
<1>1. CASE to = "PT_ALLOC"
  <2>1. CASE s.made
    BY <1>1, <2>1, NewSemOk DEF Release, Reset
  <2>2. CASE ~s.made
    BY <1>1, <2>2, NewSemOk DEF Release, Reset, SemOk
  <2> QED BY <2>1, <2>2
<1>2. CASE to # "PT_ALLOC"
  BY <1>2, NoSemOk, NewSemOk DEF Release
<1> QED BY <1>1, <1>2

LEMMA UnlinkSem ==
  ASSUME NEW s \in SemType, SemOk(s), NEW p \in Proc, InQ(s.line, p)
  PROVE  LET t == WithLine(s, s.count + 1, Unlink(s.line, p))
         IN /\ t \in SemType /\ SemOk(t) /\ t.made = s.made /\ Positive(t.count) = Positive(s.count)
            /\ t.line = Unlink(s.line, p)
            /\ \A x : InQ(t.line, x) <=> InQ(s.line, x) /\ x # p
<1> DEFINE t == WithLine(s, s.count + 1, Unlink(s.line, p))
<1>1. s.count \in Int /\ s.line \in Seq(Proc) /\ Once(s.line) /\ Len(s.line) = Positive(- s.count)
  BY DEF SemType, SemOk
<1>2. /\ Unlink(s.line, p) \in Seq(Proc) /\ Len(Unlink(s.line, p)) = Len(s.line) - 1
      /\ Once(Unlink(s.line, p))
      /\ \A y : InQ(Unlink(s.line, p), y) <=> InQ(s.line, y) /\ y # p
  BY <1>1, UnlinkQ
<1>3. Len(s.line) \in Nat /\ Len(s.line) # 0
  BY <1>1 DEF InQ
<1>4. s.count < 0 /\ Len(s.line) - 1 = Positive(- (s.count + 1)) /\ Positive(s.count + 1) = Positive(s.count)
  BY <1>1, <1>3 DEF Positive
<1>5. t \in SemType /\ t.count = s.count + 1 /\ t.line = Unlink(s.line, p) /\ t.made = s.made
  <2>1. s.count + 1 \in Int
    BY <1>1
  <2> QED BY <1>1, <1>2, <2>1, SetSem
<1>6. s.made
  BY <1>1, <1>4 DEF SemOk
<1>7. SemOk(t)
  BY <1>2, <1>4, <1>5, <1>6 DEF SemOk
<1> QED BY <1>2, <1>4, <1>5, <1>7

LEMMA GrantedFinite == \A q, side : IsFiniteSet(Granted(q, side)) /\ Cardinality(Granted(q, side)) \in Nat
<1> TAKE q, side
<1>1. Granted(q, side) \in SUBSET Proc
  BY DEF Granted
<1> QED BY <1>1, PtConst, FS_Subset, FS_CardinalityType

LEMMA GrantedIs ==
  ASSUME NEW q, NEW side \in Side, NEW x \in Proc
  PROVE  x \in Granted(q, side) <=> Came(x, q, side) /\ ~InQ(ptsem[q][side].line, x)
BY DEF Granted, Blocked, Came, InCall
LEMMA GrantedIsNext ==
  ASSUME NEW q, NEW side \in Side, NEW x \in Proc
  PROVE  x \in Granted(q, side)' <=> Came(x, q, side)' /\ ~InQ(ptsem'[q][side].line, x)
BY DEF Granted, Blocked, Came, InCall

(* A port is as it was when the step is not about it.                      *)
Near(x, r) == ptcont[x].op \in Side \cup {"clear", "clearing", "cleared"} /\ ptcont[x].port = r
LEMMA Elsewhere ==
  ASSUME NEW r \in Port, PortOk(r),
         ptstate'[r] = ptstate[r], ptseq'[r] = ptseq[r], ptmaxcnt'[r] = ptmaxcnt[r],
         ptlist'[r] = ptlist[r], ptsem'[r] = ptsem[r], ptlost'[r] = ptlost[r],
         panicked => panicked',
         \A x \in Proc : ptcont'[x] = ptcont[x] \/ (~Near(x, r) /\ ~Near(x, r)')
  PROVE  PortOk(r)'
<1>1. \A x \in Proc, side \in Side :
         /\ InCall(x, r, side)' <=> InCall(x, r, side)
         /\ InCall(x, r, side) => ptcont'[x] = ptcont[x]
  BY DEF InCall, Near
<1>2. \A x \in Proc : (Clears(x, r)' <=> Clears(x, r)) /\ (Clears(x, r) => ptcont'[x] = ptcont[x])
  BY DEF Clears, Near
<1>3. Alloc(r)' <=> Alloc(r)
  BY DEF Alloc
<1>4. \A side \in Side : Granted(r, side)' = Granted(r, side)
  <2> TAKE side \in Side
  <2>1. \A x \in Proc : Came(x, r, side)' <=> Came(x, r, side)
    BY <1>1 DEF Came
  <2>2. ASSUME NEW x PROVE x \in Granted(r, side)' <=> x \in Granted(r, side)
    <3>1. x \in Proc => (x \in Granted(r, side) <=> Came(x, r, side) /\ ~InQ(ptsem[r][side].line, x))
      BY GrantedIs
    <3>2. x \in Proc => (x \in Granted(r, side)' <=> Came(x, r, side)' /\ ~InQ(ptsem'[r][side].line, x))
      BY GrantedIsNext
    <3>3. (x \in Granted(r, side) => x \in Proc) /\ (x \in Granted(r, side)' => x \in Proc)
      BY DEF Granted
    <3> QED BY <2>1, <3>1, <3>2, <3>3
  <2> QED BY <2>2
<1>5. LineOk(r, "snd")' /\ LineOk(r, "rcv")' /\ YoungOk(r, "snd")' /\ YoungOk(r, "rcv")'
  BY <1>1, <1>3 DEF PortOk, LineOk, YoungOk, Side
<1>6. ClearOk(r)'
  BY <1>2 DEF PortOk, ClearOk, SndCleared, RcvCleared
<1>7. ListOk(r)'
  BY <1>3 DEF PortOk, ListOk
<1>8. PermitsOk(r)'
  BY <1>3, <1>4 DEF PortOk, PermitsOk, SndPermits, RcvPermits, Side
<1> QED BY <1>5, <1>6, <1>7, <1>8 DEF PortOk

OnlyPort(q) ==
  /\ panicked => panicked'
  /\ \A r \in Port \ {q} :
       /\ ptstate'[r] = ptstate[r] /\ ptseq'[r] = ptseq[r] /\ ptmaxcnt'[r] = ptmaxcnt[r]
       /\ ptlist'[r] = ptlist[r] /\ ptsem'[r] = ptsem[r] /\ ptlost'[r] = ptlost[r]
       /\ \A x \in Proc : ptcont'[x] = ptcont[x] \/ (~Near(x, r) /\ ~Near(x, r)')
LEMMA PortStep ==
  ASSUME PtInv, NEW q \in Port, OnlyPort(q), PtTypes', PortOk(q)', NodesAccounted'
  PROVE  PtInv'
<1>1. ASSUME NEW r \in Port \ {q} PROVE PortOk(r)'
  BY Elsewhere DEF OnlyPort, PtInv
<1> QED BY <1>1 DEF PtInv

LEMMA GotoPort ==
  ASSUME PtTypes, NEW p \in Proc, NEW q \in Port, NEW c \in Cont, ptcont' = [ptcont EXCEPT ![p] = c],
         ptcont[p] = InUser \/ ptcont[p].port = q, c = InUser \/ c = Dead \/ c.port = q
  PROVE  /\ \A x \in Proc : ptcont'[x] = IF x = p THEN c ELSE ptcont[x]
         /\ \A r \in Port \ {q} : \A x \in Proc : ptcont'[x] = ptcont[x] \/ (~Near(x, r) /\ ~Near(x, r)')
         /\ ptcont' \in [Proc -> Cont]
<1>1. /\ ptcont \in [Proc -> Cont] /\ ptcont' = [ptcont EXCEPT ![p] = c]
      /\ p \in Proc /\ c \in Cont
  BY DEF PtTypes
<1>2. \A x \in Proc : ptcont'[x] = IF x = p THEN c ELSE ptcont[x]
  BY ONLY <1>1
<1>3. ASSUME NEW r \in Port \ {q}
      PROVE  ~Near(p, r) /\ ~Near(p, r)'
  <2>1. ~Near(p, r)
    BY DEF Near, InUser, Side
  <2>2. ptcont'[p] = c
    BY <1>2
  <2>3. ~Near(p, r)'
    BY <2>2 DEF Near, InUser, Dead, Side
  <2> QED BY <2>1, <2>3
<1>4. ptcont' \in [Proc -> Cont]
  BY ONLY <1>1
<1> QED BY <1>2, <1>3, <1>4

LEMMA InUserCont == InUser \in Cont /\ Dead \in Cont
BY PtConst DEF InUser, Dead, Cont

(* The nodes, while nobody panics. *)
LEMMA NodesStep ==
  ASSUME PtInv, PtTypes', ~panicked', NEW q \in Port, \A r \in Port \ {q} : ptlist'[r] = ptlist[r],
         ptfree' = ptfree + Len(ptlist[q]) - Len(ptlist'[q])
  PROVE  NodesAccounted'
<1> DEFINE n == [r \in Port |-> Len(ptlist[r])]
           m == [r \in Port |-> Len(ptlist'[r])]
<1>a. \A r \in Port : Len(ptlist[r]) \in Nat /\ Len(ptlist'[r]) \in Nat
  <2> TAKE r \in Port
  <2>1. ptlist[r] \in Seq(Nat) /\ ptlist'[r] \in Seq(Nat)
    BY DEF PtInv, PtTypes
  <2> QED BY <2>1
<1>1. n \in [Port -> Nat] /\ m \in [Port -> Nat] /\ \A r \in Port \ {q} : m[r] = n[r]
  BY <1>a
<1>2. ptfree + Cardinality(Places(Port, n)) = PT_MSGS
  BY DEF PtInv, NodesAccounted
<1>3. n[q] = Len(ptlist[q]) /\ m[q] = Len(ptlist'[q]) /\ ptfree \in Nat
  BY DEF PtInv, PtTypes
<1> HIDE DEF n, m
<1>4. /\ Cardinality(Places(Port, n)) \in Nat /\ Cardinality(Places(Port, m)) \in Nat
      /\ Cardinality(Places(Port, m)) = Cardinality(Places(Port, n)) - n[q] + m[q] /\ n[q] \in Nat /\ m[q] \in Nat
  BY <1>1, PlacesChange, PtConst
<1>5. ptfree' + Cardinality(Places(Port, m)) = PT_MSGS
  <2>1. ptfree' = ptfree + n[q] - m[q]
    BY <1>3
  <2>2. \A f, g, a, b, x, y \in Int : f + a = PT_MSGS /\ b = (a - x) + y /\ g = (f + x) - y => g + b = PT_MSGS
    OBVIOUS
  <2>3. ptfree' \in Int /\ ptfree \in Int
    BY DEF PtInv, PtTypes
  <2>4. PICK a \in Int, b \in Int : a = Cardinality(Places(Port, n)) /\ b = Cardinality(Places(Port, m))
    BY <1>4
  <2>5. PICK x \in Int, y \in Int : x = n[q] /\ y = m[q]
    BY <1>4
  <2>6. PICK f \in Int, g \in Int : f = ptfree /\ g = ptfree'
    BY <2>3
  <2>7. f + a = PT_MSGS
    BY <1>2, <2>4, <2>6
  <2>8. b = a - x + y
    BY <1>4, <2>4, <2>5
  <2>9. g = f + x - y
    BY <2>1, <2>5, <2>6
  <2>10. g + b = PT_MSGS
    BY <2>2, <2>7, <2>8, <2>9
  <2> QED BY <2>4, <2>6, <2>10
<1> QED BY <1>5 DEF NodesAccounted, m, Places

LEMMA NodesSame ==
  ASSUME PtInv, PtTypes', ~panicked', UNCHANGED <<ptlist, ptfree>>
  PROVE  NodesAccounted'
BY DEF PtInv, NodesAccounted, Places

LEMMA PortFacts ==
  ASSUME PtInv, NEW q \in Port
  PROVE  /\ PtTypes /\ PortOk(q) /\ ptsem[q].snd \in SemType /\ ptsem[q].rcv \in SemType
         /\ ptsem[q]["snd"] \in SemType /\ ptsem[q]["rcv"] \in SemType
         /\ SemOk(ptsem[q].snd) /\ SemOk(ptsem[q].rcv)
         /\ ptlist[q] \in Seq(Nat) /\ Len(ptlist[q]) \in Nat /\ ptseq[q] \in Nat /\ ptmaxcnt[q] \in Nat
         /\ ptlost[q].snd \in Nat /\ ptlost[q].rcv \in Nat
<1>1. ptsem[q] \in [Side -> SemType] /\ ptlost[q] \in [Side -> Nat]
  BY DEF PtInv, PtTypes
<1>2. "snd" \in Side /\ "rcv" \in Side
  BY DEF Side
<1> QED BY <1>1, <1>2 DEF PtInv, PortOk, LineOk, PtTypes

(* Nobody has come to a port in a generation it has not reached yet, or    *)
(* that is over.                                                           *)
LEMMA NobodyCame ==
  ASSUME PtInv, NEW q \in Port, ~Alloc(q), NEW side \in Side
  PROVE  \A x \in Proc : ptcont[x].op = side /\ ptcont[x].port = q => ptcont[x].n < ptseq[q]
<1>1. YoungOk(q, side)
  BY DEF PtInv, PortOk, Side
<1>2. ptseq[q] \in Nat /\ \A x \in Proc : ptcont[x].n \in Nat
  BY DEF PtInv, PtTypes, Cont
<1> QED BY <1>1, <1>2 DEF YoungOk, InCall

LEMMA PtcreateKeeps ==
  ASSUME PtInv, NEW p \in Proc, NEW q \in Port, NEW c \in Sizes, Ptcreate(p, q, c)
  PROVE  PtInv'
<1>1. /\ ~panicked /\ ptstate[q] = "PT_FREE" /\ c \in Nat /\ PtTypes
      /\ UNCHANGED <<ptfree, ptcont, panicked>>
      /\ ptstate' = [ptstate EXCEPT ![q] = "PT_ALLOC"] /\ ptseq' = [ptseq EXCEPT ![q] = @ + 1]
      /\ ptmaxcnt' = [ptmaxcnt EXCEPT ![q] = c] /\ ptlist' = [ptlist EXCEPT ![q] = <<>>]
      /\ ptlost' = [ptlost EXCEPT ![q] = Both(0, 0)] /\ ptnextid' = After(q)
  BY PtConst DEF Ptcreate, FirstFree, Calls, PtInv
<1> DEFINE a == IF SemsLeft >= 1 THEN NewSem(c) ELSE NoSem
           b == IF SemsLeft >= 2 THEN NewSem(0) ELSE NoSem
<1>2. ptsem' = [ptsem EXCEPT ![q] = Both(a, b)]
  BY DEF Ptcreate
<1>3. /\ a \in SemType /\ SemOk(a) /\ a.line = <<>> /\ (a.made => Positive(a.count) = c)
      /\ b \in SemType /\ SemOk(b) /\ b.line = <<>> /\ (b.made => Positive(b.count) = 0)
  <2>1. 0 \in Nat
    OBVIOUS
  <2> QED BY <1>1, <2>1, NewSemOk, NoSemOk
<1> HIDE DEF a, b
<1>4. /\ ptstate'[q] = "PT_ALLOC" /\ ptseq'[q] = ptseq[q] + 1 /\ ptmaxcnt'[q] = c /\ ptlist'[q] = <<>>
      /\ ptlost'[q].snd = 0 /\ ptlost'[q].rcv = 0 /\ ptsem'[q].snd = a /\ ptsem'[q].rcv = b
  BY <1>1, <1>2 DEF PtTypes, Both
<1>5. PtTypes'
  <2>1. Both(0, 0) \in [Side -> Nat] /\ Both(a, b) \in [Side -> SemType]
    BY <1>3 DEF Both, Side
  <2>2. After(q) \in Port
    BY PtConst DEF After, Port
  <2>3. <<>> \in Seq(Nat)
    OBVIOUS
  <2>4. \A s \in Nat : s + 1 \in Nat
    OBVIOUS
  <2> QED BY <1>1, <1>2, <2>1, <2>2, <2>3, <2>4 DEF PtTypes
<1>6. OnlyPort(q)
  BY <1>1, <1>2 DEF OnlyPort, PtTypes
<1>7. \A side \in Side, x \in Proc : ~Came(x, q, side)' /\ (InCall(x, q, side)' => ptcont'[x].n <= ptseq'[q])
  <2> TAKE side \in Side, x \in Proc
  <2>1. InCall(x, q, side) => ptcont[x].n < ptseq[q]
    BY <1>1, NobodyCame DEF Alloc, InCall
  <2>2. ptcont[x].n \in Nat /\ ptseq[q] \in Nat
    BY <1>1 DEF PtTypes, Cont
  <2> QED BY <1>1, <1>4, <2>1, <2>2 DEF InCall, Came
<1>8. \A side \in Side : Granted(q, side)' = {}
  <2> TAKE side \in Side
  <2>1. ASSUME NEW x, x \in Granted(q, side)' PROVE FALSE
    BY <1>7, <2>1, GrantedIsNext DEF Granted
  <2> QED BY <2>1
<1>9. \A x : ~InQ(<<>>, x)
  BY DEF InQ
<1>10. LineOk(q, "snd")' /\ LineOk(q, "rcv")'
  BY <1>3, <1>4, <1>9 DEF LineOk
<1>11. YoungOk(q, "snd")' /\ YoungOk(q, "rcv")'
  BY <1>7 DEF YoungOk, Came, Side
<1>12. ClearOk(q)'
  <2>1. \A x \in Proc : ~Clears(x, q)
    BY <1>1 DEF PtInv, PortOk, ClearOk
  <2> QED BY <1>1, <2>1 DEF ClearOk, Clears
<1>13. ListOk(q)'
  BY <1>1, <1>4 DEF ListOk
<1>14. PermitsOk(q)'
  <2>1. Cardinality(Granted(q, "snd")') = 0 /\ Cardinality(Granted(q, "rcv")') = 0
    BY <1>8, FS_EmptySet DEF Side
  <2>2. Len(<<>>) = 0
    OBVIOUS
  <2> QED BY <1>1, <1>3, <1>4, <2>1, <2>2 DEF PermitsOk, SndPermits, RcvPermits
<1>15. NodesAccounted'
  <2>1. ptlist[q] = <<>>
    BY <1>1 DEF PtInv, PortOk, ListOk
  <2>2. ptfree' = ptfree + Len(ptlist[q]) - Len(ptlist'[q]) /\ \A r \in Port \ {q} : ptlist'[r] = ptlist[r]
    BY <1>1, <1>4, <2>1 DEF PtTypes
  <2> QED BY <1>1, <1>5, <2>2, NodesStep
<1>16. PortOk(q)'
  BY <1>10, <1>11, <1>12, <1>13, <1>14 DEF PortOk
<1> QED BY <1>5, <1>6, <1>15, <1>16, PortStep

(* The side of a port in use that the step leaves alone but for p, which   *)
(* may go; and the one whose semaphore is signalled.                       *)
LEMMA SideSame ==
  ASSUME PtInv, NEW p \in Proc, NEW q \in Port, NEW side \in Side, ptseq'[q] = ptseq[q],
         \A x \in Proc : x # p => ptcont'[x] = ptcont[x],
         \A x : x # p => (InQ(ptsem'[q][side].line, x) <=> InQ(ptsem[q][side].line, x)),
         ~Came(p, q, side)'
  PROVE  /\ Granted(q, side)' = Granted(q, side) \ {p}
         /\ Cardinality(Granted(q, side)') = IF p \in Granted(q, side) THEN Cardinality(Granted(q, side)) - 1
                                             ELSE Cardinality(Granted(q, side))
<1>1. \A x \in Proc : x # p => (Came(x, q, side)' <=> Came(x, q, side))
  BY DEF Came, InCall
<1>2. ASSUME NEW x PROVE x \in Granted(q, side)' <=> x \in Granted(q, side) \ {p}
  <2>1. CASE x \in Proc
    BY <1>1, <2>1, GrantedIs, GrantedIsNext
  <2>2. CASE x \notin Proc
    BY <2>2 DEF Granted
  <2> QED BY <2>1, <2>2
<1>3. Granted(q, side)' = Granted(q, side) \ {p}
  BY <1>2
<1> QED BY <1>3, GrantedFinite, FS_RemoveElement

LEMMA SideSignalled ==
  ASSUME PtInv, NEW p \in Proc, NEW q \in Port, NEW side \in Side, Alloc(q), ptseq'[q] = ptseq[q],
         \A x \in Proc : x # p => ptcont'[x] = ptcont[x],
         NEW s \in SemType, SemOk(s), s = ptsem[q][side], ptsem'[q][side] = Signal(s),
         ~InCall(p, q, side), ~InCall(p, q, side)', LineOk(q, side)
  PROVE  /\ Signal(s) \in SemType /\ SemOk(Signal(s)) /\ Signal(s).made = s.made
         /\ \A x \in Proc : InQ(Signal(s).line, x) => Came(x, q, side)'
         /\ \A x \in Proc : (InCall(x, q, side)' <=> InCall(x, q, side)) /\ (Came(x, q, side)' <=> Came(x, q, side))
         /\ s.made => Positive(Signal(s).count) + Cardinality(Granted(q, side)')
                        = Positive(s.count) + Cardinality(Granted(q, side)) + 1
<1>1. \A x \in Proc : (InCall(x, q, side)' <=> InCall(x, q, side)) /\ (Came(x, q, side)' <=> Came(x, q, side))
  <2> TAKE x \in Proc
  <2>1. CASE x = p
    BY <2>1 DEF Came
  <2>2. CASE x # p
    BY <2>2 DEF Came, InCall
  <2> QED BY <2>1, <2>2
<1>2. \A x \in Proc : InQ(s.line, x) => Came(x, q, side)
  BY DEF LineOk, Came
<1>3. /\ Signal(s) \in SemType /\ SemOk(Signal(s)) /\ Signal(s).made = s.made
  BY SignalSem
<1>4. Cardinality(Granted(q, side)) \in Nat
  BY GrantedFinite
<1>5. s.count \in Int /\ Positive(s.count) \in Nat
  <2>1. s.count \in Int
    BY DEF SemType
  <2> QED BY <2>1 DEF Positive
<1>6. CASE /\ \A x : InQ(Signal(s).line, x) <=> InQ(s.line, x)
           /\ s.made => Positive(Signal(s).count) = Positive(s.count) + 1
  <2>1. ASSUME NEW x PROVE x \in Granted(q, side)' <=> x \in Granted(q, side)
    <3>1. CASE x \in Proc
      BY <1>1, <1>6, <3>1, GrantedIs, GrantedIsNext
    <3>2. CASE x \notin Proc
      BY <3>2 DEF Granted
    <3> QED BY <3>1, <3>2
  <2>2. Granted(q, side)' = Granted(q, side)
    BY <2>1
  <2>3. \A x \in Proc : InQ(Signal(s).line, x) => Came(x, q, side)'
    BY <1>1, <1>2, <1>6
  <2>4. s.made => Positive(Signal(s).count) + Cardinality(Granted(q, side)')
                        = Positive(s.count) + Cardinality(Granted(q, side)) + 1
    BY <1>4, <1>5, <1>6, <2>2
  <2> QED BY <1>1, <1>3, <2>3, <2>4
<1>7. CASE \E y \in Proc :
              /\ s.made /\ InQ(s.line, y)
              /\ \A x : InQ(Signal(s).line, x) <=> InQ(s.line, x) /\ x # y
              /\ Positive(Signal(s).count) = Positive(s.count)
  <2>0. PICK y \in Proc : /\ s.made /\ InQ(s.line, y)
                          /\ \A x : InQ(Signal(s).line, x) <=> InQ(s.line, x) /\ x # y
                          /\ Positive(Signal(s).count) = Positive(s.count)
    BY <1>7
  <2>1. ASSUME NEW x PROVE x \in Granted(q, side)' <=> x \in Granted(q, side) \cup {y}
    <3>1. CASE x \in Proc
      <4>1. x \in Granted(q, side)' <=> Came(x, q, side) /\ ~(InQ(s.line, x) /\ x # y)
        BY <1>1, <2>0, <3>1, GrantedIsNext
      <4>2. x \in Granted(q, side) <=> Came(x, q, side) /\ ~InQ(s.line, x)
        BY <3>1, GrantedIs
      <4> QED BY <1>2, <2>0, <4>1, <4>2
    <3>2. CASE x \notin Proc
      BY <3>2 DEF Granted
    <3> QED BY <3>1, <3>2
  <2>2. Granted(q, side)' = Granted(q, side) \cup {y} /\ y \notin Granted(q, side)
    BY <2>0, <2>1, GrantedIs
  <2>3. \A x \in Proc : InQ(Signal(s).line, x) => Came(x, q, side)'
    BY <1>1, <1>2, <2>0
  <2>4. Cardinality(Granted(q, side)') = Cardinality(Granted(q, side)) + 1
    BY <2>2, GrantedFinite, FS_AddElement
  <2>5. Positive(Signal(s).count) + Cardinality(Granted(q, side)')
                        = Positive(s.count) + Cardinality(Granted(q, side)) + 1
    BY <1>4, <1>5, <2>0, <2>4
  <2> QED BY <1>1, <1>3, <2>3, <2>5
<1> QED BY <1>6, <1>7, SignalSem

(* A port stays in use.                                                    *)
LEMMA InUseOk ==
  ASSUME PtInv, NEW q \in Port, Alloc(q), UNCHANGED <<ptstate, ptseq, ptmaxcnt>>,
         SemOk(ptsem'[q].snd), SemOk(ptsem'[q].rcv),
         ptsem'[q].snd.made = ptsem[q].snd.made, ptsem'[q].rcv.made = ptsem[q].rcv.made,
         \A side \in Side, x \in Proc : InQ(ptsem'[q][side].line, x) => Came(x, q, side)',
         \A side \in Side, x \in Proc : InCall(x, q, side)' =>
            \/ InCall(x, q, side) /\ ptcont'[x] = ptcont[x]
            \/ Came(x, q, side)' /\ ptsem[q][side].made,
         \A x \in Proc : ~Clears(x, q)',
         ListOk(q)', PermitsOk(q)'
  PROVE  PortOk(q)'
<1>1. PortOk(q) /\ (Alloc(q))' /\ ptseq[q] \in Nat
  BY DEF PtInv, PtTypes, Alloc
<1>2. LineOk(q, "snd")' /\ LineOk(q, "rcv")'
  BY DEF LineOk, Side, Came
<1>3. ASSUME NEW side \in Side, YoungOk(q, side), ptsem'[q][side].made = ptsem[q][side].made
      PROVE  YoungOk(q, side)'
  <2> SUFFICES ASSUME NEW x \in Proc, InCall(x, q, side)'
      PROVE ptcont'[x].n <= ptseq'[q] /\ (ptcont'[x].n = ptseq'[q] => Alloc(q)' /\ ptsem'[q][side].made)
    BY DEF YoungOk
  <2>1. CASE InCall(x, q, side) /\ ptcont'[x] = ptcont[x]
    BY <1>1, <1>3, <2>1 DEF YoungOk
  <2>2. CASE Came(x, q, side)' /\ ptsem[q][side].made
    BY <1>1, <1>3, <2>2 DEF Came
  <2> QED BY <2>1, <2>2
<1>4. YoungOk(q, "snd")' /\ YoungOk(q, "rcv")'
  BY <1>1, <1>3 DEF PortOk, Side
<1>5. ClearOk(q)'
  BY DEF ClearOk
<1> QED BY <1>2, <1>4, <1>5 DEF PortOk

LEMMA NobodyClears ==
  ASSUME PtInv, NEW q \in Port, Alloc(q), NEW p \in Proc, \A x \in Proc : x # p => ptcont'[x] = ptcont[x],
         ~Clears(p, q)'
  PROVE  \A x \in Proc : ~Clears(x, q)'
<1>1. \A x \in Proc : ~Clears(x, q)
  BY DEF PtInv, PortOk, ClearOk, Alloc
<1>2. ASSUME NEW x \in Proc, x # p PROVE ~Clears(x, q)'
  BY <1>1, <1>2 DEF Clears
<1> QED BY <1>2

(* wait() that blocks. *)
LEMMA EnterBlocks ==
  ASSUME PtInv, NEW p \in Proc, NEW q \in Port, NEW side \in Side, Calls(p), Alloc(q),
         ptsem[q][side].made, Blocks(ptsem[q][side]),
         ptsem' = [ptsem EXCEPT ![q][side] = Wait(@, p)],
         Goto(p, At(side, q, ptseq[q], "PT_FREE")),
         UNCHANGED <<ptlist, ptfree, panicked, heldvars, ptseq, ptlost>>
  PROVE  PtInv'
<1> DEFINE s == ptsem[q][side]
           c == At(side, q, ptseq[q], "PT_FREE")
<1>1. PtTypes /\ PortOk(q) /\ s \in SemType /\ SemOk(s) /\ ptseq[q] \in Nat /\ ~panicked /\ ptcont[p] = InUser
  BY PortFacts DEF Side, Calls
<1>2. c \in Cont /\ c.port = q /\ c.op = side /\ c.n = ptseq[q]
  BY <1>1 DEF At, Cont, Side
<1>3. ptcont' = [ptcont EXCEPT ![p] = c]
  BY DEF Goto
<1> HIDE DEF c
<1>4. /\ \A x \in Proc : ptcont'[x] = IF x = p THEN c ELSE ptcont[x]
      /\ \A r \in Port \ {q} : \A x \in Proc : ptcont'[x] = ptcont[x] \/ (~Near(x, r) /\ ~Near(x, r)')
      /\ ptcont' \in [Proc -> Cont]
  BY <1>1, <1>2, <1>3, GotoPort
<1>5. \A t \in Side : ~InCall(p, q, t)
  BY <1>1 DEF InCall, InUser, Side
<1>6. ~InQ(s.line, p)
  BY <1>1, <1>5 DEF PortOk, LineOk, Side
<1>7. /\ Wait(s, p) \in SemType /\ SemOk(Wait(s, p)) /\ Wait(s, p).made
      /\ \A x : InQ(Wait(s, p).line, x) <=> InQ(s.line, x) \/ x = p
      /\ Positive(Wait(s, p).count) = Positive(s.count)
  BY <1>1, <1>6, WaitSem
<1>8. /\ ptsem' \in [Port -> [Side -> SemType]]
      /\ ptsem'[q][side] = Wait(s, p) /\ \A t \in Side : t # side => ptsem'[q][t] = ptsem[q][t]
      /\ \A r \in Port \ {q} : ptsem'[r] = ptsem[r]
  BY <1>1, <1>7 DEF PtTypes
<1>9. PtTypes'
  BY <1>1, <1>4, <1>8 DEF PtTypes, heldvars
<1>10. OnlyPort(q)
  BY <1>4, <1>8 DEF OnlyPort, heldvars
<1>11. \A t \in Side, x \in Proc : InQ(ptsem[q][t].line, x) => Came(x, q, t) /\ x # p
  BY <1>1, <1>5 DEF PortOk, LineOk, Side, Came
<1>12. \A t \in Side, x \in Proc : x # p => (Came(x, q, t)' <=> Came(x, q, t)) /\ (InCall(x, q, t)' <=> InCall(x, q, t))
  BY <1>4 DEF Came, InCall
<1>13. Came(p, q, side)' /\ \A t \in Side : t # side => ~InCall(p, q, t)'
  BY <1>2, <1>4 DEF Came, InCall, Side
<1>14. \A t \in Side, x \in Proc : InQ(ptsem'[q][t].line, x) => Came(x, q, t)'
  BY <1>7, <1>8, <1>11, <1>12, <1>13
<1>15. \A t \in Side : Granted(q, t)' = Granted(q, t)
  <2> TAKE t \in Side
  <2>1. ASSUME NEW x PROVE x \in Granted(q, t)' <=> x \in Granted(q, t)
    <3>1. CASE x \in Proc /\ x # p
      <4>1. InQ(ptsem'[q][t].line, x) <=> InQ(ptsem[q][t].line, x)
        BY <1>7, <1>8, <3>1
      <4> QED BY <1>12, <3>1, <4>1, GrantedIs, GrantedIsNext
    <3>2. CASE x \notin Proc
      BY <3>2 DEF Granted
    <3>3. CASE x = p
      <4>1. x \notin Granted(q, t)
        BY <1>5, <3>3 DEF Granted, InCall
      <4>2. x \notin Granted(q, t)'
        <5>1. t = side => InQ(ptsem'[q][t].line, p)
          BY <1>7, <1>8
        <5>2. t # side => ~Came(p, q, t)'
          BY <1>13 DEF Came
        <5> QED BY <3>3, <5>1, <5>2, GrantedIsNext
      <4> QED BY <4>1, <4>2
    <3> QED BY <3>1, <3>2, <3>3
  <2> QED BY <2>1
<1>16. \A t \in Side : /\ SemOk(ptsem'[q][t]) /\ ptsem'[q][t].made = ptsem[q][t].made
                      /\ Positive(ptsem'[q][t].count) = Positive(ptsem[q][t].count)
  <2> TAKE t \in Side
  <2>1. CASE t = side
    BY <1>1, <1>7, <1>8, <2>1
  <2>2. CASE t # side
    BY <1>1, <1>8, <2>2, PortFacts DEF Side
  <2> QED BY <2>1, <2>2
<1>17. ListOk(q)'
  BY <1>1, <1>16 DEF PortOk, ListOk, heldvars, Alloc, Side
<1>18. PermitsOk(q)'
  BY <1>1, <1>15, <1>16 DEF PortOk, PermitsOk, SndPermits, RcvPermits, heldvars, Alloc, Side
<1>19. \A x \in Proc : ~Clears(x, q)'
  <2>1. ~Clears(p, q)'
    BY <1>2, <1>4 DEF Clears, Side
  <2> QED BY <1>4, <2>1, NobodyClears
<1>20. PortOk(q)'
  <2>1. \A t \in Side, x \in Proc : InCall(x, q, t)' =>
            \/ InCall(x, q, t) /\ ptcont'[x] = ptcont[x]
            \/ Came(x, q, t)' /\ ptsem[q][t].made
    BY <1>4, <1>12, <1>13
  <2>2. UNCHANGED <<ptstate, ptseq, ptmaxcnt>>
    BY DEF heldvars
  <2>3. SemOk(ptsem'[q].snd) /\ SemOk(ptsem'[q].rcv)
    BY <1>16 DEF Side
  <2>4. ptsem'[q].snd.made = ptsem[q].snd.made /\ ptsem'[q].rcv.made = ptsem[q].rcv.made
    BY <1>16 DEF Side
  <2> QED BY <1>14, <1>17, <1>18, <1>19, <2>1, <2>2, <2>3, <2>4, InUseOk
<1>21. NodesAccounted'
  BY <1>1, <1>9, NodesSame
<1> QED BY <1>9, <1>10, <1>20, <1>21, PortStep

(* The message of a sender that has been let in; s are the semaphores once *)
(* it is.  Should there be no node, the places promised are too many.      *)
LEMMA PutKeeps ==
  ASSUME PtInv, NEW p \in Proc, NEW q \in Port, ~panicked, Alloc(q), NEW s \in [Side -> SemType],
         s.rcv = ptsem[q].rcv, SemOk(s.snd), s.snd.made, ptsem[q].snd.made,
         s.snd.line = ptsem[q].snd.line,
         Put(q, ptseq[q], s), UNCHANGED <<heldvars, ptseq, ptlost>>,
         ptcont' = [ptcont EXCEPT ![p] = InUser],
         ptcont[p] = InUser \/ (ptcont[p].port = q /\ ptcont[p].op = "snd"),
         ~InQ(ptsem[q].snd.line, p),
         Positive(s.snd.count) + Cardinality(Granted(q, "snd")') + 1
           = Positive(ptsem[q].snd.count) + Cardinality(Granted(q, "snd")),
         Cardinality(Granted(q, "snd")') \in Nat
  PROVE  PtInv'
<1> DEFINE r == ptsem[q].rcv
<1>1. /\ PtTypes /\ PortOk(q) /\ r \in SemType /\ SemOk(r) /\ ptsem[q].snd \in SemType
      /\ ptlist[q] \in Seq(Nat) /\ Len(ptlist[q]) \in Nat /\ ptseq[q] \in Nat /\ ptmaxcnt[q] \in Nat
      /\ ptlost[q].snd \in Nat /\ ptlost[q].rcv \in Nat
  BY PortFacts
<1>2. /\ \A x \in Proc : ptcont'[x] = IF x = p THEN InUser ELSE ptcont[x]
      /\ \A o \in Port \ {q} : \A x \in Proc : ptcont'[x] = ptcont[x] \/ (~Near(x, o) /\ ~Near(x, o)')
      /\ ptcont' \in [Proc -> Cont]
  BY <1>1, GotoPort, InUserCont
<1>3. UNCHANGED <<ptstate, ptmaxcnt, ptnextid, ptseq, ptlost>>
  BY DEF heldvars
<1>4. SndPermits(q) /\ RcvPermits(q)
  BY <1>1 DEF PortOk, PermitsOk
<1>5. /\ \A n \in Int : Positive(n) \in Nat
      /\ ptsem[q].snd.count \in Int /\ r.count \in Int /\ s.snd.count \in Int
      /\ s.snd \in SemType
  <2>1. "snd" \in Side
    BY DEF Side
  <2> QED BY <1>1, <2>1 DEF SemType, Positive
<1>6. Cardinality(Granted(q, "snd")) \in Nat /\ Cardinality(Granted(q, "rcv")) \in Nat
  BY GrantedFinite
<1>7. /\ Len(ptlist[q]) + 1 <= ptmaxcnt[q]
      /\ Positive(s.snd.count) + (Len(ptlist[q]) + 1) + Cardinality(Granted(q, "snd")') + ptlost[q].snd = ptmaxcnt[q]
  <2>1. PICK a \in Nat, b \in Nat, d \in Nat, e \in Nat :
          /\ a = Positive(ptsem[q].snd.count) /\ b = Positive(s.snd.count)
          /\ d = Cardinality(Granted(q, "snd")) /\ e = Cardinality(Granted(q, "snd")')
    BY <1>5, <1>6
  <2>2. b + e + 1 = a + d
    BY <2>1
  <2>3. a + Len(ptlist[q]) + d + ptlost[q].snd = ptmaxcnt[q]
    BY <1>4, <2>1 DEF SndPermits
  <2>4. /\ Len(ptlist[q]) + 1 <= ptmaxcnt[q]
        /\ b + (Len(ptlist[q]) + 1) + e + ptlost[q].snd = ptmaxcnt[q]
    <3>1. PICK n \in Nat, o \in Nat, c \in Nat :
            n = Len(ptlist[q]) /\ o = ptlost[q].snd /\ c = ptmaxcnt[q]
      BY <1>1
    <3>2. b + e + 1 = a + d /\ a + n + d + o = c
      BY <2>2, <2>3, <3>1
    <3>3. n + 1 <= c /\ b + (n + 1) + e + o = c
      BY ONLY a \in Nat, b \in Nat, d \in Nat, e \in Nat, n \in Nat, o \in Nat, c \in Nat, <3>2
    <3> QED BY ONLY <3>1, <3>3
  <2> QED BY <2>1, <2>4
<1>8. ~InCall(p, q, "rcv") /\ ~InCall(p, q, "rcv")' /\ ~InCall(p, q, "snd")' /\ ~Clears(p, q)'
  BY <1>2 DEF InCall, InUser, Clears
<1>9. \A x \in Proc : ~Clears(x, q)'
  BY <1>2, <1>8, NobodyClears
<1>10. \A x \in Proc : x # p => \A t \in Side : /\ (InCall(x, q, t)' <=> InCall(x, q, t))
                                             /\ (Came(x, q, t)' <=> Came(x, q, t))
  BY <1>2, <1>3 DEF Came, InCall
<1>11. \A t \in Side, x \in Proc : InQ(ptsem[q][t].line, x) => Came(x, q, t)
  BY <1>1 DEF PortOk, LineOk, Side, Came
<1>12. \A t \in Side, x \in Proc : InCall(x, q, t)' =>
            \/ InCall(x, q, t) /\ ptcont'[x] = ptcont[x]
            \/ Came(x, q, t)' /\ ptsem[q][t].made
  BY <1>2, <1>8, <1>10 DEF Side
<1>13. CASE ptfree = 0
  <2>1. panicked' = TRUE /\ ptsem' = [ptsem EXCEPT ![q] = s] /\ UNCHANGED <<ptlist, ptfree>>
    BY <1>13 DEF Put
  <2>2. /\ ptsem' \in [Port -> [Side -> SemType]]
        /\ ptsem'[q].snd = s.snd /\ ptsem'[q].rcv = r /\ \A o \in Port \ {q} : ptsem'[o] = ptsem[o]
    BY <1>1, <2>1 DEF PtTypes
  <2>3. PtTypes'
    BY <1>1, <1>2, <1>3, <2>1, <2>2 DEF PtTypes
  <2>4. OnlyPort(q)
    BY <1>2, <1>3, <2>1, <2>2 DEF OnlyPort
  <2>5. \A t \in Side, x \in Proc : InQ(ptsem'[q][t].line, x) => Came(x, q, t)'
    <3>1. ~InQ(ptsem[q].rcv.line, p)
      BY <1>8, <1>11 DEF Side, Came
    <3>2. \A t \in Side : ptsem'[q][t].line = ptsem[q][t].line
      BY <2>2 DEF Side
    <3>3. \A t \in Side : ~InQ(ptsem[q][t].line, p)
      BY <3>1 DEF Side
    <3> QED BY <1>10, <1>11, <3>2, <3>3
  <2>6. ListOk(q)'
    BY <1>1, <1>3, <2>1, <2>2 DEF PortOk, ListOk, Alloc
  <2>7. PermitsOk(q)'
    BY <2>1 DEF PermitsOk
  <2>8. PortOk(q)'
    <3>1. SemOk(ptsem'[q].snd) /\ SemOk(ptsem'[q].rcv)
      BY <1>1, <2>2
    <3>2. ptsem'[q].snd.made = ptsem[q].snd.made /\ ptsem'[q].rcv.made = ptsem[q].rcv.made
      <4>1. s.snd.made = TRUE /\ ptsem[q].snd.made = TRUE
        BY <1>1, <1>5 DEF SemType
      <4> QED BY <2>2, <4>1
    <3> QED BY <1>3, <1>9, <1>12, <2>5, <2>6, <2>7, <3>1, <3>2, InUseOk
  <2>9. NodesAccounted'
    <3> DEFINE n == [o \in Port |-> Len(ptlist[o])]
               m == [o \in Port |-> IF ptstate[o] = "PT_FREE" THEN 0 ELSE ptmaxcnt[o]]
    <3>1. ASSUME NEW o \in Port PROVE Len(ptlist[o]) \in Nat /\ Len(ptlist[o]) <= m[o] /\ m[o] \in Nat
      <4>1. ListOk(o) /\ Len(ptlist[o]) \in Nat /\ ptmaxcnt[o] \in Nat
        BY PortFacts DEF PortOk
      <4> QED BY <4>1 DEF ListOk
    <3>2. n \in [Port -> Nat] /\ m \in [Port -> Nat] /\ \A o \in Port : n[o] <= m[o]
      BY <3>1
    <3>3. n[q] < m[q]
      BY <1>1, <1>7 DEF Alloc
    <3>4. ptfree + Cardinality(Places(Port, n)) = PT_MSGS /\ ptfree = 0
      BY <1>13 DEF PtInv, NodesAccounted
    <3> HIDE DEF n, m
    <3>5. Cardinality(Places(Port, n)) < Cardinality(Places(Port, m)) /\ Cardinality(Places(Port, n)) \in Nat
      BY <3>2, <3>3, PlacesMore, PlacesChange, PtConst
    <3>6. Cardinality(Places(Port, m)) > PT_MSGS
      <4>1. Cardinality(Places(Port, m)) \in Nat
        BY <3>2, PlacesChange, PtConst
      <4>2. PT_MSGS = Cardinality(Places(Port, n))
        BY <3>4, <3>5
      <4> QED BY <3>5, <4>1, <4>2
    <3>7. ptfree' + Cardinality(Places(Port, n)') = PT_MSGS /\ Cardinality(Places(Port, m)') > PT_MSGS
      <4>1. n' = n /\ m' = m
        BY <1>3, <2>1 DEF n, m
      <4> QED BY <2>1, <3>4, <3>6, <4>1 DEF Places
    <3> QED BY <3>7 DEF NodesAccounted, n, m, Places
  <2> QED BY <2>3, <2>4, <2>8, <2>9, PortStep
<1>14. CASE ptfree # 0
  <2>1. /\ panicked' = panicked /\ ptsem' = [ptsem EXCEPT ![q] = [s EXCEPT !.rcv = Signal(s.rcv)]]
        /\ ptlist' = [ptlist EXCEPT ![q] = Append(ptlist[q], ptseq[q])] /\ ptfree' = ptfree - 1
    BY <1>14 DEF Put
  <2>2. /\ Signal(r) \in SemType /\ SemOk(Signal(r)) /\ Signal(r).made = r.made
    BY <1>1, SignalSem
  <2>3. /\ ptsem' \in [Port -> [Side -> SemType]]
        /\ ptsem'[q].snd = s.snd /\ ptsem'[q].rcv = Signal(r) /\ \A o \in Port \ {q} : ptsem'[o] = ptsem[o]
    <3>1. [s EXCEPT !.rcv = Signal(s.rcv)] \in [Side -> SemType]
      BY <2>2
    <3>2. [s EXCEPT !.rcv = Signal(s.rcv)].snd = s.snd /\ [s EXCEPT !.rcv = Signal(s.rcv)].rcv = Signal(r)
      BY DEF Side
    <3> QED BY <1>1, <2>1, <3>1, <3>2 DEF PtTypes
  <2>4. /\ Append(ptlist[q], ptseq[q]) \in Seq(Nat) /\ Len(Append(ptlist[q], ptseq[q])) = Len(ptlist[q]) + 1
        /\ \A i \in 1 .. Len(ptlist[q]) : Append(ptlist[q], ptseq[q])[i] = ptlist[q][i]
        /\ Append(ptlist[q], ptseq[q])[Len(ptlist[q]) + 1] = ptseq[q]
    BY <1>1
  <2>5. /\ ptlist'[q] = Append(ptlist[q], ptseq[q]) /\ \A o \in Port \ {q} : ptlist'[o] = ptlist[o]
        /\ ptlist' \in [Port -> Seq(Nat)]
    BY <1>1, <2>1, <2>4 DEF PtTypes
  <2>6. ptfree' \in Nat
    BY <1>1, <1>14, <2>1 DEF PtTypes
  <2>7. PtTypes'
    BY <1>1, <1>2, <1>3, <2>1, <2>3, <2>5, <2>6 DEF PtTypes
  <2>8. OnlyPort(q)
    BY <1>2, <1>3, <2>1, <2>3, <2>5 DEF OnlyPort
  <2>9. /\ \A x \in Proc : InQ(Signal(r).line, x) => Came(x, q, "rcv")'
        /\ r.made => Positive(Signal(r).count) + Cardinality(Granted(q, "rcv")')
                        = Positive(r.count) + Cardinality(Granted(q, "rcv")) + 1
    <3>1. r = ptsem[q]["rcv"] /\ ptsem'[q]["rcv"] = Signal(r) /\ LineOk(q, "rcv") /\ "rcv" \in Side
      BY <1>1, <2>3 DEF PortOk, Side
    <3> HIDE DEF r
    <3> QED BY <1>1, <1>2, <1>3, <1>8, <3>1, SideSignalled
  <2>10. \A t \in Side, x \in Proc : InQ(ptsem'[q][t].line, x) => Came(x, q, t)'
    <3>1. \A x \in Proc : InQ(ptsem'[q]["snd"].line, x) => Came(x, q, "snd")'
      BY <1>10, <1>11, <2>3 DEF Side
    <3>2. \A x \in Proc : InQ(ptsem'[q]["rcv"].line, x) => Came(x, q, "rcv")'
      BY <2>3, <2>9
    <3> QED BY <3>1, <3>2 DEF Side
  <2>11. ListOk(q)'
    <3>1. Len(ptlist'[q]) <= ptmaxcnt'[q]
      BY <1>3, <1>7, <2>4, <2>5
    <3>2. \A i \in 1 .. Len(ptlist'[q]) : ptlist'[q][i] = ptseq'[q]
      <4>1. \A i \in 1 .. Len(ptlist[q]) + 1 : i \in 1 .. Len(ptlist[q]) \/ i = Len(ptlist[q]) + 1
        BY <1>1
      <4>2. \A i \in 1 .. Len(ptlist[q]) : ptlist[q][i] = ptseq[q]
        BY <1>1 DEF PortOk, ListOk
      <4> QED BY <1>3, <2>4, <2>5, <4>1, <4>2
    <3>3. ptstate'[q] # "PT_FREE" /\ ptsem'[q].snd.made
      BY <1>3, <2>3 DEF Alloc
    <3> QED BY <3>1, <3>2, <3>3 DEF ListOk
  <2>12. PermitsOk(q)'
    <3>1. SndPermits(q)'
      <4>1. Len(ptlist'[q]) = Len(ptlist[q]) + 1
        BY <2>4, <2>5
      <4> QED BY <1>3, <1>7, <2>3, <4>1 DEF SndPermits
    <3>2. ASSUME r.made PROVE Positive(Signal(r).count) + Cardinality(Granted(q, "rcv")') + ptlost[q].rcv = Len(ptlist[q]) + 1
      <4>1. PICK a \in Nat, d \in Nat, l \in Nat, k \in Nat :
              a = Positive(r.count) /\ d = Cardinality(Granted(q, "rcv")) /\ l = ptlost[q].rcv /\ k = Len(ptlist[q])
        BY <1>1, <1>5, <1>6
      <4>2. a + d + l = k
        BY <1>4, <3>2, <4>1 DEF RcvPermits
      <4>3. PICK x \in Int : x = Positive(Signal(r).count) + Cardinality(Granted(q, "rcv")') /\ x = a + d + 1
        BY <2>9, <3>2, <4>1
      <4>4. x + l = k + 1
        BY <4>2, <4>3
      <4> QED BY <4>1, <4>3, <4>4
    <3>3. RcvPermits(q)'
      <4>1. Len(ptlist'[q]) = Len(ptlist[q]) + 1
        BY <2>4, <2>5
      <4> QED BY <1>3, <2>2, <2>3, <3>2, <4>1 DEF RcvPermits
    <3> QED BY <3>1, <3>3 DEF PermitsOk
  <2>13. PortOk(q)'
    <3>1. SemOk(ptsem'[q].snd) /\ SemOk(ptsem'[q].rcv)
      BY <2>2, <2>3
    <3>2. ptsem'[q].snd.made = ptsem[q].snd.made /\ ptsem'[q].rcv.made = ptsem[q].rcv.made
      <4>1. s.snd.made = TRUE /\ ptsem[q].snd.made = TRUE
        BY <1>1, <1>5 DEF SemType
      <4> QED BY <2>2, <2>3, <4>1
    <3> QED BY <1>3, <1>9, <1>12, <2>10, <2>11, <2>12, <3>1, <3>2, InUseOk
  <2>14. NodesAccounted'
    <3>1. ptfree' = ptfree + Len(ptlist[q]) - Len(ptlist'[q])
      <4>1. Len(ptlist'[q]) = Len(ptlist[q]) + 1 /\ ptfree \in Nat
        BY <1>1, <2>4, <2>5 DEF PtTypes
      <4> QED BY <1>1, <2>1, <4>1
    <3> QED BY <2>1, <2>5, <2>7, <3>1, NodesStep
  <2> QED BY <2>7, <2>8, <2>13, <2>14, PortStep
<1> QED BY <1>13, <1>14

(* A receiver that has been let in; s are the semaphores once it is.       *)
LEMMA GetKeeps ==
  ASSUME PtInv, NEW p \in Proc, NEW q \in Port, ~panicked, Alloc(q), NEW s \in [Side -> SemType],
         s.snd = ptsem[q].snd, SemOk(s.rcv), s.rcv.made, ptsem[q].rcv.made,
         s.rcv.line = ptsem[q].rcv.line,
         Get(q, s), UNCHANGED <<heldvars, ptseq, ptlost>>,
         ptcont' = [ptcont EXCEPT ![p] = InUser],
         ptcont[p] = InUser \/ (ptcont[p].port = q /\ ptcont[p].op = "rcv"),
         ~InQ(ptsem[q].rcv.line, p),
         Positive(s.rcv.count) + Cardinality(Granted(q, "rcv")') + 1
           = Positive(ptsem[q].rcv.count) + Cardinality(Granted(q, "rcv")),
         Cardinality(Granted(q, "rcv")') \in Nat
  PROVE  PtInv'
<1> DEFINE r == ptsem[q].snd
<1>1. /\ PtTypes /\ PortOk(q) /\ r \in SemType /\ SemOk(r) /\ ptsem[q].rcv \in SemType
      /\ ptlist[q] \in Seq(Nat) /\ Len(ptlist[q]) \in Nat /\ ptseq[q] \in Nat /\ ptmaxcnt[q] \in Nat
      /\ ptlost[q].snd \in Nat /\ ptlost[q].rcv \in Nat
  BY PortFacts
<1>2. /\ \A x \in Proc : ptcont'[x] = IF x = p THEN InUser ELSE ptcont[x]
      /\ \A o \in Port \ {q} : \A x \in Proc : ptcont'[x] = ptcont[x] \/ (~Near(x, o) /\ ~Near(x, o)')
      /\ ptcont' \in [Proc -> Cont]
  BY <1>1, GotoPort, InUserCont
<1>3. UNCHANGED <<ptstate, ptmaxcnt, ptnextid, ptseq, ptlost>>
  BY DEF heldvars
<1>4. SndPermits(q) /\ RcvPermits(q)
  BY <1>1 DEF PortOk, PermitsOk
<1>5. /\ \A n \in Int : Positive(n) \in Nat
      /\ ptsem[q].rcv.count \in Int /\ r.count \in Int /\ s.rcv.count \in Int
      /\ s.rcv \in SemType
  <2>1. "rcv" \in Side
    BY DEF Side
  <2> QED BY <1>1, <2>1 DEF SemType, Positive
<1>6. Cardinality(Granted(q, "snd")) \in Nat /\ Cardinality(Granted(q, "rcv")) \in Nat
  BY GrantedFinite
<1>7. /\ Len(ptlist[q]) >= 1
      /\ Positive(s.rcv.count) + Cardinality(Granted(q, "rcv")') + ptlost[q].rcv = Len(ptlist[q]) - 1
  <2>1. PICK a \in Nat, b \in Nat, d \in Nat, e \in Nat :
          /\ a = Positive(ptsem[q].rcv.count) /\ b = Positive(s.rcv.count)
          /\ d = Cardinality(Granted(q, "rcv")) /\ e = Cardinality(Granted(q, "rcv")')
    BY <1>5, <1>6
  <2>2. b + e + 1 = a + d
    BY <2>1
  <2>3. a + d + ptlost[q].rcv = Len(ptlist[q])
    BY <1>4, <2>1 DEF RcvPermits
  <2>4. Len(ptlist[q]) >= 1 /\ b + e + ptlost[q].rcv = Len(ptlist[q]) - 1
    <3>1. PICK l \in Nat, k \in Nat : l = ptlost[q].rcv /\ k = Len(ptlist[q])
      BY <1>1
    <3>2. a + d + l = k
      BY <2>3, <3>1
    <3>3. k >= 1 /\ b + e + l = k - 1
      BY <2>2, <3>2
    <3> QED BY <3>1, <3>3
  <2> QED BY <2>1, <2>4
<1>8. ~InCall(p, q, "snd") /\ ~InCall(p, q, "rcv")' /\ ~InCall(p, q, "snd")' /\ ~Clears(p, q)'
  BY <1>2 DEF InCall, InUser, Clears
<1>9. \A x \in Proc : ~Clears(x, q)'
  BY <1>2, <1>8, NobodyClears
<1>10. \A x \in Proc : x # p => \A t \in Side : /\ (InCall(x, q, t)' <=> InCall(x, q, t))
                                             /\ (Came(x, q, t)' <=> Came(x, q, t))
  BY <1>2, <1>3 DEF Came, InCall
<1>11. \A t \in Side, x \in Proc : InQ(ptsem[q][t].line, x) => Came(x, q, t)
  BY <1>1 DEF PortOk, LineOk, Side, Came
<1>12. \A t \in Side, x \in Proc : InCall(x, q, t)' =>
            \/ InCall(x, q, t) /\ ptcont'[x] = ptcont[x]
            \/ Came(x, q, t)' /\ ptsem[q][t].made
  BY <1>2, <1>8, <1>10 DEF Side
<1>13. /\ panicked' = panicked /\ ptsem' = [ptsem EXCEPT ![q] = [s EXCEPT !.snd = Signal(s.snd)]]
       /\ ptlist' = [ptlist EXCEPT ![q] = Tail(ptlist[q])] /\ ptfree' = ptfree + 1
  <2>1. ptlist[q] # <<>>
    BY <1>7
  <2>2. SubSeq(ptlist[q], 2, Len(ptlist[q])) = Tail(ptlist[q])
    BY <1>1, <2>1, SubSeqTail
  <2> QED BY <2>2 DEF Get
<1>14. r.made
  <2>1. ~r.made => Len(ptlist[q]) = 0
    BY <1>1 DEF PortOk, ListOk
  <2> QED BY <1>7, <2>1
<1>15. /\ Signal(r) \in SemType /\ SemOk(Signal(r)) /\ Signal(r).made = r.made
  BY <1>1, SignalSem
<1>16. /\ ptsem' \in [Port -> [Side -> SemType]]
       /\ ptsem'[q].rcv = s.rcv /\ ptsem'[q].snd = Signal(r) /\ \A o \in Port \ {q} : ptsem'[o] = ptsem[o]
  <2>1. [s EXCEPT !.snd = Signal(s.snd)] \in [Side -> SemType]
    BY <1>15
  <2>2. [s EXCEPT !.snd = Signal(s.snd)].rcv = s.rcv /\ [s EXCEPT !.snd = Signal(s.snd)].snd = Signal(r)
    BY DEF Side
  <2> QED BY <1>1, <1>13, <2>1, <2>2 DEF PtTypes
<1>17. /\ Tail(ptlist[q]) \in Seq(Nat) /\ Len(Tail(ptlist[q])) = Len(ptlist[q]) - 1
       /\ \A i \in 1 .. Len(ptlist[q]) - 1 : Tail(ptlist[q])[i] = ptlist[q][i + 1]
  BY <1>1, <1>7
<1>18. /\ ptlist'[q] = Tail(ptlist[q]) /\ \A o \in Port \ {q} : ptlist'[o] = ptlist[o]
       /\ ptlist' \in [Port -> Seq(Nat)] /\ Len(ptlist'[q]) = Len(ptlist[q]) - 1
  BY <1>1, <1>13, <1>17 DEF PtTypes
<1>19. PtTypes'
  <2>1. ptfree' \in Nat
    BY <1>1, <1>13 DEF PtTypes
  <2> QED BY <1>1, <1>2, <1>3, <1>13, <1>16, <1>18, <2>1 DEF PtTypes
<1>20. OnlyPort(q)
  BY <1>2, <1>3, <1>13, <1>16, <1>18 DEF OnlyPort
<1>21. /\ \A x \in Proc : InQ(Signal(r).line, x) => Came(x, q, "snd")'
       /\ r.made => Positive(Signal(r).count) + Cardinality(Granted(q, "snd")')
                        = Positive(r.count) + Cardinality(Granted(q, "snd")) + 1
  <2>1. r = ptsem[q]["snd"] /\ ptsem'[q]["snd"] = Signal(r) /\ LineOk(q, "snd") /\ "snd" \in Side
    BY <1>1, <1>16 DEF PortOk, Side
  <2> HIDE DEF r
  <2> QED BY <1>1, <1>2, <1>3, <1>8, <2>1, SideSignalled
<1>22. \A t \in Side, x \in Proc : InQ(ptsem'[q][t].line, x) => Came(x, q, t)'
  <2>1. \A x \in Proc : InQ(ptsem'[q]["rcv"].line, x) => Came(x, q, "rcv")'
    BY <1>10, <1>11, <1>16 DEF Side
  <2>2. \A x \in Proc : InQ(ptsem'[q]["snd"].line, x) => Came(x, q, "snd")'
    BY <1>16, <1>21
  <2> QED BY <2>1, <2>2 DEF Side
<1>23. ListOk(q)'
  <2>1. Len(ptlist'[q]) <= ptmaxcnt'[q]
    <3>1. Len(ptlist[q]) <= ptmaxcnt[q]
      BY <1>1 DEF PortOk, ListOk
    <3> QED BY <1>1, <1>3, <1>18, <3>1
  <2>2. \A i \in 1 .. Len(ptlist'[q]) : ptlist'[q][i] = ptseq'[q]
    <3>1. \A i \in 1 .. Len(ptlist[q]) - 1 : i + 1 \in 1 .. Len(ptlist[q])
      BY <1>1
    <3>2. \A i \in 1 .. Len(ptlist[q]) : ptlist[q][i] = ptseq[q]
      BY <1>1 DEF PortOk, ListOk
    <3> QED BY <1>3, <1>17, <1>18, <3>1, <3>2
  <2>3. ptstate'[q] # "PT_FREE" /\ ptsem'[q].snd.made
    BY <1>3, <1>14, <1>15, <1>16 DEF Alloc
  <2> QED BY <2>1, <2>2, <2>3 DEF ListOk
<1>24. PermitsOk(q)'
  <2>1. RcvPermits(q)'
    BY <1>3, <1>7, <1>16, <1>18 DEF RcvPermits
  <2>2. Positive(Signal(r).count) + (Len(ptlist[q]) - 1) + Cardinality(Granted(q, "snd")') + ptlost[q].snd = ptmaxcnt[q]
    <3>1. PICK a \in Nat, d \in Nat, l \in Nat, k \in Nat, m \in Nat :
            /\ a = Positive(r.count) /\ d = Cardinality(Granted(q, "snd"))
            /\ l = ptlost[q].snd /\ k = Len(ptlist[q]) /\ m = ptmaxcnt[q]
      BY <1>1, <1>5, <1>6
    <3>2. a + k + d + l = m
      BY <1>4, <1>14, <3>1 DEF SndPermits
    <3>3. PICK u \in Int, v \in Int : u = Positive(Signal(r).count) /\ v = Cardinality(Granted(q, "snd")')
      <4>1. Signal(r).count \in Int
        BY <1>15 DEF SemType
      <4>2. Cardinality(Granted(q, "snd")') \in Nat
        <5>1. Granted(q, "snd")' \in SUBSET Proc
          BY DEF Granted
        <5> QED BY <5>1, PtConst, FS_Subset, FS_CardinalityType
      <4> QED BY <1>5, <4>1, <4>2
    <3>4. u + v = a + d + 1
      BY <1>14, <1>21, <3>1, <3>3
    <3>5. u + (k - 1) + v + l = m
      BY <3>2, <3>4
    <3> QED BY <3>1, <3>3, <3>5
  <2>3. SndPermits(q)'
    BY <1>3, <1>16, <1>18, <2>2 DEF SndPermits
  <2> QED BY <2>1, <2>3 DEF PermitsOk
<1>25. PortOk(q)'
  <2>1. SemOk(ptsem'[q].snd) /\ SemOk(ptsem'[q].rcv)
    BY <1>15, <1>16
  <2>2. ptsem'[q].snd.made = ptsem[q].snd.made /\ ptsem'[q].rcv.made = ptsem[q].rcv.made
    <3>1. s.rcv.made = TRUE /\ ptsem[q].rcv.made = TRUE
      BY <1>1, <1>5 DEF SemType
    <3> QED BY <1>15, <1>16, <3>1
  <2> QED BY <1>3, <1>9, <1>12, <1>22, <1>23, <1>24, <2>1, <2>2, InUseOk
<1>26. NodesAccounted'
  <2>1. ptfree' = ptfree + Len(ptlist[q]) - Len(ptlist'[q])
    <3>1. ptfree \in Nat
      BY <1>1 DEF PtTypes
    <3> QED BY <1>1, <1>13, <1>18, <3>1
  <2> QED BY <1>13, <1>18, <1>19, <2>1, NodesStep
<1> QED BY <1>19, <1>20, <1>25, <1>26, PortStep

(* wait() that lets p in at once, and what follows when p had to wait.     *)
LEMMA LetIn ==
  ASSUME PtInv, NEW p \in Proc, NEW q \in Port, NEW side \in Side, Calls(p), Alloc(q),
         ptsem[q][side].made, ~Blocks(ptsem[q][side]), UNCHANGED <<ptcont, ptseq>>,
         NEW t, t = Wait(ptsem[q][side], p), ptsem'[q][side] = t
  PROVE  /\ t \in SemType /\ SemOk(t) /\ t.made /\ t.line = ptsem[q][side].line
         /\ ~InQ(t.line, p)
         /\ Positive(t.count) + Cardinality(Granted(q, side)') + 1
              = Positive(ptsem[q][side].count) + Cardinality(Granted(q, side))
         /\ Cardinality(Granted(q, side)') \in Nat
<1> DEFINE s == ptsem[q][side]
<1>1. s \in SemType /\ SemOk(s) /\ LineOk(q, side) /\ ptcont[p] = InUser
  BY PortFacts DEF Side, Calls, PortOk
<1>2. ~InCall(p, q, side) /\ ~InQ(s.line, p)
  <2>1. ~InCall(p, q, side)
    BY <1>1 DEF InCall, InUser, Side
  <2> QED BY <1>1, <2>1 DEF LineOk
<1>3. /\ t \in SemType /\ SemOk(t) /\ t.made /\ t.line = s.line
      /\ Positive(t.count) = Positive(s.count) - 1
  BY <1>1, <1>2, WaitSem
<1>4. Cardinality(Granted(q, side)') = Cardinality(Granted(q, side))
  <2>1. p \notin Granted(q, side)
    BY <1>2, GrantedIs DEF Came
  <2>2. ~Came(p, q, side)'
    BY <1>2 DEF Came, InCall
  <2>3. \A x : InQ(ptsem'[q][side].line, x) <=> InQ(ptsem[q][side].line, x)
    BY <1>3
  <2> QED BY <2>1, <2>2, <2>3, SideSame
<1>5. Positive(s.count) \in Int /\ Cardinality(Granted(q, side)) \in Nat
  <2>1. s.count \in Int
    BY <1>1 DEF SemType
  <2> QED BY <2>1, GrantedFinite DEF Positive
<1>6. PICK a \in Int, d \in Nat : a = Positive(s.count) /\ d = Cardinality(Granted(q, side))
  BY <1>5
<1>7. (a - 1) + d + 1 = a + d
  OBVIOUS
<1> QED BY <1>2, <1>3, <1>4, <1>6, <1>7

LEMMA GoneOn ==
  ASSUME PtInv, NEW p \in Proc, NEW q \in Port, NEW side \in Side, Alloc(q), ~panicked,
         p \in Granted(q, side), UNCHANGED ptseq, ptcont' = [ptcont EXCEPT ![p] = InUser],
         ptsem'[q][side] = ptsem[q][side]
  PROVE  /\ ptsem[q][side].made /\ SemOk(ptsem[q][side])
         /\ ~InQ(ptsem[q][side].line, p)
         /\ Positive(ptsem[q][side].count) + Cardinality(Granted(q, side)') + 1
              = Positive(ptsem[q][side].count) + Cardinality(Granted(q, side))
         /\ Cardinality(Granted(q, side)') \in Nat
<1> DEFINE s == ptsem[q][side]
<1>1. s \in SemType /\ SemOk(s) /\ YoungOk(q, side)
  BY PortFacts DEF Side, PortOk
<1>2. Came(p, q, side) /\ ~InQ(s.line, p)
  BY GrantedIs
<1>3. s.made
  BY <1>1, <1>2 DEF YoungOk, Came
<1>4. Cardinality(Granted(q, side)') = Cardinality(Granted(q, side)) - 1
  <2>1. \A x \in Proc : x # p => ptcont'[x] = ptcont[x]
    BY DEF PtInv, PtTypes
  <2>2. ~Came(p, q, side)'
    <3>1. ptcont'[p] = InUser
      BY DEF PtInv, PtTypes
    <3> QED BY <3>1 DEF Came, InCall, InUser, Side
  <2> QED BY <2>1, <2>2, SideSame
<1>5. Cardinality(Granted(q, side)) \in Nat /\ Cardinality(Granted(q, side)) # 0
  BY GrantedFinite, FS_EmptySet
<1>6. PICK a \in Int, d \in Nat : a = Positive(s.count) /\ d = Cardinality(Granted(q, side)) /\ d # 0
  <2>1. s.count \in Int
    BY <1>1 DEF SemType
  <2>2. Positive(s.count) \in Int
    BY <2>1 DEF Positive
  <2> QED BY <1>5, <2>2
<1>7. d - 1 \in Nat /\ a + (d - 1) + 1 = a + d
  BY <1>6
<1> QED BY <1>1, <1>2, <1>3, <1>4, <1>6, <1>7

LEMMA PtsendKeeps ==
  ASSUME PtInv, NEW p \in Proc, NEW q \in Port, Ptsend(p, q)
  PROVE  PtInv'
<1>1. /\ Calls(p) /\ Alloc(q) /\ ptsem[q]["snd"].made /\ ~panicked /\ ptcont[p] = InUser
      /\ UNCHANGED <<heldvars, ptseq, ptlost>>
  BY DEF Ptsend, Enter, Calls
<1>2. CASE /\ Blocks(ptsem[q]["snd"]) /\ ptsem' = [ptsem EXCEPT ![q]["snd"] = Wait(@, p)]
           /\ Goto(p, At("snd", q, ptseq[q], "PT_FREE")) /\ UNCHANGED <<ptlist, ptfree, panicked>>
  BY <1>1, <1>2, EnterBlocks DEF Side
<1>3. CASE /\ ~Blocks(ptsem[q]["snd"]) /\ UNCHANGED ptcont
           /\ Put(q, ptseq[q], [ptsem[q] EXCEPT !.snd = Wait(@, p)])
  <2>1. PtTypes /\ ptsem[q] \in [Side -> SemType] /\ ptcont' = [ptcont EXCEPT ![p] = InUser]
    BY <1>1, <1>3 DEF PtInv, PtTypes
  <2>2. PICK t : t = Wait(ptsem[q]["snd"], p)
    OBVIOUS
  <2>3. PICK s : s = [ptsem[q] EXCEPT !.snd = t]
    OBVIOUS
  <2>4. t \in SemType
    <3>1. ~InQ(ptsem[q]["snd"].line, p)
      <4>1. LineOk(q, "snd")
        BY PortFacts DEF PortOk
      <4> QED BY <1>1, <4>1 DEF LineOk, InCall, InUser
    <3> QED BY <1>1, <2>2, <3>1, PortFacts, WaitSem
  <2>5. s \in [Side -> SemType] /\ s.snd = t /\ s["snd"] = t /\ s.rcv = ptsem[q].rcv
    BY <2>1, <2>3, <2>4 DEF Side
  <2>6. Put(q, ptseq[q], s)
    BY <1>3, <2>2, <2>3
  <2>7. ptsem'[q]["snd"] = t
    BY <2>1, <2>5, <2>6 DEF Put, PtTypes, Side
  <2>8. "snd" \in Side
    BY DEF Side
  <2>9. /\ SemOk(t) /\ t.made /\ t.line = ptsem[q]["snd"].line
        /\ ~InQ(t.line, p)
        /\ Positive(t.count) + Cardinality(Granted(q, "snd")') + 1
              = Positive(ptsem[q]["snd"].count) + Cardinality(Granted(q, "snd"))
        /\ Cardinality(Granted(q, "snd")') \in Nat
    BY <1>1, <1>3, <2>2, <2>7, <2>8, LetIn
  <2> QED BY <1>1, <2>1, <2>5, <2>6, <2>9, PutKeeps
<1> QED BY <1>2, <1>3 DEF Ptsend, Enter

LEMMA PtrecvKeeps ==
  ASSUME PtInv, NEW p \in Proc, NEW q \in Port, Ptrecv(p, q)
  PROVE  PtInv'
<1>1. /\ Calls(p) /\ Alloc(q) /\ ptsem[q]["rcv"].made /\ ~panicked /\ ptcont[p] = InUser
      /\ UNCHANGED <<heldvars, ptseq, ptlost>>
  BY DEF Ptrecv, Enter, Calls
<1>2. CASE /\ Blocks(ptsem[q]["rcv"]) /\ ptsem' = [ptsem EXCEPT ![q]["rcv"] = Wait(@, p)]
           /\ Goto(p, At("rcv", q, ptseq[q], "PT_FREE")) /\ UNCHANGED <<ptlist, ptfree, panicked>>
  BY <1>1, <1>2, EnterBlocks DEF Side
<1>3. CASE /\ ~Blocks(ptsem[q]["rcv"]) /\ UNCHANGED ptcont
           /\ Get(q, [ptsem[q] EXCEPT !.rcv = Wait(@, p)])
  <2>1. PtTypes /\ ptsem[q] \in [Side -> SemType] /\ ptcont' = [ptcont EXCEPT ![p] = InUser]
    BY <1>1, <1>3 DEF PtInv, PtTypes
  <2>2. PICK t : t = Wait(ptsem[q]["rcv"], p)
    OBVIOUS
  <2>3. PICK s : s = [ptsem[q] EXCEPT !.rcv = t]
    OBVIOUS
  <2>4. t \in SemType
    <3>1. ~InQ(ptsem[q]["rcv"].line, p)
      <4>1. LineOk(q, "rcv")
        BY PortFacts DEF PortOk
      <4> QED BY <1>1, <4>1 DEF LineOk, InCall, InUser
    <3> QED BY <1>1, <2>2, <3>1, PortFacts, WaitSem
  <2>5. s \in [Side -> SemType] /\ s.rcv = t /\ s["rcv"] = t /\ s.snd = ptsem[q].snd
    BY <2>1, <2>3, <2>4 DEF Side
  <2>6. Get(q, s)
    BY <1>3, <2>2, <2>3
  <2>7. ptsem'[q]["rcv"] = t
    BY <2>1, <2>5, <2>6 DEF Get, PtTypes, Side
  <2>8. "rcv" \in Side
    BY DEF Side
  <2>9. /\ SemOk(t) /\ t.made /\ t.line = ptsem[q]["rcv"].line
        /\ ~InQ(t.line, p)
        /\ Positive(t.count) + Cardinality(Granted(q, "rcv")') + 1
              = Positive(ptsem[q]["rcv"].count) + Cardinality(Granted(q, "rcv"))
        /\ Cardinality(Granted(q, "rcv")') \in Nat
    BY <1>1, <1>3, <2>2, <2>7, <2>8, LetIn
  <2> QED BY <1>1, <2>1, <2>5, <2>6, <2>9, GetKeeps
<1> QED BY <1>2, <1>3 DEF Ptrecv, Enter

(* What follows wait() when p had to wait: let in to the port as it is     *)
(* now, or awake in another one than it called on.                         *)
LEMMA LeavesKeeps ==
  ASSUME PtInv, NEW p \in Proc, NEW side \in Side, ~panicked, Runs(p, side), Goto(p, InUser),
         ~StillThere(ptcont[p]), UNCHANGED <<ptlist, ptsem, ptfree, panicked, heldvars, ptseq, ptlost>>
  PROVE  PtInv'
<1> DEFINE q == ptcont[p].port
<1>1. PtTypes /\ q \in Port /\ ptcont[p].op = side /\ ~Blocked(p)
  BY DEF PtInv, PtTypes, Cont, Runs
<1> HIDE DEF q
<1>2. PICK o \in Port : o = q
  BY <1>1
<1>3. ptcont' = [ptcont EXCEPT ![p] = InUser] /\ ptcont[p].port = o
  BY <1>2 DEF Goto, q
<1>4. /\ \A x \in Proc : ptcont'[x] = IF x = p THEN InUser ELSE ptcont[x]
      /\ \A r \in Port \ {o} : \A x \in Proc : ptcont'[x] = ptcont[x] \/ (~Near(x, r) /\ ~Near(x, r)')
      /\ ptcont' \in [Proc -> Cont]
  BY <1>1, <1>3, GotoPort, InUserCont
<1>5. PtTypes'
  BY <1>1, <1>4 DEF PtTypes, heldvars
<1>6. OnlyPort(o)
  BY <1>4 DEF OnlyPort, heldvars
<1>7. NodesAccounted'
  BY <1>5, NodesSame
<1>8. PortOk(o) /\ ~InQ(ptsem[o][side].line, p) /\ ~(Alloc(o) /\ Came(p, o, side))
  BY <1>1, <1>3 DEF PtInv, Blocked, StillThere, Came
<1>9. \A t \in Side : ~InCall(p, o, t)' /\ (t # side => ~InCall(p, o, t))
  BY <1>1, <1>4 DEF InCall, InUser, Side
<1>10. \A t \in Side, x \in Proc : x # p => (InCall(x, o, t)' <=> InCall(x, o, t)) /\ (Came(x, o, t)' <=> Came(x, o, t))
  BY <1>4 DEF InCall, Came
<1>11. \A t \in Side : ~InQ(ptsem[o][t].line, p)
  <2> TAKE t \in Side
  <2>1. CASE t = side
    BY <1>8, <2>1
  <2>2. CASE t # side
    BY <1>8, <1>9, <2>2 DEF PortOk, LineOk, Side
  <2> QED BY <2>1, <2>2
<1>12. Alloc(o)' <=> Alloc(o)
  BY DEF Alloc, heldvars
<1>13. LineOk(o, "snd")' /\ LineOk(o, "rcv")'
  <2>1. ASSUME NEW t \in Side, LineOk(o, t) PROVE LineOk(o, t)'
    BY <1>4, <1>10, <1>11, <1>12, <2>1 DEF LineOk
  <2> QED BY <1>8, <2>1 DEF PortOk, Side
<1>14. YoungOk(o, "snd")' /\ YoungOk(o, "rcv")'
  <2>1. ASSUME NEW t \in Side, YoungOk(o, t) PROVE YoungOk(o, t)'
    BY <1>4, <1>9, <1>10, <1>12, <2>1 DEF YoungOk
  <2> QED BY <1>8, <2>1 DEF PortOk, Side
<1>15. ClearOk(o)'
  <2>1. \A x \in Proc : (Clears(x, o)' <=> Clears(x, o)) /\ (Clears(x, o) => ptcont'[x] = ptcont[x])
    <3>1. ~Clears(p, o) /\ ~Clears(p, o)'
      BY <1>1, <1>4 DEF Clears, InUser, Side
    <3> QED BY <1>4, <3>1 DEF Clears
  <2> QED BY <1>8, <2>1 DEF PortOk, ClearOk, SndCleared, RcvCleared, heldvars
<1>16. ListOk(o)'
  BY <1>8, <1>12 DEF PortOk, ListOk, heldvars
<1>17. PermitsOk(o)'
  <2>1. ASSUME Alloc(o) PROVE \A t \in Side : Granted(o, t)' = Granted(o, t)
    <3> TAKE t \in Side
    <3>1. ~Came(p, o, t) /\ ~Came(p, o, t)'
      BY <1>8, <1>9, <2>1 DEF Came
    <3>2. ASSUME NEW x PROVE x \in Granted(o, t)' <=> x \in Granted(o, t)
      <4>1. CASE x \in Proc
        BY <1>10, <3>1, <4>1, GrantedIs, GrantedIsNext
      <4>2. CASE x \notin Proc
        BY <4>2 DEF Granted
      <4> QED BY <4>1, <4>2
    <3> QED BY <3>2
  <2> QED BY <1>8, <1>12, <2>1 DEF PortOk, PermitsOk, SndPermits, RcvPermits, heldvars, Side
<1>18. PortOk(o)'
  BY <1>13, <1>14, <1>15, <1>16, <1>17 DEF PortOk
<1> QED BY <1>5, <1>6, <1>7, <1>18, PortStep

LEMMA PtsendGoesOnKeeps ==
  ASSUME PtInv, NEW p \in Proc, PtsendGoesOn(p)
  PROVE  PtInv'
<1>1. /\ Runs(p, "snd") /\ Goto(p, InUser) /\ UNCHANGED <<heldvars, ptseq, ptlost>>
      /\ ~panicked /\ ptcont[p].op = "snd" /\ ~Blocked(p) /\ PtTypes
  BY DEF PtsendGoesOn, Resumes, Runs, PtInv
<1>2. CASE ~StillThere(ptcont[p])
  BY <1>1, <1>2, LeavesKeeps DEF PtsendGoesOn, Resumes, Side
<1>3. CASE StillThere(ptcont[p])
  <2>1. PICK q \in Port : q = ptcont[p].port
    BY <1>1 DEF PtTypes, Cont
  <2>2. /\ Alloc(q) /\ ptseq[q] = ptcont[p].n /\ Put(q, ptseq[q], ptsem[q])
        /\ ptsem[q] \in [Side -> SemType] /\ ptcont' = [ptcont EXCEPT ![p] = InUser] /\ "snd" \in Side
    BY <1>1, <1>3, <2>1 DEF PtsendGoesOn, Resumes, StillThere, PtTypes, Goto, Side
  <2>3. p \in Granted(q, "snd")
    BY <1>1, <2>1, <2>2 DEF Granted
  <2>4. ptsem'[q]["snd"] = ptsem[q]["snd"]
    BY <1>1, <2>2 DEF Put, PtTypes, Side
  <2>5. /\ ptsem[q]["snd"].made /\ SemOk(ptsem[q]["snd"])
        /\ ~InQ(ptsem[q]["snd"].line, p)
        /\ Positive(ptsem[q]["snd"].count) + Cardinality(Granted(q, "snd")') + 1
              = Positive(ptsem[q]["snd"].count) + Cardinality(Granted(q, "snd"))
        /\ Cardinality(Granted(q, "snd")') \in Nat
    BY <1>1, <2>2, <2>3, <2>4, GoneOn
  <2> QED BY <1>1, <2>1, <2>2, <2>5, PutKeeps
<1> QED BY <1>2, <1>3

LEMMA PtrecvGoesOnKeeps ==
  ASSUME PtInv, NEW p \in Proc, PtrecvGoesOn(p)
  PROVE  PtInv'
<1>1. /\ Runs(p, "rcv") /\ Goto(p, InUser) /\ UNCHANGED <<heldvars, ptseq, ptlost>>
      /\ ~panicked /\ ptcont[p].op = "rcv" /\ ~Blocked(p) /\ PtTypes
  BY DEF PtrecvGoesOn, Resumes, Runs, PtInv
<1>2. CASE ~StillThere(ptcont[p])
  BY <1>1, <1>2, LeavesKeeps DEF PtrecvGoesOn, Resumes, Side
<1>3. CASE StillThere(ptcont[p])
  <2>1. PICK q \in Port : q = ptcont[p].port
    BY <1>1 DEF PtTypes, Cont
  <2>2. /\ Alloc(q) /\ ptseq[q] = ptcont[p].n /\ Get(q, ptsem[q])
        /\ ptsem[q] \in [Side -> SemType] /\ ptcont' = [ptcont EXCEPT ![p] = InUser] /\ "rcv" \in Side
    BY <1>1, <1>3, <2>1 DEF PtrecvGoesOn, Resumes, StillThere, PtTypes, Goto, Side
  <2>3. p \in Granted(q, "rcv")
    BY <1>1, <2>1, <2>2 DEF Granted
  <2>4. ptsem'[q]["rcv"] = ptsem[q]["rcv"]
    BY <1>1, <2>2 DEF Get, PtTypes, Side
  <2>5. /\ ptsem[q]["rcv"].made /\ SemOk(ptsem[q]["rcv"])
        /\ ~InQ(ptsem[q]["rcv"].line, p)
        /\ Positive(ptsem[q]["rcv"].count) + Cardinality(Granted(q, "rcv")') + 1
              = Positive(ptsem[q]["rcv"].count) + Cardinality(Granted(q, "rcv"))
        /\ Cardinality(Granted(q, "rcv")') \in Nat
    BY <1>1, <2>2, <2>3, <2>4, GoneOn
  <2> QED BY <1>1, <2>1, <2>2, <2>5, GetKeeps
<1> QED BY <1>2, <1>3

(* _ptclear(): the generation ends where it begins, and who came before    *)
(* is late from then on.                                                   *)
LEMMA ClearBeginsKeeps ==
  ASSUME PtInv, NEW p \in Proc, NEW q \in Port, NEW to \in {"PT_FREE", "PT_ALLOC"}, ClearBegins(p, q, to)
  PROVE  PtInv'
<1> DEFINE c == At("clear", q, Len(ptlist[q]), to)
<1>1. /\ PtTypes /\ PortOk(q) /\ ptseq[q] \in Nat /\ Alloc(q) /\ ~panicked /\ ptcont[p] = InUser
      /\ ptstate' = [ptstate EXCEPT ![q] = "PT_LIMBO"] /\ ptseq' = [ptseq EXCEPT ![q] = @ + 1]
      /\ ptcont' = [ptcont EXCEPT ![p] = c]
      /\ UNCHANGED <<ptmaxcnt, ptlist, ptsem, ptnextid, ptfree, ptlost, panicked>>
  BY PortFacts DEF ClearBegins, Calls, Limbo, Goto
<1>2. c \in Cont /\ c.op = "clear" /\ c.port = q
  BY PortFacts DEF At, Cont
<1> HIDE DEF c
<1>3. /\ \A x \in Proc : ptcont'[x] = IF x = p THEN c ELSE ptcont[x]
      /\ \A r \in Port \ {q} : \A x \in Proc : ptcont'[x] = ptcont[x] \/ (~Near(x, r) /\ ~Near(x, r)')
      /\ ptcont' \in [Proc -> Cont]
  BY <1>1, <1>2, GotoPort
<1>4. ptstate'[q] = "PT_LIMBO" /\ ptseq'[q] = ptseq[q] + 1
  BY <1>1 DEF PtTypes
<1>5. PtTypes'
  <2>1. \A n \in Nat : n + 1 \in Nat
    OBVIOUS
  <2> QED BY <1>1, <1>3, <2>1 DEF PtTypes
<1>6. OnlyPort(q)
  BY <1>1, <1>3 DEF OnlyPort, PtTypes
<1>7. NodesAccounted'
  BY <1>1, <1>5, NodesSame
<1>8. \A t \in Side, x \in Proc : InCall(x, q, t)' <=> InCall(x, q, t) /\ x # p
  BY <1>1, <1>2, <1>3 DEF InCall, InUser, Side
<1>9. ~Alloc(q)'
  BY <1>4 DEF Alloc
<1>10. LineOk(q, "snd")' /\ LineOk(q, "rcv")'
  <2>1. \A t \in Side : ~InCall(p, q, t)
    BY <1>1 DEF InCall, InUser, Side
  <2>2. ASSUME NEW t \in Side, LineOk(q, t) PROVE LineOk(q, t)'
    BY <1>1, <1>8, <1>9, <2>1, <2>2 DEF LineOk
  <2> QED BY <1>1, <2>2 DEF PortOk, Side
<1>11. YoungOk(q, "snd")' /\ YoungOk(q, "rcv")'
  <2>1. ASSUME NEW t \in Side, YoungOk(q, t) PROVE YoungOk(q, t)'
    <3> SUFFICES ASSUME NEW x \in Proc, InCall(x, q, t)'
        PROVE ptcont'[x].n <= ptseq'[q] /\ ptcont'[x].n # ptseq'[q]
      BY DEF YoungOk
    <3>1. ptcont'[x] = ptcont[x] /\ ptcont[x].n <= ptseq[q]
      BY <1>3, <1>8, <2>1 DEF YoungOk
    <3>2. ptcont[x].n \in Nat
      BY <1>1 DEF PtTypes, Cont
    <3> QED BY <1>1, <1>4, <3>1, <3>2
  <2> QED BY <1>1, <2>1 DEF PortOk, Side
<1>12. ClearOk(q)'
  <2>1. \A x \in Proc : ~Clears(x, q)
    BY <1>1 DEF PortOk, ClearOk, Alloc
  <2>2. \A x \in Proc : Clears(x, q)' => x = p
    BY <1>3, <2>1 DEF Clears
  <2> QED BY <1>2, <1>3, <1>4, <2>2 DEF ClearOk
<1>13. ListOk(q)'
  BY <1>1, <1>4, <1>9 DEF PortOk, ListOk
<1>14. PermitsOk(q)'
  BY <1>9 DEF PermitsOk
<1>15. PortOk(q)'
  BY <1>10, <1>11, <1>12, <1>13, <1>14 DEF PortOk
<1> QED BY <1>5, <1>6, <1>7, <1>15, PortStep

(* A step of p, which is clearing q and goes on to do so.                  *)
LEMMA ClearGoesOn ==
  ASSUME PtInv, NEW p \in Proc, NEW q \in Port, Clears(p, q), NEW c \in Cont,
         ptcont' = [ptcont EXCEPT ![p] = c], c.port = q, c.op \in {"clear", "clearing", "cleared"},
         UNCHANGED <<ptstate, ptseq, ptmaxcnt, ptnextid, panicked>>,
         \A r \in Port \ {q} : ptlist'[r] = ptlist[r] /\ ptsem'[r] = ptsem[r] /\ ptlost'[r] = ptlost[r],
         PtTypes', NodesAccounted',
         SemOk(ptsem'[q].snd), SemOk(ptsem'[q].rcv),
         \A t \in Side, x \in Proc : InQ(ptsem'[q][t].line, x) => InQ(ptsem[q][t].line, x),
         ptlist'[q] \in {<<>>, ptlist[q]},
         c.op # "clear" => SndCleared(q, c.to)', c.op = "cleared" => RcvCleared(q)'
  PROVE  PtInv'
<1>1. PtTypes /\ PortOk(q) /\ ptstate[q] = "PT_LIMBO" /\ ptseq[q] \in Nat /\ ptmaxcnt[q] \in Nat
  BY PortFacts DEF PortOk, ClearOk
<1>2. /\ \A x \in Proc : ptcont'[x] = IF x = p THEN c ELSE ptcont[x]
      /\ \A r \in Port \ {q} : \A x \in Proc : ptcont'[x] = ptcont[x] \/ (~Near(x, r) /\ ~Near(x, r)')
  BY <1>1, GotoPort DEF Clears
<1>3. OnlyPort(q)
  BY <1>2 DEF OnlyPort
<1>4. ~Alloc(q) /\ ~Alloc(q)'
  BY <1>1 DEF Alloc
<1>5. \A t \in Side, x \in Proc : /\ InCall(x, q, t)' <=> InCall(x, q, t)
                                  /\ InCall(x, q, t) => ptcont'[x] = ptcont[x]
  BY <1>2 DEF InCall, Clears, Side
<1>6. LineOk(q, "snd")' /\ LineOk(q, "rcv")'
  <2>1. ASSUME NEW t \in Side, LineOk(q, t), SemOk(ptsem'[q][t]) PROVE LineOk(q, t)'
    BY <1>4, <1>5, <2>1 DEF LineOk
  <2> QED BY <1>1, <2>1 DEF PortOk, Side
<1>7. YoungOk(q, "snd")' /\ YoungOk(q, "rcv")'
  <2>1. ASSUME NEW t \in Side PROVE YoungOk(q, t)'
    <3> SUFFICES ASSUME NEW x \in Proc, InCall(x, q, t)'
        PROVE ptcont'[x].n <= ptseq'[q] /\ ptcont'[x].n # ptseq'[q]
      BY DEF YoungOk
    <3>1. ptcont'[x] = ptcont[x] /\ ptcont[x].n < ptseq[q]
      BY <1>4, <1>5, NobodyCame DEF InCall
    <3>2. ptcont[x].n \in Nat
      BY <1>1 DEF PtTypes, Cont
    <3> QED BY <1>1, <3>1, <3>2
  <2> QED BY <2>1 DEF Side
<1>8. ClearOk(q)'
  <2>1. \A x \in Proc : Clears(x, q) => x = p
    BY <1>1 DEF PortOk, ClearOk
  <2>2. \A x \in Proc : Clears(x, q)' => x = p
    BY <1>2, <2>1 DEF Clears
  <2> QED BY <1>1, <1>2, <2>2 DEF ClearOk
<1>9. ListOk(q)'
  <2>1. Len(<<>>) = 0
    OBVIOUS
  <2> QED BY <1>1, <1>4, <2>1 DEF PortOk, ListOk
<1>10. PermitsOk(q)'
  BY <1>4 DEF PermitsOk
<1>11. PortOk(q)'
  BY <1>6, <1>7, <1>8, <1>9, <1>10 DEF PortOk
<1> QED BY <1>3, <1>11, PortStep

LEMMA DisposesKeeps ==
  ASSUME PtInv, NEW p \in Proc, Disposes(p)
  PROVE  PtInv'
<1>1. /\ PtTypes /\ ptcont[p] \in Cont /\ ptcont[p].op = "clear" /\ ptcont[p].n > 0 /\ ~panicked
      /\ ptcont' = [ptcont EXCEPT ![p].n = @ - 1]
      /\ UNCHANGED <<ptstate, ptmaxcnt, ptnextid, ptseq, ptlist, ptsem, ptfree, ptlost, panicked>>
  BY DEF Disposes, Runs, PtInv, PtTypes, heldvars
<1>2. PICK q \in Port : q = ptcont[p].port
  BY <1>1 DEF Cont
<1>3. PICK c : c = [ptcont[p] EXCEPT !.n = @ - 1]
  OBVIOUS
<1>4. c \in Cont /\ c.port = q /\ c.op = "clear" /\ ptcont' = [ptcont EXCEPT ![p] = c] /\ Clears(p, q)
  BY <1>1, <1>2, <1>3 DEF Cont, Clears
<1>5. PtTypes'
  BY <1>1, <1>4 DEF PtTypes
<1>6. NodesAccounted'
  BY <1>1, <1>5, NodesSame
<1>7. SemOk(ptsem'[q].snd) /\ SemOk(ptsem'[q].rcv)
  BY <1>1, PortFacts
<1> QED BY <1>1, <1>4, <1>5, <1>6, <1>7, ClearGoesOn

LEMMA ClearSendersKeeps ==
  ASSUME PtInv, NEW p \in Proc, ClearSenders(p)
  PROVE  PtInv'
<1>1. PICK q \in Port : q = ptcont[p].port
  BY DEF PtInv, PtTypes, Cont
<1>2. /\ PtTypes /\ ptcont[p] \in Cont /\ ptcont[p].op = "clear" /\ ~panicked
      /\ ptlist' = [ptlist EXCEPT ![q] = <<>>] /\ ptfree' = ptfree + Len(ptlist[q])
      /\ ptsem' = [ptsem EXCEPT ![q].snd = Release(@, ptcont[p].to, ptmaxcnt[q])]
      /\ ptlost' = [ptlost EXCEPT ![q].snd = 0]
      /\ ptcont' = [ptcont EXCEPT ![p].op = "clearing"]
      /\ UNCHANGED <<ptstate, ptmaxcnt, ptnextid, ptseq, panicked>>
  BY <1>1 DEF ClearSenders, GiveBack, Runs, PtInv, PtTypes, heldvars
<1>3. PICK c : c = [ptcont[p] EXCEPT !.op = "clearing"]
  OBVIOUS
<1>4. /\ c \in Cont /\ c.port = q /\ c.op = "clearing" /\ c.to = ptcont[p].to
      /\ ptcont' = [ptcont EXCEPT ![p] = c] /\ Clears(p, q)
  BY <1>1, <1>2, <1>3 DEF Cont, Clears
<1>5. PICK t : t = Release(ptsem[q].snd, c.to, ptmaxcnt[q])
  OBVIOUS
<1>6. /\ t \in SemType /\ SemOk(t) /\ t.line = <<>>
      /\ c.to = "PT_ALLOC" /\ t.made => Positive(t.count) = ptmaxcnt[q]
  <2>1. c.to \in {"PT_FREE", "PT_ALLOC"}
    BY <1>4 DEF Cont
  <2>2. ptsem[q].snd \in SemType /\ SemOk(ptsem[q].snd) /\ ptmaxcnt[q] \in Nat
    BY PortFacts
  <2>3. /\ t \in SemType /\ SemOk(t) /\ t.line = <<>>
        /\ c.to = "PT_ALLOC" /\ t.made => t.count = ptmaxcnt[q]
        /\ Positive(ptmaxcnt[q]) = ptmaxcnt[q]
    BY ONLY <1>5, <2>1, <2>2, ReleaseSem
  <2> QED BY ONLY <2>3
<1>7. ptsem' = [ptsem EXCEPT ![q].snd = t]
  BY <1>2, <1>4, <1>5
<1>8. /\ ptsem' \in [Port -> [Side -> SemType]] /\ ptsem'[q].snd = t /\ ptsem'[q].rcv = ptsem[q].rcv
      /\ \A r \in Port \ {q} : ptsem'[r] = ptsem[r]
  <2>1. PICK u : u = [ptsem[q] EXCEPT !.snd = t]
    OBVIOUS
  <2>2. ptsem[q] \in [Side -> SemType] /\ ptsem \in [Port -> [Side -> SemType]]
    BY <1>2 DEF PtTypes
  <2>3. u \in [Side -> SemType] /\ u.snd = t /\ u.rcv = ptsem[q].rcv
    BY <1>6, <2>1, <2>2 DEF Side
  <2>4. ptsem' = [ptsem EXCEPT ![q] = u]
    BY <1>7, <2>1
  <2> QED BY <2>2, <2>3, <2>4
<1>9. /\ ptlost' \in [Port -> [Side -> Nat]] /\ ptlost'[q].snd = 0
      /\ \A r \in Port \ {q} : ptlost'[r] = ptlost[r]
  BY <1>2 DEF PtTypes, Side
<1>10. /\ ptlist' \in [Port -> Seq(Nat)] /\ ptlist'[q] = <<>> /\ \A r \in Port \ {q} : ptlist'[r] = ptlist[r]
  BY <1>2 DEF PtTypes
<1>11. PtTypes'
  <2>1. ptfree' \in Nat
    <3>1. ptfree \in Nat /\ Len(ptlist[q]) \in Nat
      BY <1>2, PortFacts DEF PtTypes
    <3> QED BY <1>2, <3>1
  <2>2. ptcont' \in [Proc -> Cont]
    BY <1>2, <1>4 DEF PtTypes
  <2>3. /\ ptstate' \in [Port -> {"PT_FREE", "PT_ALLOC", "PT_LIMBO"}] /\ ptseq' \in [Port -> Nat]
        /\ ptmaxcnt' \in [Port -> Nat] /\ ptnextid' \in Port /\ panicked' \in BOOLEAN
    BY <1>2 DEF PtTypes
  <2> QED BY <1>8, <1>9, <1>10, <2>1, <2>2, <2>3 DEF PtTypes
<1>12. NodesAccounted'
  <2>1. ptfree' = ptfree + Len(ptlist[q]) - Len(ptlist'[q])
    <3>1. ptfree \in Nat /\ Len(ptlist[q]) \in Nat /\ Len(ptlist'[q]) = 0
      BY <1>2, <1>10, PortFacts DEF PtTypes
    <3> QED BY <1>2, <3>1
  <2> QED BY <1>2, <1>10, <1>11, <2>1, NodesStep
<1>13. SndCleared(q, c.to)'
  BY <1>2, <1>3, <1>6, <1>8, <1>9, <1>10 DEF SndCleared
<1>14. SemOk(ptsem'[q].snd) /\ SemOk(ptsem'[q].rcv)
  BY <1>6, <1>8, PortFacts
<1>15. \A u \in Side, x \in Proc : InQ(ptsem'[q][u].line, x) => InQ(ptsem[q][u].line, x)
  <2>1. \A x : ~InQ(<<>>, x)
    BY DEF InQ
  <2> QED BY <1>6, <1>8, <2>1 DEF Side
<1>16. \A r \in Port \ {q} : ptlist'[r] = ptlist[r] /\ ptsem'[r] = ptsem[r] /\ ptlost'[r] = ptlost[r]
  BY <1>8, <1>9, <1>10
<1>17. UNCHANGED <<ptstate, ptseq, ptmaxcnt, ptnextid, panicked>> /\ ptlist'[q] \in {<<>>, ptlist[q]}
  BY <1>2, <1>10
<1>18. c.op # "clear" /\ c.op # "cleared" /\ c.op \in {"clear", "clearing", "cleared"}
  BY <1>4
<1> QED BY <1>4, <1>11, <1>12, <1>13, <1>14, <1>15, <1>16, <1>17, <1>18, ClearGoesOn

LEMMA ClearReceiversKeeps ==
  ASSUME PtInv, NEW p \in Proc, ClearReceivers(p)
  PROVE  PtInv'
<1>1. PICK q \in Port : q = ptcont[p].port
  BY DEF PtInv, PtTypes, Cont
<1>2. /\ PtTypes /\ ptcont[p] \in Cont /\ ptcont[p].op = "clearing" /\ ~panicked
      /\ ptsem' = [ptsem EXCEPT ![q].rcv = Release(@, ptcont[p].to, 0)]
      /\ ptlost' = [ptlost EXCEPT ![q].rcv = 0]
      /\ ptcont' = [ptcont EXCEPT ![p].op = "cleared"]
      /\ UNCHANGED <<ptstate, ptmaxcnt, ptnextid, ptseq, panicked, ptlist, ptfree>>
  BY <1>1 DEF ClearReceivers, Runs, PtInv, PtTypes, heldvars
<1>3. PICK c : c = [ptcont[p] EXCEPT !.op = "cleared"]
  OBVIOUS
<1>4. /\ c \in Cont /\ c.port = q /\ c.op = "cleared" /\ c.to = ptcont[p].to
      /\ ptcont' = [ptcont EXCEPT ![p] = c] /\ Clears(p, q)
  BY <1>1, <1>2, <1>3 DEF Cont, Clears
<1>5. PICK t : t = Release(ptsem[q].rcv, c.to, 0)
  OBVIOUS
<1>6. t \in SemType /\ SemOk(t) /\ t.line = <<>> /\ t.count = 0
  <2>1. c.to \in {"PT_FREE", "PT_ALLOC"} /\ 0 \in Nat
    BY <1>4 DEF Cont
  <2>2. ptsem[q].rcv \in SemType /\ SemOk(ptsem[q].rcv)
    BY PortFacts
  <2> QED BY ONLY <1>5, <2>1, <2>2, ReleaseSem
<1>7. ptsem' = [ptsem EXCEPT ![q].rcv = t]
  BY <1>2, <1>4, <1>5
<1>8. /\ ptsem' \in [Port -> [Side -> SemType]] /\ ptsem'[q].rcv = t /\ ptsem'[q].snd = ptsem[q].snd
      /\ \A r \in Port \ {q} : ptsem'[r] = ptsem[r]
  <2>1. PICK u : u = [ptsem[q] EXCEPT !.rcv = t]
    OBVIOUS
  <2>2. ptsem[q] \in [Side -> SemType] /\ ptsem \in [Port -> [Side -> SemType]]
    BY <1>2 DEF PtTypes
  <2>3. u \in [Side -> SemType] /\ u.rcv = t /\ u.snd = ptsem[q].snd
    BY <1>6, <2>1, <2>2 DEF Side
  <2>4. ptsem' = [ptsem EXCEPT ![q] = u]
    BY <1>7, <2>1
  <2> QED BY <2>2, <2>3, <2>4
<1>9. /\ ptlost' \in [Port -> [Side -> Nat]] /\ ptlost'[q].rcv = 0 /\ ptlost'[q].snd = ptlost[q].snd
      /\ \A r \in Port \ {q} : ptlost'[r] = ptlost[r]
  BY <1>2 DEF PtTypes, Side
<1>10. PtTypes'
  <2>1. ptcont' \in [Proc -> Cont]
    BY <1>2, <1>4 DEF PtTypes
  <2>2. /\ ptstate' \in [Port -> {"PT_FREE", "PT_ALLOC", "PT_LIMBO"}] /\ ptseq' \in [Port -> Nat]
        /\ ptmaxcnt' \in [Port -> Nat] /\ ptnextid' \in Port /\ panicked' \in BOOLEAN
        /\ ptfree' \in Nat /\ ptlist' \in [Port -> Seq(Nat)]
    BY <1>2 DEF PtTypes
  <2> QED BY <1>8, <1>9, <2>1, <2>2 DEF PtTypes
<1>11. NodesAccounted'
  BY <1>2, <1>10, NodesSame
<1>12. RcvCleared(q)'
  BY <1>6, <1>8, <1>9 DEF RcvCleared
<1>13. SndCleared(q, c.to)'
  <2>1. SndCleared(q, ptcont[p].to)
    BY <1>2, <1>4 DEF PtInv, PortOk, ClearOk
  <2> QED BY <1>2, <1>4, <1>8, <1>9, <2>1 DEF SndCleared
<1>14. SemOk(ptsem'[q].snd) /\ SemOk(ptsem'[q].rcv)
  BY <1>6, <1>8, PortFacts
<1>15. \A u \in Side, x \in Proc : InQ(ptsem'[q][u].line, x) => InQ(ptsem[q][u].line, x)
  <2>1. \A x : ~InQ(<<>>, x)
    BY DEF InQ
  <2> QED BY <1>6, <1>8, <2>1 DEF Side
<1>16. \A r \in Port \ {q} : ptlist'[r] = ptlist[r] /\ ptsem'[r] = ptsem[r] /\ ptlost'[r] = ptlost[r]
  BY <1>2, <1>8, <1>9
<1>17. UNCHANGED <<ptstate, ptseq, ptmaxcnt, ptnextid, panicked>> /\ ptlist'[q] \in {<<>>, ptlist[q]}
  BY <1>2
<1>18. c.op \in {"clear", "clearing", "cleared"}
  BY <1>4
<1> QED BY <1>4, <1>10, <1>11, <1>12, <1>13, <1>14, <1>15, <1>16, <1>17, <1>18, ClearGoesOn

LEMMA ClearEndsKeeps ==
  ASSUME PtInv, NEW p \in Proc, ClearEnds(p)
  PROVE  PtInv'
<1>1. PICK q \in Port, to \in {"PT_FREE", "PT_ALLOC"} : q = ptcont[p].port /\ to = ptcont[p].to
  BY DEF PtInv, PtTypes, Cont
<1>2. /\ PtTypes /\ PortOk(q) /\ ptcont[p].op = "cleared" /\ ~panicked
      /\ ptstate' = [ptstate EXCEPT ![q] = to] /\ ptnextid' \in {q, ptnextid}
      /\ ptcont' = [ptcont EXCEPT ![p] = InUser]
      /\ UNCHANGED <<ptseq, ptmaxcnt, ptlist, ptsem, ptfree, ptlost, panicked>>
  BY <1>1 DEF ClearEnds, Runs, PtInv, Goto
<1>3. /\ \A x \in Proc : ptcont'[x] = IF x = p THEN InUser ELSE ptcont[x]
      /\ \A r \in Port \ {q} : \A x \in Proc : ptcont'[x] = ptcont[x] \/ (~Near(x, r) /\ ~Near(x, r)')
      /\ ptcont' \in [Proc -> Cont]
  BY <1>1, <1>2, GotoPort, InUserCont
<1>4. Clears(p, q) /\ ptstate[q] = "PT_LIMBO" /\ SndCleared(q, to) /\ RcvCleared(q)
  <2>1. Clears(p, q)
    BY <1>1, <1>2 DEF Clears
  <2> QED BY <1>1, <1>2, <2>1 DEF PortOk, ClearOk
<1>5. ptstate'[q] = to /\ \A r \in Port \ {q} : ptstate'[r] = ptstate[r]
  BY <1>2 DEF PtTypes
<1>6. PtTypes'
  <2>1. ptstate' \in [Port -> {"PT_FREE", "PT_ALLOC", "PT_LIMBO"}]
    BY <1>2 DEF PtTypes
  <2>2. /\ ptseq' \in [Port -> Nat] /\ ptmaxcnt' \in [Port -> Nat] /\ ptnextid' \in Port
        /\ panicked' \in BOOLEAN /\ ptfree' \in Nat /\ ptlist' \in [Port -> Seq(Nat)]
        /\ ptsem' \in [Port -> [Side -> SemType]] /\ ptlost' \in [Port -> [Side -> Nat]]
    BY <1>2 DEF PtTypes
  <2> QED BY <1>3, <2>1, <2>2 DEF PtTypes
<1>7. OnlyPort(q)
  BY <1>2, <1>3, <1>5 DEF OnlyPort
<1>8. NodesAccounted'
  BY <1>2, <1>6, NodesSame
<1>9. \A t \in Side, x \in Proc : /\ InCall(x, q, t)' <=> InCall(x, q, t)
                                  /\ InCall(x, q, t) => ptcont'[x] = ptcont[x]
  BY <1>2, <1>3 DEF InCall, InUser, Side
<1>10. \A t \in Side, x \in Proc : InCall(x, q, t)' => ptcont'[x].n <= ptseq'[q] /\ ptcont'[x].n # ptseq'[q]
  <2> SUFFICES ASSUME NEW t \in Side, NEW x \in Proc, InCall(x, q, t)'
      PROVE ptcont'[x].n <= ptseq'[q] /\ ptcont'[x].n # ptseq'[q]
    OBVIOUS
  <2>1. ptcont'[x] = ptcont[x] /\ ptcont[x].n < ptseq[q]
    BY <1>4, <1>9, NobodyCame DEF InCall, Alloc
  <2>2. ptcont[x].n \in Nat /\ ptseq[q] \in Nat
    BY <1>2 DEF PtTypes, Cont
  <2> QED BY <1>2, <2>1, <2>2
<1>11. LineOk(q, "snd")' /\ LineOk(q, "rcv")'
  <2>1. \A t \in Side, x \in Proc : ~InQ(ptsem'[q][t].line, x)
    BY <1>2, <1>4 DEF SndCleared, RcvCleared, InQ, Side
  <2>2. SemOk(ptsem'[q].snd) /\ SemOk(ptsem'[q].rcv)
    BY <1>2, PortFacts
  <2> QED BY <2>1, <2>2 DEF LineOk, Side
<1>12. YoungOk(q, "snd")' /\ YoungOk(q, "rcv")'
  BY <1>10 DEF YoungOk, Side
<1>13. ClearOk(q)'
  <2>1. \A x \in Proc : Clears(x, q) => x = p
    BY <1>2, <1>4 DEF PortOk, ClearOk
  <2>2. \A x \in Proc : ~Clears(x, q)'
    BY <1>3, <2>1 DEF Clears, InUser
  <2> QED BY <2>2 DEF ClearOk
<1>14. ptlist'[q] = <<>> /\ Len(ptlist'[q]) = 0 /\ ptmaxcnt'[q] \in Nat
  BY <1>4, <1>6, <1>2 DEF SndCleared, PtTypes
<1>15. ListOk(q)'
  BY <1>14 DEF ListOk
<1>16. PermitsOk(q)'
  <2>1. \A t \in Side : Cardinality(Granted(q, t)') = 0
    <3> TAKE t \in Side
    <3>1. ASSUME NEW x \in Granted(q, t)' PROVE FALSE
      BY <1>10, <3>1, GrantedIsNext DEF Granted, Came, InCall
    <3>2. Granted(q, t)' = {}
      BY <3>1
    <3> QED BY <3>2, FS_EmptySet
  <2>2. ASSUME Alloc(q)' PROVE SndPermits(q)' /\ RcvPermits(q)'
    <3>1. to = "PT_ALLOC"
      BY <1>5, <2>2 DEF Alloc
    <3>2. /\ ptsem'[q].snd.made => Positive(ptsem'[q].snd.count) = ptmaxcnt'[q]
          /\ ptsem'[q].rcv.count = 0 /\ ptlost'[q].snd = 0 /\ ptlost'[q].rcv = 0
      BY <1>2, <1>4, <3>1 DEF SndCleared, RcvCleared
    <3>3. Cardinality(Granted(q, "snd")') = 0 /\ Cardinality(Granted(q, "rcv")') = 0
      BY <2>1 DEF Side
    <3>4. Positive(0) = 0
      BY DEF Positive
    <3> QED BY <1>14, <3>2, <3>3, <3>4 DEF SndPermits, RcvPermits
  <2> QED BY <2>2 DEF PermitsOk
<1>17. PortOk(q)'
  BY <1>11, <1>12, <1>13, <1>15, <1>16 DEF PortOk
<1> QED BY <1>6, <1>7, <1>8, <1>17, PortStep

LEMMA EqualSums ==
  ASSUME NEW x \in Nat, NEW c \in Nat, NEW d \in Nat, NEW e \in Nat, NEW f \in Nat, c + d = e + f
  PROVE  x + c + d = x + e + f
OBVIOUS

(* A permit may go from who was let in to those that are lost.             *)
LEMMA PermitsStay ==
  ASSUME PtTypes, PtTypes', NEW q \in Port, SndPermits(q), RcvPermits(q),
         ptsem'[q].snd.made = ptsem[q].snd.made, ptsem'[q].rcv.made = ptsem[q].rcv.made,
         Positive(ptsem'[q].snd.count) = Positive(ptsem[q].snd.count),
         Positive(ptsem'[q].rcv.count) = Positive(ptsem[q].rcv.count),
         Cardinality(Granted(q, "snd")') + ptlost'[q].snd = Cardinality(Granted(q, "snd")) + ptlost[q].snd,
         Cardinality(Granted(q, "rcv")') + ptlost'[q].rcv = Cardinality(Granted(q, "rcv")) + ptlost[q].rcv,
         ptlist'[q] = ptlist[q], ptmaxcnt'[q] = ptmaxcnt[q]
  PROVE  SndPermits(q)' /\ RcvPermits(q)'
<1>1. ptsem[q] \in [Side -> SemType] /\ ptlost[q] \in [Side -> Nat] /\ ptlost'[q] \in [Side -> Nat]
  BY DEF PtTypes
<1>2. PICK x \in Nat, y \in Nat : x = Positive(ptsem[q].snd.count) + Len(ptlist[q]) /\ y = Positive(ptsem[q].rcv.count)
  <2>1. ptsem[q].snd.count \in Int /\ ptsem[q].rcv.count \in Int
    BY <1>1 DEF SemType, Side
  <2>2. ptlist[q] \in Seq(Nat)
    BY DEF PtTypes
  <2>3. Positive(ptsem[q].snd.count) \in Nat /\ Positive(ptsem[q].rcv.count) \in Nat
    BY <2>1 DEF Positive
  <2>4. Positive(ptsem[q].snd.count) + Len(ptlist[q]) \in Nat
    BY <2>2, <2>3
  <2> QED BY <2>3, <2>4
<1>3. /\ ptlost[q].snd \in Nat /\ ptlost[q].rcv \in Nat /\ ptlost'[q].snd \in Nat /\ ptlost'[q].rcv \in Nat
  BY <1>1 DEF Side
<1>4. /\ Cardinality(Granted(q, "snd")) \in Nat /\ Cardinality(Granted(q, "rcv")) \in Nat
      /\ Cardinality(Granted(q, "snd")') \in Nat /\ Cardinality(Granted(q, "rcv")') \in Nat
  <2>1. Granted(q, "snd")' \in SUBSET Proc /\ Granted(q, "rcv")' \in SUBSET Proc
    BY DEF Granted
  <2> QED BY <2>1, GrantedFinite, PtConst, FS_Subset, FS_CardinalityType
<1>5. x + Cardinality(Granted(q, "snd")') + ptlost'[q].snd = x + Cardinality(Granted(q, "snd")) + ptlost[q].snd
  <2>1. PICK c \in Nat, d \in Nat, e \in Nat, f \in Nat :
          /\ c = Cardinality(Granted(q, "snd")') /\ d = ptlost'[q].snd
          /\ e = Cardinality(Granted(q, "snd")) /\ f = ptlost[q].snd
    BY <1>3, <1>4
  <2>2. c + d = e + f
    BY <2>1
  <2>3. x + c + d = x + e + f
    BY <2>2, EqualSums
  <2> QED BY <2>1, <2>3
<1>6. y + Cardinality(Granted(q, "rcv")') + ptlost'[q].rcv = y + Cardinality(Granted(q, "rcv")) + ptlost[q].rcv
  <2>1. PICK c \in Nat, d \in Nat, e \in Nat, f \in Nat :
          /\ c = Cardinality(Granted(q, "rcv")') /\ d = ptlost'[q].rcv
          /\ e = Cardinality(Granted(q, "rcv")) /\ f = ptlost[q].rcv
    BY <1>3, <1>4
  <2>2. c + d = e + f
    BY <2>1
  <2>3. y + c + d = y + e + f
    BY <2>2, EqualSums
  <2> QED BY <2>1, <2>3
<1>7. SndPermits(q)'
  BY <1>2, <1>5 DEF SndPermits
<1>8. RcvPermits(q)'
  BY <1>2, <1>6 DEF RcvPermits
<1> QED BY <1>7, <1>8

(* kill(): who dies leaves its line and its count, or its permit is lost.  *)
LEMMA DiesKeeps ==
  ASSUME PtInv, ~panicked, NEW p \in Proc, NEW q \in Port, ptcont[p].port = q,
         ptcont' = [ptcont EXCEPT ![p] = Dead],
         UNCHANGED <<heldvars, ptseq, ptlist, ptfree, panicked>>,
         NEW side \in Side, NEW s \in SemType, SemOk(s), NEW l \in Nat,
         ptsem' = [ptsem EXCEPT ![q][side] = s], ptlost' = [ptlost EXCEPT ![q][side] = l],
         s.made = ptsem[q][side].made, Positive(s.count) = Positive(ptsem[q][side].count),
         ptsem[q][side].line = <<>> => s = ptsem[q][side],
         \A x : InQ(s.line, x) <=> InQ(ptsem[q][side].line, x) /\ x # p,
         \A t \in Side \ {side} : ~Came(p, q, t) /\ ~InQ(ptsem[q][t].line, p),
         IF p \in Granted(q, side) THEN l = ptlost[q][side] + 1 ELSE l = ptlost[q][side]
  PROVE  PtInv'
<1>1. PtTypes /\ PortOk(q)
  BY PortFacts
<1>2. /\ \A x \in Proc : ptcont'[x] = IF x = p THEN Dead ELSE ptcont[x]
      /\ \A r \in Port \ {q} : \A x \in Proc : ptcont'[x] = ptcont[x] \/ (~Near(x, r) /\ ~Near(x, r)')
      /\ ptcont' \in [Proc -> Cont]
  BY <1>1, GotoPort, InUserCont
<1>3. /\ ptsem' \in [Port -> [Side -> SemType]] /\ ptsem'[q][side] = s
      /\ \A t \in Side \ {side} : ptsem'[q][t] = ptsem[q][t]
      /\ \A r \in Port \ {q} : ptsem'[r] = ptsem[r]
  BY <1>1 DEF PtTypes
<1>4. /\ ptlost' \in [Port -> [Side -> Nat]] /\ ptlost'[q][side] = l
      /\ \A t \in Side \ {side} : ptlost'[q][t] = ptlost[q][t]
      /\ \A r \in Port \ {q} : ptlost'[r] = ptlost[r]
  BY <1>1 DEF PtTypes
<1>5. PtTypes'
  BY <1>1, <1>2, <1>3, <1>4 DEF PtTypes, heldvars
<1>6. OnlyPort(q)
  BY <1>2, <1>3, <1>4 DEF OnlyPort, heldvars
<1>7. NodesAccounted'
  BY <1>5, NodesSame
<1>8. Alloc(q)' <=> Alloc(q)
  BY DEF Alloc, heldvars
<1>9. \A t \in Side, x \in Proc : ~InCall(p, q, t)' /\ (x # p => (InCall(x, q, t)' <=> InCall(x, q, t)))
  BY <1>2 DEF InCall, Dead, InUser, Side
<1>10. \A t \in Side :
         /\ SemOk(ptsem'[q][t]) /\ ptsem'[q][t].made = ptsem[q][t].made
         /\ Positive(ptsem'[q][t].count) = Positive(ptsem[q][t].count)
         /\ ptsem[q][t].line = <<>> => ptsem'[q][t] = ptsem[q][t]
         /\ \A x : InQ(ptsem'[q][t].line, x) <=> InQ(ptsem[q][t].line, x) /\ x # p
         /\ Cardinality(Granted(q, t)') + ptlost'[q][t] = Cardinality(Granted(q, t)) + ptlost[q][t]
         /\ ~Alloc(q) => ptlost'[q][t] = ptlost[q][t]
  <2> TAKE t \in Side
  <2>1. /\ SemOk(ptsem'[q][t]) /\ ptsem'[q][t].made = ptsem[q][t].made
        /\ Positive(ptsem'[q][t].count) = Positive(ptsem[q][t].count)
        /\ ptsem[q][t].line = <<>> => ptsem'[q][t] = ptsem[q][t]
        /\ \A x : InQ(ptsem'[q][t].line, x) <=> InQ(ptsem[q][t].line, x) /\ x # p
    <3>1. CASE t = side
      BY <1>3, <3>1
    <3>2. CASE t # side
      <4>1. ptsem'[q][t] = ptsem[q][t] /\ ~InQ(ptsem[q][t].line, p)
        BY <1>3, <3>2
      <4>2. SemOk(ptsem[q][t])
        BY PortFacts DEF Side
      <4> QED BY <4>1, <4>2
    <3> QED BY <3>1, <3>2
  <2>2. Cardinality(Granted(q, t)') = IF p \in Granted(q, t) THEN Cardinality(Granted(q, t)) - 1
                                      ELSE Cardinality(Granted(q, t))
    <3>1. \A x : x # p => (InQ(ptsem'[q][t].line, x) <=> InQ(ptsem[q][t].line, x))
      BY <2>1
    <3>2. ~Came(p, q, t)'
      BY <1>9 DEF Came
    <3> QED BY <1>2, <3>1, <3>2, SideSame
  <2>3. PICK c \in Nat, n \in Nat : c = Cardinality(Granted(q, t)) /\ n = ptlost[q][t]
    BY <1>1, GrantedFinite DEF PtTypes
  <2>4. CASE t = side /\ p \in Granted(q, t)
    <3>1. Cardinality(Granted(q, t)') = c - 1 /\ ptlost'[q][t] = n + 1
      BY <1>4, <2>2, <2>3, <2>4
    <3>2. (c - 1) + (n + 1) = c + n
      OBVIOUS
    <3>3. Alloc(q)
      BY <1>1, <2>4, GrantedIs DEF PortOk, YoungOk, Came, Side
    <3> QED BY <2>1, <2>3, <3>1, <3>2, <3>3
  <2>5. CASE p \notin Granted(q, t)
    BY <1>4, <2>1, <2>2, <2>5
  <2>6. CASE t # side
    <3>1. p \notin Granted(q, t)
      BY <2>6, GrantedIs
    <3> QED BY <1>4, <2>1, <2>2, <2>6, <3>1
  <2> QED BY <2>4, <2>5, <2>6
<1>11. LineOk(q, "snd")' /\ LineOk(q, "rcv")'
  <2>1. ASSUME NEW t \in Side, LineOk(q, t) PROVE LineOk(q, t)'
    BY <1>2, <1>8, <1>9, <1>10, <2>1 DEF LineOk
  <2> QED BY <1>1, <2>1 DEF PortOk, Side
<1>12. YoungOk(q, "snd")' /\ YoungOk(q, "rcv")'
  <2>1. ASSUME NEW t \in Side, YoungOk(q, t) PROVE YoungOk(q, t)'
    BY <1>2, <1>8, <1>9, <1>10, <2>1 DEF YoungOk
  <2> QED BY <1>1, <2>1 DEF PortOk, Side
<1>13. ClearOk(q)'
  <2>1. \A x \in Proc : Clears(x, q)' => Clears(x, q) /\ ptcont'[x] = ptcont[x]
    BY <1>2 DEF Clears, Dead, InUser
  <2>2. ASSUME NEW x \in Proc, Clears(x, q)', NEW to, to = ptcont'[x].to
        PROVE  /\ ptstate'[q] = "PT_LIMBO"
               /\ ptcont'[x].op # "clear" => SndCleared(q, to)'
               /\ ptcont'[x].op = "cleared" => RcvCleared(q)'
    <3>1. /\ ptstate[q] = "PT_LIMBO" /\ (ptcont[x].op # "clear" => SndCleared(q, to))
          /\ (ptcont[x].op = "cleared" => RcvCleared(q)) /\ ptcont'[x] = ptcont[x]
      BY <1>1, <2>1, <2>2 DEF PortOk, ClearOk
    <3>2. ptlost'[q].snd = ptlost[q].snd /\ ptlost'[q].rcv = ptlost[q].rcv
      BY <1>10, <3>1 DEF Alloc, Side
    <3>3. /\ ptsem[q].snd.line = <<>> => ptsem'[q].snd = ptsem[q].snd
          /\ ptsem[q].rcv.line = <<>> => ptsem'[q].rcv = ptsem[q].rcv
      BY <1>10 DEF Side
    <3> QED BY <3>1, <3>2, <3>3 DEF SndCleared, RcvCleared, heldvars
  <2>3. \A x, y \in Proc : Clears(x, q)' /\ Clears(y, q)' => x = y
    BY <1>1, <2>1 DEF PortOk, ClearOk
  <2> QED BY <2>2, <2>3 DEF ClearOk
<1>14. ListOk(q)'
  BY <1>1, <1>8, <1>10 DEF PortOk, ListOk, heldvars, Side
<1>15. PermitsOk(q)'
  <2>1. ASSUME Alloc(q) PROVE SndPermits(q)' /\ RcvPermits(q)'
    <3>1. SndPermits(q) /\ RcvPermits(q)
      BY <1>1, <2>1 DEF PortOk, PermitsOk
    <3>2. /\ ptsem'[q].snd.made = ptsem[q].snd.made /\ ptsem'[q].rcv.made = ptsem[q].rcv.made
          /\ Positive(ptsem'[q].snd.count) = Positive(ptsem[q].snd.count)
          /\ Positive(ptsem'[q].rcv.count) = Positive(ptsem[q].rcv.count)
          /\ Cardinality(Granted(q, "snd")') + ptlost'[q].snd = Cardinality(Granted(q, "snd")) + ptlost[q].snd
          /\ Cardinality(Granted(q, "rcv")') + ptlost'[q].rcv = Cardinality(Granted(q, "rcv")) + ptlost[q].rcv
      BY <1>10 DEF Side
    <3>3. ptlist'[q] = ptlist[q] /\ ptmaxcnt'[q] = ptmaxcnt[q]
      BY DEF heldvars
    <3> QED BY <1>1, <1>5, <3>1, <3>2, <3>3, PermitsStay
  <2> QED BY <1>8, <2>1 DEF PermitsOk
<1>16. PortOk(q)'
  BY <1>11, <1>12, <1>13, <1>14, <1>15 DEF PortOk
<1> QED BY <1>5, <1>6, <1>7, <1>16, PortStep

LEMMA KillKeeps ==
  ASSUME PtInv, NEW p \in Proc, Kill(p)
  PROVE  PtInv'
<1> DEFINE c == ptcont[p]
<1>1. PICK q \in Port : q = c.port
  BY DEF PtInv, PtTypes, Cont
<1>2. /\ PtTypes /\ PortOk(q) /\ ~panicked /\ ptcont' = [ptcont EXCEPT ![p] = Dead]
      /\ UNCHANGED <<heldvars, ptseq, ptlist, ptfree, panicked>>
  BY PortFacts DEF Kill, Goto
<1>3. \A t \in Side : c.op # t => ~InCall(p, q, t) /\ ~InQ(ptsem[q][t].line, p) /\ p \notin Granted(q, t)
  <2> SUFFICES ASSUME NEW t \in Side, c.op # t
      PROVE ~InCall(p, q, t) /\ ~InQ(ptsem[q][t].line, p) /\ p \notin Granted(q, t)
    OBVIOUS
  <2>1. ~InCall(p, q, t)
    BY DEF InCall
  <2>2. LineOk(q, t)
    BY <1>2 DEF PortOk, Side
  <2> QED BY <2>1, <2>2, GrantedIs DEF LineOk, Came
<1>4. CASE c.op \in Side /\ InQ(ptsem[q][c.op].line, p)
  <2>1. PICK side \in Side : side = c.op
    BY <1>4
  <2>2. PICK r : r = ptsem[q][side]
    OBVIOUS
  <2>3. Blocked(p) /\ p \notin Granted(q, side)
    BY <1>1, <1>4, <2>1 DEF Blocked, Granted
  <2>4. r \in SemType /\ SemOk(r) /\ InQ(r.line, p)
    BY <1>4, <2>1, <2>2, PortFacts DEF Side
  <2>5. PICK s : s = WithLine(r, r.count + 1, Unlink(r.line, p))
    OBVIOUS
  <2>6. /\ s \in SemType /\ SemOk(s) /\ s.made = r.made /\ Positive(s.count) = Positive(r.count)
        /\ \A x : InQ(s.line, x) <=> InQ(r.line, x) /\ x # p
    BY <2>4, <2>5, UnlinkSem
  <2>7. r.line # <<>>
    BY <2>4 DEF InQ
  <2>8. UNCHANGED ptlost /\ ptsem' = [ptsem EXCEPT ![q][side].count = @ + 1, ![q][side].line = Unlink(@, p)]
    BY <1>1, <2>1, <2>3 DEF Kill
  <2>9. ptsem' = [ptsem EXCEPT ![q][side] = s]
    <3>1. ptsem \in [Port -> [Side -> SemType]] /\ r.count \in Int
      BY <1>2, <2>4 DEF PtTypes, SemType
    <3> QED BY <2>2, <2>4, <2>5, <2>8, <3>1 DEF WithLine, SemType
  <2>10. PICK l \in Nat : l = ptlost[q][side]
    BY <1>2 DEF PtTypes
  <2>11. ptlost' = [ptlost EXCEPT ![q][side] = l]
    BY <1>2, <2>8, <2>10 DEF PtTypes
  <2>12. \A t \in Side \ {side} : ~Came(p, q, t) /\ ~InQ(ptsem[q][t].line, p)
    BY <1>3, <2>1 DEF Came
  <2>13. /\ PtInv /\ ~panicked /\ p \in Proc /\ ptcont[p].port = q /\ q \in Port
         /\ ptcont' = [ptcont EXCEPT ![p] = Dead]
         /\ UNCHANGED <<heldvars, ptseq, ptlist, ptfree, panicked>>
    BY <1>1, <1>2
  <2>14. /\ side \in Side /\ s \in SemType /\ SemOk(s) /\ l \in Nat
         /\ s.made = ptsem[q][side].made
         /\ Positive(s.count) = Positive(ptsem[q][side].count)
    BY <2>1, <2>2, <2>6, <2>10
  <2>15. /\ ptsem[q][side].line = <<>> => s = ptsem[q][side]
         /\ \A x : InQ(s.line, x) <=> InQ(ptsem[q][side].line, x) /\ x # p
    BY <2>2, <2>6, <2>7
  <2>16. IF p \in Granted(q, side) THEN l = ptlost[q][side] + 1 ELSE l = ptlost[q][side]
    BY <2>3, <2>10
  <2> QED BY ONLY <2>9, <2>11, <2>12, <2>13, <2>14, <2>15, <2>16, DiesKeeps
<1>5. CASE c.op \in Side /\ ~InQ(ptsem[q][c.op].line, p)
  <2>1. PICK side \in Side : side = c.op
    BY <1>5
  <2>2. PICK s : s = ptsem[q][side]
    OBVIOUS
  <2>3. s \in SemType /\ SemOk(s) /\ ~InQ(s.line, p)
    BY <1>5, <2>1, <2>2, PortFacts DEF Side
  <2>4. ~Blocked(p)
    BY <1>1, <1>5 DEF Blocked
  <2>5. UNCHANGED ptsem
    BY <2>4 DEF Kill
  <2>6. ptsem' = [ptsem EXCEPT ![q][side] = s]
    BY <1>2, <2>2, <2>5 DEF PtTypes
  <2>7. PICK l \in Nat : /\ ptlost' = [ptlost EXCEPT ![q][side] = l]
                         /\ IF p \in Granted(q, side) THEN l = ptlost[q][side] + 1 ELSE l = ptlost[q][side]
    <3>1. ptlost \in [Port -> [Side -> Nat]] /\ ptlost[q][side] \in Nat /\ ptlost[q][side] + 1 \in Nat
      BY <1>2 DEF PtTypes
    <3>2. CASE p \in Granted(q, side)
      <4>1. ptlost' = [ptlost EXCEPT ![q][side] = @ + 1]
        BY <1>1, <1>5, <2>1, <2>4, <3>2 DEF Kill
      <4>2. ptlost' = [ptlost EXCEPT ![q][side] = ptlost[q][side] + 1]
        BY <3>1, <4>1
      <4> QED BY <3>1, <3>2, <4>2
    <3>3. CASE p \notin Granted(q, side)
      <4>1. UNCHANGED ptlost
        BY <1>1, <1>5, <2>1, <2>4, <3>3 DEF Kill
      <4> QED BY <3>1, <3>3, <4>1
    <3> QED BY <3>2, <3>3
  <2>8. \A t \in Side \ {side} : ~Came(p, q, t) /\ ~InQ(ptsem[q][t].line, p)
    BY <1>3, <2>1 DEF Came
  <2>9. \A x : InQ(s.line, x) <=> InQ(s.line, x) /\ x # p
    BY <2>3
  <2> QED BY <1>1, <1>2, <2>2, <2>3, <2>6, <2>7, <2>8, <2>9, DiesKeeps
<1>6. CASE c.op \notin Side
  <2>1. PICK s \in SemType, l \in Nat : s = ptsem[q]["snd"] /\ l = ptlost[q]["snd"]
    <3>1. ptsem \in [Port -> [Side -> SemType]] /\ ptlost \in [Port -> [Side -> Nat]]
      BY <1>2 DEF PtTypes
    <3>2. "snd" \in Side
      BY ONLY DEF Side
    <3>3. ptsem[q]["snd"] \in SemType /\ ptlost[q]["snd"] \in Nat
      BY <3>1, <3>2
    <3> QED BY <3>3
  <2>2. ~Blocked(p) /\ UNCHANGED <<ptsem, ptlost>>
    BY <1>6 DEF Kill, Blocked
  <2>3. ptsem' = [ptsem EXCEPT ![q]["snd"] = s] /\ ptlost' = [ptlost EXCEPT ![q]["snd"] = l]
    BY <1>2, <2>1, <2>2 DEF PtTypes
  <2>4. \A t \in Side : ~Came(p, q, t) /\ ~InQ(ptsem[q][t].line, p) /\ p \notin Granted(q, t)
    BY <1>3, <1>6 DEF Came
  <2>5. SemOk(s) /\ "snd" \in Side
    BY <2>1, PortFacts DEF Side
  <2>6. \A x : InQ(s.line, x) <=> InQ(s.line, x) /\ x # p
    BY <2>1, <2>4, <2>5
  <2> QED BY <1>1, <1>2, <2>1, <2>3, <2>4, <2>5, <2>6, DiesKeeps
<1> QED BY <1>4, <1>5, <1>6

LEMMA NextPtInv ==
  ASSUME PtInv, [PortsNext]_PortsVars
  PROVE  PtInv'
<1>1. CASE PortsNext
  <2>1. PICK p \in Proc :
          \/ \E q \in Port : \/ Ptsend(p, q) \/ Ptrecv(p, q)
                             \/ \E c \in Sizes : Ptcreate(p, q, c)
                             \/ \E to \in {"PT_FREE", "PT_ALLOC"} : ClearBegins(p, q, to)
          \/ PtsendGoesOn(p) \/ PtrecvGoesOn(p)
          \/ Disposes(p) \/ ClearSenders(p) \/ ClearReceivers(p) \/ ClearEnds(p)
          \/ Kill(p)
    BY <1>1 DEF PortsNext
  <2>2. CASE \E q \in Port : Ptsend(p, q)
    BY <2>2, PtsendKeeps
  <2>3. CASE \E q \in Port : Ptrecv(p, q)
    BY <2>3, PtrecvKeeps
  <2>4. CASE \E q \in Port, c \in Sizes : Ptcreate(p, q, c)
    BY <2>4, PtcreateKeeps
  <2>5. CASE \E q \in Port, to \in {"PT_FREE", "PT_ALLOC"} : ClearBegins(p, q, to)
    BY <2>5, ClearBeginsKeeps
  <2>6. CASE PtsendGoesOn(p)
    BY <2>6, PtsendGoesOnKeeps
  <2>7. CASE PtrecvGoesOn(p)
    BY <2>7, PtrecvGoesOnKeeps
  <2>8. CASE Disposes(p)
    BY <2>8, DisposesKeeps
  <2>9. CASE ClearSenders(p)
    BY <2>9, ClearSendersKeeps
  <2>10. CASE ClearReceivers(p)
    BY <2>10, ClearReceiversKeeps
  <2>11. CASE ClearEnds(p)
    BY <2>11, ClearEndsKeeps
  <2>12. CASE Kill(p)
    BY <2>12, KillKeeps
  <2> QED BY <2>1, <2>2, <2>3, <2>4, <2>5, <2>6, <2>7, <2>8, <2>9, <2>10, <2>11, <2>12
<1>2. CASE UNCHANGED PortsVars
  <2>1. \A r \in Port : PortOk(r)'
    BY <1>2, Elsewhere DEF PortsVars, PtInv
  <2>2. PtTypes'
    BY <1>2 DEF PtInv, PtTypes, PortsVars
  <2>3. NodesAccounted'
    BY <1>2 DEF PtInv, NodesAccounted, Places, PortsVars
  <2> QED BY <2>1, <2>2, <2>3 DEF PtInv
<1> QED BY <1>1, <1>2

LEMMA InitPtInv == PortsInit => PtInv
<1> SUFFICES ASSUME PortsInit PROVE PtInv
  OBVIOUS
<1>1. NoSem \in SemType /\ SemOk(NoSem) /\ NoSem.line = <<>> /\ InUser \in Cont
  BY NoSemOk, InUserCont
<1>2. PtTypes
  <2>1. Both(NoSem, NoSem) \in [Side -> SemType] /\ Both(0, 0) \in [Side -> Nat]
    BY <1>1 DEF Both, Side
  <2>2. ptnextid \in Port /\ ptfree \in Nat
    BY PtConst DEF PortsInit
  <2>3. /\ ptstate \in [Port -> {"PT_FREE", "PT_ALLOC", "PT_LIMBO"}]
        /\ ptseq \in [Port -> Nat] /\ ptmaxcnt \in [Port -> Nat]
        /\ panicked \in BOOLEAN
    BY DEF PortsInit
  <2>4. ptlist \in [Port -> Seq(Nat)]
    BY DEF PortsInit
  <2>5. ptsem \in [Port -> [Side -> SemType]] /\ ptlost \in [Port -> [Side -> Nat]]
    BY <2>1 DEF PortsInit
  <2>6. ptcont \in [Proc -> Cont]
    BY <1>1 DEF PortsInit
  <2> QED BY <2>2, <2>3, <2>4, <2>5, <2>6 DEF PtTypes
<1>3. ASSUME NEW q \in Port PROVE PortOk(q)
  <2>1. /\ ptstate[q] = "PT_FREE" /\ ptlist[q] = <<>> /\ Len(ptlist[q]) = 0 /\ ptmaxcnt[q] = 0
        /\ ptsem[q].snd = NoSem /\ ptsem[q].rcv = NoSem
        /\ \A x \in Proc : ptcont[x] = InUser
    BY DEF PortsInit, Both
  <2>2. \A x \in Proc, t \in Side : ~InCall(x, q, t) /\ ~Clears(x, q)
    BY <2>1 DEF InCall, InUser, Clears, Side
  <2>3. LineOk(q, "snd") /\ LineOk(q, "rcv")
    BY <1>1, <2>1 DEF LineOk, InQ
  <2>4. YoungOk(q, "snd") /\ YoungOk(q, "rcv")
    BY <2>2 DEF YoungOk, Side
  <2>5. ClearOk(q)
    BY <2>2 DEF ClearOk, Side
  <2>6. ListOk(q) /\ PermitsOk(q)
    BY <2>1 DEF ListOk, PermitsOk, Alloc
  <2> QED BY <2>3, <2>4, <2>5, <2>6 DEF PortOk
<1>4. NodesAccounted
  <2> DEFINE n == [q \in Port |-> Len(ptlist[q])]
  <2>1. \A q \in Port : n[q] = 0
    BY DEF PortsInit
  <2>2. Places(Port, n) = {}
    <3>1. ASSUME NEW y \in Places(Port, n) PROVE FALSE
      <4>1. PICK q \in Port : y \in {q} \X (1 .. n[q])
        BY <3>1 DEF Places
      <4> QED BY <2>1, <4>1
    <3> QED BY <3>1
  <2>3. Cardinality(Places(Port, n)) = 0 /\ ptfree = PT_MSGS /\ panicked = FALSE
    BY <2>2, FS_EmptySet DEF PortsInit
  <2> HIDE DEF n
  <2>4. ptfree + Cardinality(Places(Port, n)) = PT_MSGS
    BY <2>3, PtConst
  <2> QED BY <2>3, <2>4 DEF NodesAccounted, n
<1> QED BY <1>2, <1>3, <1>4 DEF PtInv

THEOREM PtInvAlways == PortsSpec => []PtInv
<1>1. PtInv /\ [PortsNext]_PortsVars => PtInv'
  BY NextPtInv
<1> QED BY <1>1, InitPtInv, PTL DEF PortsSpec

(* Permits, messages and processes on their way agree, whatever the order   *)
(* of calls, resets, deletions and deaths (system/ptsend.c, ptclear.c).    *)
THEOREM PermitsMatchMessagesAlways == PortsSpec => []PermitsMatchMessages
<1>1. PtInv => PermitsMatchMessages
  BY DEF PtInv, PortOk, PermitsOk, SndPermits, RcvPermits, PermitsMatchMessages
<1> QED BY <1>1, PtInvAlways, PTL

(* No message outlives the generation of the port it was sent to            *)
(* (system/ptsend.c:32).                                                   *)
THEOREM NoStaleMessagesAlways == PortsSpec => []NoStaleMessages
<1>1. PtInv => NoStaleMessages
  BY DEF PtInv, PortOk, ListOk, NoStaleMessages
<1> QED BY <1>1, PtInvAlways, PTL

(* Nodes are neither lost nor taken twice, and the panic for want of one    *)
(* means that more places were promised than there are (system/ptsend.c:36).*)
THEOREM NodesAccountedAlways == PortsSpec => []NodesAccounted
<1>1. PtInv => NodesAccounted
  BY DEF PtInv
<1> QED BY <1>1, PtInvAlways, PTL
=============================================================================
