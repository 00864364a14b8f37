----------------------------- MODULE LocksProofs -----------------------------
(***************************************************************************)
(* Theorems about Locks, for every number of processes and locks, all      *)
(* priorities and every workload.                                          *)
(***************************************************************************)
EXTENDS Locks, SchedProofs

(* Bounded sets of integers, and the priorities of a table, have a maximum.*)
LEMMA MaxOf ==
  ASSUME NEW S \in SUBSET Int, S # {}, NEW b \in Int, \A x \in S : x <= b
  PROVE  Max(S) \in S /\ \A y \in S : Max(S) >= y
<1>1. PICK D : D = {b - x : x \in S}
  OBVIOUS
<1>2. D \in SUBSET Nat /\ D # {}
  <2>1. \A x \in S : b - x \in Nat
    OBVIOUS
  <2> QED BY <1>1, <2>1
<1>3. PICK d \in D : \A e \in D : d <= e
  BY <1>2, Smallest
<1>4. PICK x \in S : d = b - x
  BY <1>1
<1>5. \A y \in S : x >= y
  <2>1. ASSUME NEW y \in S PROVE x >= y
    <3>1. b - y \in D /\ x \in Int /\ y \in Int
      BY <1>1
    <3>2. b - x <= b - y
      BY <1>3, <1>4, <3>1
    <3> QED BY <3>1, <3>2
  <2> QED BY <2>1
<1> QED BY <1>5 DEF Max

LEMMA Bounded ==
  ASSUME NEW n \in Nat, NEW f \in [0 .. n - 1 -> Int]
  PROVE  \E b \in Int : \A i \in 0 .. n - 1 : f[i] <= b
<1>1. PICK P : P = {m \in 0 .. n : \E b \in Int : \A i \in 0 .. m - 1 : f[i] <= b}
  OBVIOUS
<1>2. 0 \in P
  <2>1. 0 \in 0 .. n /\ \A i \in 0 .. 0 - 1 : f[i] <= 0
    OBVIOUS
  <2> QED BY <1>1, <2>1
<1>3. ASSUME NEW m \in 0 .. n - 1, m \in P PROVE m + 1 \in P
  <2>1. PICK b \in Int : \A i \in 0 .. m - 1 : f[i] <= b
    BY <1>1, <1>3
  <2>2. PICK c \in Int : c = IF b < f[m] THEN f[m] ELSE b
    OBVIOUS
  <2>3. \A i \in 0 .. m : f[i] <= c
    <3>1. ASSUME NEW i \in 0 .. m PROVE f[i] <= c
      <4>1. f[i] \in Int /\ f[m] \in Int
        OBVIOUS
      <4>2. i = m \/ i \in 0 .. m - 1
        OBVIOUS
      <4> QED BY <2>1, <2>2, <4>1, <4>2
    <3> QED BY <3>1
  <2>4. m + 1 \in 0 .. n /\ m = (m + 1) - 1
    OBVIOUS
  <2> QED BY <1>1, <2>3, <2>4
<1>4. n \in P
  <2>1. 0 .. n \subseteq P
    BY <1>2, <1>3, CountUp
  <2> QED BY <2>1
<1> QED BY <1>1, <1>4

LEMMA LockFacts == /\ NLOCKS \in Nat /\ NLOCKS >= 1 /\ Lock = 0 .. NLOCKS - 1 /\ 0 \in Lock
                   /\ NPROC \in Nat /\ Pid = 0 .. NPROC - 1 /\ NULLPROC \in Pid
                   /\ UserPid \subseteq Pid /\ NULLPROC \notin UserPid /\ NoLock \notin Lock
                   /\ LockPrios \subseteq Nat /\ NewPrios \subseteq Nat /\ Targets \subseteq UserPid
                   /\ Releases \subseteq Seq(Lock)
BY LocksAssumption, SchedAssumption DEF Lock, Pid, NULLPROC, UserPid, NoLock

-----------------------------------------------------------------------------
(* What swapPriority() computes are priorities again, never lower ones.    *)
LEMMA RaiseOnceType ==
  ASSUME NEW kk, kk.prprio \in [Pid -> Int], NEW tab, NEW f,
         NEW met \in SUBSET Lock, NEW lprio \in [Lock -> Int]
  PROVE  RaiseOnce(kk, tab, f, met, lprio) \in [Lock -> Int]
<1>1. PICK prprio : prprio = kk.prprio /\ prprio \in [Pid -> Int]
  OBVIOUS
<1>2. PICK c \in Int : \A a \in Lock : lprio[a] <= c
  BY LockFacts, Bounded
<1>3. PICK d \in Int : \A h \in Pid : prprio[h] <= d
  BY <1>1, LockFacts, Bounded
<1>4. PICK e \in Int : c <= e /\ d <= e
  <2>1. c <= d \/ d <= c
    OBVIOUS
  <2> QED BY <2>1
<1>5. ASSUME NEW b \in Lock
      PROVE  Max({lprio[b]}
                   \cup {lprio[a] : a \in {x \in met : tab[x].plist \cap Awaiting(kk, f, b) # {}}}
                   \cup {prprio[h] : h \in {p \in Awaiting(kk, f, b) : \E a \in met : p \in tab[a].plist}}) \in Int
  <2>1. PICK A, B : /\ A = {x \in met : tab[x].plist \cap Awaiting(kk, f, b) # {}}
                    /\ B = {p \in Awaiting(kk, f, b) : \E a \in met : p \in tab[a].plist}
    OBVIOUS
  <2>2. PICK S : S = {lprio[b]} \cup {lprio[a] : a \in A} \cup {prprio[h] : h \in B}
    OBVIOUS
  <2>3. A \subseteq Lock /\ B \subseteq Pid
    BY <2>1 DEF Awaiting
  <2>4. S \in SUBSET Int /\ S # {}
    BY <1>1, <2>2, <2>3
  <2>5. \A x \in S : x <= e
    <3>1. ASSUME NEW a \in Lock PROVE lprio[a] <= e
      BY <1>2, <1>4
    <3>2. ASSUME NEW h \in Pid PROVE prprio[h] <= e
      BY <1>1, <1>3, <1>4
    <3> QED BY <2>2, <2>3, <3>1, <3>2
  <2>6. Max(S) \in Int
    BY <2>4, <2>5, MaxOf
  <2> QED BY <2>1, <2>2, <2>6
<1> QED BY <1>1, <1>5 DEF RaiseOnce

(* swapPriority() comes to an end with priorities: the function that       *)
(* counts its calls exists.                                                *)
LEMMA RaisedType ==
  ASSUME NEW kk, kk.prprio \in [Pid -> Int], NEW tab, NEW f, NEW l \in Lock, NEW S \in SUBSET Pid,
         \A a \in Lock : tab[a].lprio \in Int
  PROVE  RaisedLprio(kk, tab, f, l, S) \in [Lock -> Int]
<1>1. PICK met : met = Met(kk, tab, f, l)
  OBVIOUS
<1>2. met \in SUBSET Lock
  BY <1>1 DEF Met
<1>3. PICK first : first = [b \in Lock |-> IF b = l THEN Max({tab[l].lprio} \cup {kk.prprio[p] : p \in S})
                                           ELSE tab[b].lprio]
  OBVIOUS
<1>4. first \in [Lock -> Int]
  <2>1. PICK T, prprio : /\ T = {tab[l].lprio} \cup {kk.prprio[p] : p \in S}
                         /\ prprio = kk.prprio /\ prprio \in [Pid -> Int]
    OBVIOUS
  <2>2. PICK d \in Int : \A h \in Pid : prprio[h] <= d
    BY <2>1, LockFacts, Bounded
  <2>3. PICK e \in Int : d <= e /\ tab[l].lprio <= e
    <3>1. d <= tab[l].lprio \/ tab[l].lprio <= d
      OBVIOUS
    <3> QED BY <3>1
  <2>4. T \in SUBSET Int /\ T # {}
    BY <2>1
  <2>5. \A x \in T : x <= e
    <3>1. ASSUME NEW h \in Pid PROVE prprio[h] <= e
      BY <2>1, <2>2, <2>3
    <3> QED BY <2>1, <2>3, <3>1
  <2>6. Max(T) \in Int
    BY <2>4, <2>5, MaxOf
  <2> QED BY <1>3, <2>1, <2>6
<1>5. PICK P : P = {m \in 0 .. NLOCKS : \E g \in [0 .. m -> [Lock -> Int]] :
                       /\ g[0] = first
                       /\ \A n \in 1 .. m : g[n] = RaiseOnce(kk, tab, f, met, g[n - 1])}
  OBVIOUS
<1>6. 0 \in P
  <2>1. PICK g : g = [n \in 0 .. 0 |-> first]
    OBVIOUS
  <2>2. g \in [0 .. 0 -> [Lock -> Int]] /\ g[0] = first /\ 1 .. 0 = {} /\ 0 \in 0 .. NLOCKS
    BY <1>4, <2>1, LockFacts
  <2> QED BY <1>5, <2>2
<1>7. ASSUME NEW m \in 0 .. NLOCKS - 1, m \in P PROVE m + 1 \in P
  <2>1. PICK g \in [0 .. m -> [Lock -> Int]] :
             /\ g[0] = first
             /\ \A n \in 1 .. m : g[n] = RaiseOnce(kk, tab, f, met, g[n - 1])
    BY <1>5, <1>7
  <2>2. PICK more : more = RaiseOnce(kk, tab, f, met, g[m])
    OBVIOUS
  <2>3. m \in Nat /\ m \in 0 .. m /\ g[m] \in [Lock -> Int] /\ m + 1 \in 0 .. NLOCKS
    BY LockFacts
  <2>4. more \in [Lock -> Int]
    BY <1>2, <2>2, <2>3, RaiseOnceType
  <2>5. PICK e : e = [n \in 0 .. m + 1 |-> IF n = m + 1 THEN more ELSE g[n]]
    OBVIOUS
  <2>6. e \in [0 .. m + 1 -> [Lock -> Int]]
    BY <2>3, <2>4, <2>5
  <2>7. e[0] = first
    BY <2>1, <2>3, <2>5
  <2>8. ASSUME NEW n \in 1 .. m + 1 PROVE e[n] = RaiseOnce(kk, tab, f, met, e[n - 1])
    <3>1. n - 1 \in 0 .. m /\ n \in 0 .. m + 1 /\ n - 1 # m + 1 /\ n - 1 \in 0 .. m + 1
      BY <2>3
    <3>2. e[n - 1] = g[n - 1]
      BY <2>5, <3>1
    <3>3. CASE n = m + 1
      <4>1. n - 1 = m /\ e[n] = more
        BY <2>3, <2>5, <3>1, <3>3
      <4> QED BY <2>2, <3>2, <4>1
    <3>4. CASE n # m + 1
      <4>1. n \in 1 .. m /\ e[n] = g[n]
        BY <2>3, <2>5, <3>1, <3>4
      <4> QED BY <2>1, <3>2, <4>1
    <3> QED BY <3>3, <3>4
  <2> QED BY <1>5, <2>3, <2>6, <2>7, <2>8
<1>8. NLOCKS \in P
  <2>1. 0 .. NLOCKS \subseteq P
    BY <1>6, <1>7, CountUp, LockFacts
  <2> QED BY <2>1, LockFacts
<1>9. PICK g \in [0 .. NLOCKS -> [Lock -> Int]] :
           /\ g[0] = first
           /\ \A n \in 1 .. NLOCKS : g[n] = RaiseOnce(kk, tab, f, met, g[n - 1])
  BY <1>5, <1>8
<1> DEFINE Counts(r) == r = [n \in 0 .. NLOCKS |-> IF n = 0 THEN first ELSE RaiseOnce(kk, tab, f, met, r[n - 1])]
           R == CHOOSE r : Counts(r)
<1>10. Counts(g)
  <2>1. ASSUME NEW n \in 0 .. NLOCKS
        PROVE  g[n] = IF n = 0 THEN first ELSE RaiseOnce(kk, tab, f, met, g[n - 1])
    <3>1. n = 0 \/ n \in 1 .. NLOCKS
      BY LockFacts
    <3> QED BY <1>9, <3>1
  <2> QED BY <2>1
<1>11. Counts(R)
  BY <1>10
<1>r. PICK r : r = R /\ r = [n \in 0 .. NLOCKS |-> IF n = 0 THEN first ELSE RaiseOnce(kk, tab, f, met, r[n - 1])]
  BY <1>11
<1> HIDE DEF R
<1>12. r[NLOCKS] \in [Lock -> Int]
  <2>1. r[0] = first
    BY <1>r, LockFacts
  <2>2. PICK Q : Q = {m \in 0 .. NLOCKS : r[m] \in [Lock -> Int]}
    OBVIOUS
  <2>3. 0 \in Q
    BY <1>4, <2>1, <2>2, LockFacts
  <2>4. ASSUME NEW m \in 0 .. NLOCKS - 1, m \in Q PROVE m + 1 \in Q
    <3>1. m + 1 \in 0 .. NLOCKS /\ m + 1 # 0 /\ (m + 1) - 1 = m
      BY LockFacts
    <3>2. r[m + 1] = RaiseOnce(kk, tab, f, met, r[m])
      BY <1>r, <3>1
    <3>3. PICK x \in [Lock -> Int] : x = r[m]
      BY <2>2, <2>4
    <3>4. r[m + 1] = RaiseOnce(kk, tab, f, met, x)
      BY <3>2, <3>3
    <3>5. RaiseOnce(kk, tab, f, met, x) \in [Lock -> Int]
      BY <1>2, RaiseOnceType
    <3> QED BY <2>2, <3>1, <3>4, <3>5
  <2>5. 0 .. NLOCKS \subseteq Q
    BY <2>3, <2>4, CountUp, LockFacts
  <2>6. NLOCKS \in 0 .. NLOCKS
    BY LockFacts
  <2> QED BY <2>2, <2>5, <2>6
<1>13. RaisedLprio(kk, tab, f, l, S) = [b \in Lock |-> IF b \in met THEN R[NLOCKS][b] ELSE tab[b].lprio]
  BY <1>1, <1>3 DEF RaisedLprio, R
<1> QED BY <1>r, <1>12, <1>13

-----------------------------------------------------------------------------
(* The invariant, of any state of scheduler, lock table, proctab and       *)
(* continuations: calls are made of parts that keep it.                    *)
Locked == {"READ_LOCKED", "WRITE_LOCKED"}
LockEntry == [lstate : {"LFREE", "LUSED"} \cup Locked, lprio : Int, maxWritePrio : Int,
              plist : SUBSET Pid, queue : Seq(Pid)]
PrEntry == [locks : SUBSET Lock, nlocks : Int, plock : Lock \cup {NoLock},
            pwaitret : {"OK", "DELETED"}, oprio : Nat, changed : BOOLEAN,
            type : {"READ", "WRITE"}, key : Nat, own : Nat]
Typed(tab, f, c) == tab \in [Lock -> LockEntry] /\ f \in [Pid -> PrEntry] /\ c \in [Pid -> Cont]

Waiters(kk, tab, f) ==
  /\ \A p \in Pid, l \in Lock :
       InQ(tab[l].queue, p) <=> kk.prstate[p] = "WAIT" /\ f[p].plock = l
  /\ \A l \in Lock : Once(tab[l].queue)
(* A process that waits goes on with the lock it waits for. *)
Known(kk, f, c) ==
  \A p \in Pid : kk.prstate[p] = "WAIT" => c[p].op = "lock" /\ c[p].lock = f[p].plock
(* The holders on the list of a lock count it among their own. *)
Holders(tab, f) == \A l \in Lock, p \in Pid : p \in tab[l].plist => l \in f[p].locks
(* Each process has its own priority, or a higher one and its own to go   *)
(* back to.                                                                *)
Own(prio, e) == IF e.changed THEN e.oprio = e.own /\ prio >= e.own ELSE prio = e.own
OwnKept(kk, f) == \A p \in Pid : Own(kk.prprio[p], f[p])
Sane(kk, tab, f, c) ==
  /\ SchedInv(kk) /\ kk.ndefers = 0
  /\ Typed(tab, f, c) /\ Waiters(kk, tab, f) /\ Known(kk, f, c) /\ Holders(tab, f) /\ OwnKept(kk, f)

(* What makes LockedMeansHeld true of lock l. *)
Going(kk, f, c, l) == \E p \in Pid : l \in f[p].locks \/ (c[p].op = "lock" /\ c[p].lock = l /\ kk.prstate[p] # "WAIT")
Deleted(c, l) == \E p \in Pid : c[p].op = "ldelete" /\ c[p].lock = l
Held(kk, tab, f, c, l) ==
  /\ tab[l].lstate \in Locked => Going(kk, f, c, l)
  /\ tab[l].queue # <<>> => tab[l].lstate \in Locked \/ Deleted(c, l)
AllHeld(kk, tab, f, c) == \A l \in Lock : Held(kk, tab, f, c, l)

IInv == Sane(k, locktab, pr, cont) /\ AllHeld(k, locktab, pr, cont)

LEMMA SaneFacts ==
  ASSUME NEW kk, NEW tab, NEW f, NEW c, Sane(kk, tab, f, c)
  PROVE  /\ SchedInv(kk) /\ kk.currpid \in Pid /\ kk.prstate[kk.currpid] = "CURR" /\ kk.ndefers = 0
         /\ kk.prstate \in [Pid -> PrState] /\ kk.prprio \in [Pid -> Nat]
         /\ \A l \in Lock : /\ tab[l] \in LockEntry /\ tab[l].queue \in Seq(Pid) /\ tab[l].plist \in SUBSET Pid
                            /\ tab[l].lprio \in Int /\ Once(tab[l].queue)
         /\ \A p \in Pid : f[p] \in PrEntry /\ f[p].locks \in SUBSET Lock /\ f[p].oprio \in Nat /\ f[p].plock \in Lock \cup {NoLock}
         /\ \A p \in Pid : c[p] \in Cont
BY DEF Sane, SchedInv, SchedPre, SchedType, Typed, LockEntry, PrEntry, Waiters

NewPrio(kk, prio) == [kk EXCEPT !.prprio = prio]
LEMMA SetPriosInv ==
  ASSUME NEW kk, SchedInv(kk), NEW prio \in [Pid -> Nat]
  PROVE  /\ SchedInv(NewPrio(kk, prio)) /\ NewPrio(kk, prio).prprio = prio
         /\ NewPrio(kk, prio).prstate = kk.prstate /\ NewPrio(kk, prio).ndefers = kk.ndefers
         /\ NewPrio(kk, prio).currpid = kk.currpid
<1>1. PICK m : m = NewPrio(kk, prio)
  OBVIOUS
<1>2. SchedType(m)
  BY <1>1 DEF SchedInv, SchedPre, SchedType, NewPrio
<1>3. /\ m.prstate = kk.prstate /\ m.readylist = kk.readylist
      /\ m.qkey = kk.qkey /\ m.currpid = kk.currpid /\ m.ndefers = kk.ndefers /\ m.prprio = prio
  BY <1>1 DEF SchedInv, SchedPre, SchedType, NewPrio
<1>4. OnlyCurrentRuns(m) /\ NullEligible(m) /\ ReadyListExact(m) /\ ReadySorted(m)
  BY <1>3 DEF SchedInv, SchedPre, OnlyCurrentRuns, NullEligible, ReadyListExact, ReadySorted
<1> QED BY <1>1, <1>2, <1>3, <1>4 DEF SchedInv, SchedPre

(* What swapPriority() leaves alone, and that it only raises priorities.   *)
Swapped(kk, tab, f, w) ==
  /\ w.k.prstate = kk.prstate /\ w.k.currpid = kk.currpid
  /\ \A l \in Lock : /\ w.tab[l].queue = tab[l].queue /\ w.tab[l].plist = tab[l].plist
                     /\ w.tab[l].lstate = tab[l].lstate
  /\ \A p \in Pid : w.pr[p].locks = f[p].locks /\ w.pr[p].plock = f[p].plock

InheritPrio(kk, tab, f, l, lp) ==
  [h \in Pid |-> Max({kk.prprio[h]} \cup {lp[a] : a \in {b \in Met(kk, tab, f, l) : h \in tab[b].plist}})]
InheritAll(kk, tab, f, lp, pp) ==
  [k   |-> [kk EXCEPT !.prprio = pp],
   tab |-> [a \in Lock |-> [tab[a] EXCEPT !.lprio = lp[a]]],
   pr  |-> [h \in Pid |-> IF pp[h] > kk.prprio[h] /\ ~f[h].changed
                          THEN [f[h] EXCEPT !.changed = TRUE, !.oprio = kk.prprio[h]]
                          ELSE f[h]]]

LEMMA SwapKeeps ==
  ASSUME NEW kk, NEW tab, NEW f, NEW c, Sane(kk, tab, f, c),
         NEW l \in Lock \cup {NoLock}, NEW S \in SUBSET Pid, NEW w, w = SwapPriority(kk, tab, f, l, S)
  PROVE  Sane(w.k, w.tab, w.pr, c) /\ Swapped(kk, tab, f, w)
<1>1. CASE l = NoLock \/ S = {}
  <2>1. w = [k |-> kk, tab |-> tab, pr |-> f]
    BY <1>1 DEF SwapPriority
  <2>2. w.k = kk /\ w.tab = tab /\ w.pr = f
    BY <2>1
  <2> QED BY <2>2 DEF Swapped
<1>2. CASE ~(l = NoLock \/ S = {})
  <2>1. l \in Lock
    BY <1>2
  <2>2. PICK lprio : lprio = RaisedLprio(kk, tab, f, l, S)
    OBVIOUS
  <2>3. lprio \in [Lock -> Int]
    <3>1. kk.prprio \in [Pid -> Int] /\ \A a \in Lock : tab[a].lprio \in Int
      BY SaneFacts
    <3> QED BY <2>1, <2>2, <3>1, RaisedType
  <2>4. PICK prio : prio = [h \in Pid |-> Max({kk.prprio[h]} \cup
                                       {lprio[a] : a \in {b \in Met(kk, tab, f, l) : h \in tab[b].plist}})]
    OBVIOUS
  <2>5. prio \in [Pid -> Nat] /\ \A h \in Pid : prio[h] >= kk.prprio[h]
    <3>1. PICK e \in Int : \A a \in Lock : lprio[a] <= e
      BY <2>3, LockFacts, Bounded
    <3>2. ASSUME NEW h \in Pid PROVE prio[h] \in Nat /\ prio[h] >= kk.prprio[h]
      <4>1. PICK n \in Nat : n = kk.prprio[h]
        BY SaneFacts
      <4>2. PICK B : B = {b \in Met(kk, tab, f, l) : h \in tab[b].plist}
        OBVIOUS
      <4>3. B \subseteq Lock
        BY <4>2 DEF Met
      <4>4. PICK T : T = {n} \cup {lprio[a] : a \in B}
        OBVIOUS
      <4>5. T \in SUBSET Int /\ T # {}
        BY <2>3, <4>1, <4>3, <4>4
      <4>6. PICK b \in Int : n <= b /\ e <= b
        <5>1. n <= e \/ e <= n
          BY <4>1
        <5> QED BY <5>1
      <4>7. \A x \in T : x <= b
        <5>1. ASSUME NEW a \in Lock PROVE lprio[a] <= b
          BY <2>3, <3>1, <4>6
        <5> QED BY <4>3, <4>4, <4>6, <5>1
      <4>8. Max(T) \in Int /\ Max(T) >= n
        BY <4>4, <4>5, <4>7, MaxOf
      <4>9. prio[h] = Max(T)
        BY <2>4, <4>1, <4>2, <4>4
      <4> QED BY <4>1, <4>8, <4>9
    <3> QED BY <2>4, <3>2
  <2>6. PICK m, t, g :
          /\ m = [kk EXCEPT !.prprio = prio]
          /\ t = [a \in Lock |-> [tab[a] EXCEPT !.lprio = lprio[a]]]
          /\ g = [h \in Pid |-> IF prio[h] > kk.prprio[h] /\ ~f[h].changed
                                THEN [f[h] EXCEPT !.changed = TRUE, !.oprio = kk.prprio[h]]
                                ELSE f[h]]
    OBVIOUS
  <2>7. w = [k |-> m, tab |-> t, pr |-> g]
    <3>1. w = InheritAll(kk, tab, f, RaisedLprio(kk, tab, f, l, S),
                         InheritPrio(kk, tab, f, l, RaisedLprio(kk, tab, f, l, S)))
      BY <1>2 DEF SwapPriority, InheritAll, InheritPrio
    <3>2. prio = InheritPrio(kk, tab, f, l, lprio)
      BY <2>4 DEF InheritPrio
    <3>3. w = InheritAll(kk, tab, f, lprio, prio)
      BY <2>2, <3>1, <3>2
    <3> QED BY <2>6, <3>3 DEF InheritAll
  <2>8. w.k = m /\ w.tab = t /\ w.pr = g
    BY <2>7
  <2>9. SchedInv(m) /\ m.ndefers = 0 /\ m.prstate = kk.prstate /\ m.currpid = kk.currpid /\ m.prprio = prio
    <3>1. SchedInv(kk) /\ kk.ndefers = 0
      BY SaneFacts
    <3>2. m = NewPrio(kk, prio)
      BY <2>6 DEF NewPrio
    <3>3. /\ SchedInv(m)
          /\ m.prstate = kk.prstate /\ m.ndefers = kk.ndefers /\ m.currpid = kk.currpid /\ m.prprio = prio
      BY <2>5, <3>1, <3>2, SetPriosInv
    <3> QED BY <3>1, <3>3
  <2>10. ASSUME NEW a \in Lock
         PROVE  /\ t[a] \in LockEntry /\ t[a].queue = tab[a].queue /\ t[a].plist = tab[a].plist
                /\ t[a].lstate = tab[a].lstate
    <3>1. t[a] = [tab[a] EXCEPT !.lprio = lprio[a]]
      BY <2>6
    <3>2. tab[a] \in LockEntry /\ lprio[a] \in Int
      BY <2>3, SaneFacts
    <3> QED BY <3>1, <3>2 DEF LockEntry
  <2>11. ASSUME NEW h \in Pid
         PROVE  /\ g[h] \in PrEntry /\ g[h].locks = f[h].locks /\ g[h].plock = f[h].plock
                /\ Own(prio[h], g[h])
    <3>1. f[h] \in PrEntry /\ kk.prprio[h] \in Nat /\ prio[h] \in Nat /\ prio[h] >= kk.prprio[h]
      BY <2>5, SaneFacts
    <3>2. Own(kk.prprio[h], f[h])
      BY DEF Sane, OwnKept
    <3>3. CASE prio[h] > kk.prprio[h] /\ ~f[h].changed
      <4>1. PICK n \in Nat : n = kk.prprio[h]
        BY <3>1
      <4>2. g[h] = [f[h] EXCEPT !.changed = TRUE, !.oprio = n]
        BY <2>6, <3>3, <4>1
      <4>3. /\ g[h] \in PrEntry /\ g[h].locks = f[h].locks /\ g[h].plock = f[h].plock
            /\ g[h].oprio = n /\ g[h].own = f[h].own /\ g[h].changed
        BY <3>1, <4>2 DEF PrEntry
      <4>4. f[h].own = n
        BY <3>2, <3>3, <4>1 DEF Own
      <4> QED BY <3>1, <4>1, <4>3, <4>4 DEF Own
    <3>4. CASE ~(prio[h] > kk.prprio[h] /\ ~f[h].changed)
      <4>1. g[h] = f[h]
        BY <2>6, <3>4
      <4>2. f[h].own \in Nat /\ f[h].changed \in BOOLEAN
        BY <3>1 DEF PrEntry
      <4>3. CASE f[h].changed
        BY <3>1, <3>2, <4>1, <4>2, <4>3 DEF Own
      <4>4. CASE ~f[h].changed
        <5>1. prio[h] = kk.prprio[h]
          BY <3>1, <3>4, <4>4
        <5> QED BY <3>1, <3>2, <4>1, <4>4, <5>1 DEF Own
      <4> QED BY <4>3, <4>4
    <3> QED BY <3>3, <3>4
  <2>12. Typed(t, g, c)
    <3>1. t \in [Lock -> LockEntry] /\ g \in [Pid -> PrEntry]
      BY <2>6, <2>10, <2>11
    <3> QED BY <3>1 DEF Sane, Typed
  <2>13. Waiters(m, t, g) /\ Known(m, g, c) /\ Holders(t, g)
    BY <2>9, <2>10, <2>11 DEF Sane, Waiters, Known, Holders
  <2>14. OwnKept(m, g)
    BY <2>9, <2>11 DEF OwnKept
  <2>15. Sane(m, t, g, c)
    BY <2>9, <2>12, <2>13, <2>14 DEF Sane
  <2> QED BY <2>8, <2>9, <2>10, <2>11, <2>15 DEF Swapped
<1> QED BY <1>1, <1>2

-----------------------------------------------------------------------------
(* Nobody starts or stops waiting. *)
LEMMA SaneStep ==
  ASSUME NEW kk, NEW tab, NEW f, NEW c, Sane(kk, tab, f, c),
         NEW k2, NEW tab2, NEW f2, NEW c2, SchedInv(k2), k2.ndefers = 0, Typed(tab2, f2, c2),
         \A p \in Pid : k2.prstate[p] = "WAIT" <=> kk.prstate[p] = "WAIT",
         \A p \in Pid : kk.prstate[p] = "WAIT" => f2[p].plock = f[p].plock /\ c2[p] = c[p],
         \A l \in Lock : tab2[l].queue = tab[l].queue,
         Holders(tab2, f2), OwnKept(k2, f2)
  PROVE  Sane(k2, tab2, f2, c2)
<1>1. Waiters(k2, tab2, f2)
  BY DEF Sane, Waiters
<1>2. Known(k2, f2, c2)
  BY DEF Sane, Known
<1> QED BY <1>1, <1>2 DEF Sane

(* Only p stops waiting, and leaves the queue of l. *)
LEMMA SaneLeaves ==
  ASSUME NEW kk, NEW tab, NEW f, NEW c, Sane(kk, tab, f, c),
         NEW k2, NEW tab2, NEW f2, NEW c2, SchedInv(k2), k2.ndefers = 0, Typed(tab2, f2, c2),
         NEW l \in Lock, NEW p \in Pid, InQ(tab[l].queue, p),
         NEW q, tab2[l].queue = q, Once(q), \A y : InQ(q, y) <=> InQ(tab[l].queue, y) /\ y # p,
         \A m \in Lock \ {l} : tab2[m].queue = tab[m].queue,
         k2.prstate[p] # "WAIT",
         \A x \in Pid \ {p} : k2.prstate[x] = "WAIT" <=> kk.prstate[x] = "WAIT",
         \A x \in Pid \ {p} : kk.prstate[x] = "WAIT" => f2[x].plock = f[x].plock /\ c2[x] = c[x],
         Holders(tab2, f2), OwnKept(k2, f2)
  PROVE  Sane(k2, tab2, f2, c2)
<1>1. /\ \A x \in Pid, m \in Lock : InQ(tab[m].queue, x) <=> kk.prstate[x] = "WAIT" /\ f[x].plock = m
      /\ \A m \in Lock : Once(tab[m].queue)
  BY DEF Sane, Waiters
<1>2. \A m \in Lock : Once(tab2[m].queue)
  BY <1>1
<1>3. ASSUME NEW x \in Pid, NEW m \in Lock
      PROVE  InQ(tab2[m].queue, x) <=> k2.prstate[x] = "WAIT" /\ f2[x].plock = m
  <2>1. CASE x = p
    <3>1. ~InQ(tab2[m].queue, p)
      BY <1>1
    <3> QED BY <2>1, <3>1
  <2>2. CASE x # p
    <3>1. InQ(tab2[m].queue, x) <=> InQ(tab[m].queue, x)
      BY <2>2
    <3> QED BY <1>1, <2>2, <3>1
  <2> QED BY <2>1, <2>2
<1>4. Waiters(k2, tab2, f2)
  BY <1>2, <1>3 DEF Waiters
<1>5. Known(k2, f2, c2)
  BY DEF Sane, Known
<1> QED BY <1>4, <1>5 DEF Sane

LEMMA HeldStep ==
  ASSUME NEW kk, NEW tab, NEW f, NEW c, NEW l, Held(kk, tab, f, c, l),
         NEW k2, NEW tab2, NEW f2, NEW c2, tab2[l].lstate = tab[l].lstate,
         tab2[l].queue # <<>> => tab[l].queue # <<>>,
         \A p \in Pid : l \in f[p].locks => l \in f2[p].locks,
         \A p \in Pid : c[p].op = "lock" /\ c[p].lock = l /\ kk.prstate[p] # "WAIT"
            => (c2[p] = c[p] /\ k2.prstate[p] # "WAIT") \/ l \in f2[p].locks,
         \A p \in Pid : tab2[l].queue # <<>> /\ c[p].op = "ldelete" /\ c[p].lock = l => c2[p] = c[p]
  PROVE  Held(k2, tab2, f2, c2, l)
<1>1. Going(kk, f, c, l) => Going(k2, f2, c2, l)
  BY DEF Going
<1>2. tab2[l].queue # <<>> /\ Deleted(c, l) => Deleted(c2, l)
  BY DEF Deleted
<1> QED BY <1>1, <1>2 DEF Held

LEMMA StepFacts ==
  ASSUME IInv
  PROVE  /\ Self \in Pid /\ Self = k.currpid /\ k.prstate[Self] = "CURR" /\ SchedInv(k) /\ k.ndefers = 0
         /\ locktab \in [Lock -> LockEntry] /\ pr \in [Pid -> PrEntry] /\ cont \in [Pid -> Cont]
         /\ \A p \in Pid : cont[p].op \in {"user", "lock", "release", "grant", "ldelete"}
                           /\ cont[p].lock \in Lock /\ cont[p].todo \in Seq(Lock)
         /\ InUser \in Cont /\ InUser.op = "user"
<1>1. SchedInv(k) /\ k.currpid \in Pid /\ k.prstate[k.currpid] = "CURR" /\ k.ndefers = 0
  BY SaneFacts DEF IInv
<1>2. locktab \in [Lock -> LockEntry] /\ pr \in [Pid -> PrEntry] /\ cont \in [Pid -> Cont]
  BY DEF IInv, Sane, Typed
<1>3. InUser \in Cont /\ InUser.op = "user"
  BY LockFacts DEF InUser, Cont
<1> QED BY <1>1, <1>2, <1>3 DEF Self, Cont

LEMMA SameStep == ASSUME IInv, UNCHANGED <<k, locktab, pr, cont>> PROVE IInv'
BY DEF IInv, Sane, Typed, Waiters, Known, Holders, OwnKept, AllHeld, Held, Going, Deleted

(* t and g are the lock table and proctab when p has noted that it holds l.*)
HoldsNow(kk, tab, f, c, l, p, t, g) ==
  /\ Sane(kk, t, g, c)
  /\ \A m \in Lock : t[m].lstate = tab[m].lstate /\ t[m].queue = tab[m].queue
  /\ \A q \in Pid : /\ g[q].plock = f[q].plock
                    /\ g[q].locks = IF q = p THEN f[q].locks \cup {l} ELSE f[q].locks

LEMMA TakesNotes ==
  ASSUME NEW kk, NEW tab, NEW f, NEW c, Sane(kk, tab, f, c), NEW l \in Lock, NEW p \in Pid
  PROVE  HoldsNow(kk, tab, f, c, l, p, Takes(tab, l, p), Noted(f, l, p))
<1>1. PICK t, g : t = Takes(tab, l, p) /\ g = Noted(f, l, p)
  OBVIOUS
<1>2. Typed(tab, f, c) /\ Holders(tab, f) /\ OwnKept(kk, f) /\ SchedInv(kk) /\ kk.ndefers = 0
  BY DEF Sane
<1>3. ASSUME NEW m \in Lock
      PROVE  /\ t[m] \in LockEntry /\ t[m].lstate = tab[m].lstate /\ t[m].queue = tab[m].queue
             /\ t[m].plist = IF m = l THEN tab[m].plist \cup {p} ELSE tab[m].plist
  BY <1>1, <1>2 DEF Typed, LockEntry, Takes
<1>4. ASSUME NEW q \in Pid
      PROVE  /\ g[q] \in PrEntry /\ g[q].plock = f[q].plock
             /\ g[q].changed = f[q].changed /\ g[q].oprio = f[q].oprio /\ g[q].own = f[q].own
             /\ g[q].locks = IF q = p THEN f[q].locks \cup {l} ELSE f[q].locks
  BY <1>1, <1>2 DEF Typed, PrEntry, Noted
<1>5. Typed(t, g, c)
  <2>1. t \in [Lock -> LockEntry]
    BY <1>1, <1>2, <1>3 DEF Typed, Takes
  <2>2. g \in [Pid -> PrEntry]
    BY <1>1, <1>2, <1>4 DEF Typed, Noted
  <2> QED BY <1>2, <2>1, <2>2 DEF Typed
<1>6. Holders(t, g) /\ OwnKept(kk, g)
  <2>1. ASSUME NEW m \in Lock, NEW q \in Pid, q \in t[m].plist PROVE m \in g[q].locks
    <3>1. CASE m = l /\ q = p
      BY <1>4, <3>1
    <3>2. CASE ~(m = l /\ q = p)
      <4>1. q \in tab[m].plist
        BY <1>3, <2>1, <3>2
      <4>2. m \in f[q].locks
        BY <1>2, <4>1 DEF Holders
      <4> QED BY <1>4, <4>2
    <3> QED BY <3>1, <3>2
  <2>2. ASSUME NEW q \in Pid PROVE Own(kk.prprio[q], g[q])
    <3>1. Own(kk.prprio[q], f[q])
      BY <1>2 DEF OwnKept
    <3> QED BY <1>4, <3>1 DEF Own
  <2>3. Holders(t, g)
    BY <2>1 DEF Holders
  <2>4. OwnKept(kk, g)
    BY <2>2 DEF OwnKept
  <2> QED BY <2>3, <2>4
<1>7. Sane(kk, t, g, c)
  <2>1. /\ \A q \in Pid : kk.prstate[q] = "WAIT" <=> kk.prstate[q] = "WAIT"
        /\ \A q \in Pid : kk.prstate[q] = "WAIT" => g[q].plock = f[q].plock /\ c[q] = c[q]
        /\ \A m \in Lock : t[m].queue = tab[m].queue
    BY <1>3, <1>4
  <2> QED BY <1>2, <1>5, <1>6, <2>1, SaneStep
<1> QED BY <1>1, <1>3, <1>4, <1>7 DEF HoldsNow

LEMMA LockReturnsStep == ASSUME IInv, LockReturns PROVE IInv'
<1>1. PICK p, l : p = Self /\ l = cont[p].lock
  OBVIOUS
<1>2. p \in Pid /\ l \in Lock /\ cont[p].op = "lock" /\ k.prstate[p] = "CURR" /\ cont \in [Pid -> Cont]
  BY <1>1, StepFacts DEF LockReturns, Continuing
<1>3. PICK t, f, S : t = Takes(locktab, l, p) /\ f = Noted(pr, l, p) /\ S = Awaiting(k, pr, l)
  OBVIOUS
<1>4. PICK w : w = SwapPriority(k, t, f, l, S)
  OBVIOUS
<1>5. \/ UNCHANGED <<k, locktab, pr, cont>>
      \/ k' = w.k /\ locktab' = w.tab /\ pr' = w.pr /\ cont' = [cont EXCEPT ![p] = InUser]
  BY <1>1, <1>3, <1>4 DEF LockReturns, Inherit, Return
<1>6. CASE UNCHANGED <<k, locktab, pr, cont>>
  BY <1>6, SameStep
<1>7. CASE k' = w.k /\ locktab' = w.tab /\ pr' = w.pr /\ cont' = [cont EXCEPT ![p] = InUser]
  <2>1. /\ Sane(k, t, f, cont)
        /\ \A m \in Lock : t[m].lstate = locktab[m].lstate /\ t[m].queue = locktab[m].queue
        /\ \A q \in Pid : /\ f[q].plock = pr[q].plock
                          /\ f[q].locks = IF q = p THEN pr[q].locks \cup {l} ELSE pr[q].locks
    <3>1. Sane(k, locktab, pr, cont)
      BY DEF IInv
    <3>2. p \in Pid /\ l \in Lock
      BY <1>2
    <3>3. HoldsNow(k, locktab, pr, cont, l, p, t, f)
      BY <1>3, <3>1, <3>2, TakesNotes
    <3> QED BY <3>3 DEF HoldsNow
  <2>2. Sane(w.k, w.tab, w.pr, cont) /\ Swapped(k, t, f, w)
    <3>1. S \in SUBSET Pid /\ l \in Lock \cup {NoLock}
      BY <1>2, <1>3 DEF Awaiting
    <3> QED BY <1>4, <2>1, <3>1, SwapKeeps
  <2>3. PICK c2 : c2 = [cont EXCEPT ![p] = InUser]
    OBVIOUS
  <2>4. c2 \in [Pid -> Cont] /\ \A q \in Pid : q # p => c2[q] = cont[q]
    BY <1>2, <2>3, StepFacts
  <2>5. w.k.prstate = k.prstate
    BY <2>2 DEF Swapped
  <2>6. Sane(w.k, w.tab, w.pr, c2)
    <3>1. SchedInv(w.k) /\ w.k.ndefers = 0 /\ Typed(w.tab, w.pr, c2)
          /\ Holders(w.tab, w.pr) /\ OwnKept(w.k, w.pr)
      BY <2>2, <2>4 DEF Sane, Typed
    <3>2. \A q \in Pid : w.k.prstate[q] = "WAIT" => c2[q] = cont[q]
      BY <1>2, <2>4, <2>5
    <3> QED BY <2>2, <3>1, <3>2, SaneStep
  <2>7. ASSUME NEW m \in Lock PROVE Held(w.k, w.tab, w.pr, c2, m)
    <3>1. Held(k, locktab, pr, cont, m)
      BY DEF IInv, AllHeld
    <3>2. w.tab[m].lstate = locktab[m].lstate /\ w.tab[m].queue = locktab[m].queue
      BY <2>1, <2>2 DEF Swapped
    <3>3. \A q \in Pid : w.pr[q].locks = IF q = p THEN pr[q].locks \cup {l} ELSE pr[q].locks
      BY <2>1, <2>2 DEF Swapped
    <3>4. \A q \in Pid : cont[q].op = "lock" /\ cont[q].lock = m /\ k.prstate[q] # "WAIT"
             => (c2[q] = cont[q] /\ w.k.prstate[q] # "WAIT") \/ m \in w.pr[q].locks
      BY <1>1, <1>2, <2>4, <2>5, <3>3
    <3>5. \A q \in Pid : w.tab[m].queue # <<>> /\ cont[q].op = "ldelete" /\ cont[q].lock = m => c2[q] = cont[q]
      BY <1>2, <2>4
    <3>6. \A q \in Pid : m \in pr[q].locks => m \in w.pr[q].locks
      BY <3>3
    <3> QED BY <3>1, <3>2, <3>4, <3>5, <3>6, HeldStep
  <2>8. IInv' <=> Sane(k', locktab', pr', cont') /\ AllHeld(k', locktab', pr', cont')
    BY DEF IInv
  <2> QED BY <1>7, <2>3, <2>6, <2>7, <2>8 DEF AllHeld
<1> QED BY <1>5, <1>6, <1>7

-----------------------------------------------------------------------------
(* Steps that touch neither the lock table nor proctab, and leave whoever  *)
(* waits waiting.                                                          *)
LEMMA SchedStep ==
  ASSUME IInv, SchedInv(k'), k'.ndefers = 0, k'.prprio = k.prprio, UNCHANGED <<locktab, pr>>,
         \A p \in Pid : k'.prstate[p] = "WAIT" <=> k.prstate[p] = "WAIT",
         NEW x \in Cont, cont' = cont \/ (cont[Self].op \notin {"lock", "ldelete"} /\ cont' = [cont EXCEPT ![Self] = x])
  PROVE  IInv'
<1>1. PICK c2 : c2 = cont'
  OBVIOUS
<1>2. /\ c2 \in [Pid -> Cont]
      /\ \A p \in Pid : c2[p] = cont[p] \/ (p = Self /\ cont[p].op \notin {"lock", "ldelete"})
  BY <1>1, StepFacts
<1>3. Sane(k', locktab, pr, c2)
  <2>1. /\ Sane(k, locktab, pr, cont) /\ Typed(locktab, pr, c2)
        /\ Holders(locktab, pr) /\ OwnKept(k', pr)
    BY <1>2 DEF IInv, Sane, Typed, OwnKept
  <2>2. \A p \in Pid : k.prstate[p] = "WAIT" => pr[p].plock = pr[p].plock /\ c2[p] = cont[p]
    BY <1>2, StepFacts
  <2>3. \A l \in Lock : locktab[l].queue = locktab[l].queue
    OBVIOUS
  <2> QED BY <2>1, <2>2, <2>3, SaneStep
<1>4. ASSUME NEW l \in Lock PROVE Held(k', locktab, pr, c2, l)
  <2>1. Held(k, locktab, pr, cont, l)
    BY DEF IInv, AllHeld
  <2>2. \A p \in Pid : cont[p].op = "lock" /\ cont[p].lock = l /\ k.prstate[p] # "WAIT"
            => (c2[p] = cont[p] /\ k'.prstate[p] # "WAIT") \/ l \in pr[p].locks
    BY <1>2
  <2>3. \A p \in Pid : locktab[l].queue # <<>> /\ cont[p].op = "ldelete" /\ cont[p].lock = l => c2[p] = cont[p]
    BY <1>2
  <2> QED BY <2>1, <2>2, <2>3, HeldStep
<1>5. Sane(k', locktab', pr', cont') /\ AllHeld(k', locktab', pr', cont')
  BY <1>1, <1>3, <1>4 DEF AllHeld
<1> QED BY <1>5 DEF IInv

(* The CPU may change hands. *)
LEMMA ReschedStays ==
  ASSUME NEW kk, SchedInv(kk), kk.ndefers = 0, NEW m, m = Resched(kk) \/ m = Tick(kk)
  PROVE  /\ SchedInv(m) /\ m.ndefers = 0 /\ m.prprio = kk.prprio
         /\ \A p \in Pid : m.prstate[p] = "WAIT" <=> kk.prstate[p] = "WAIT"
<1>1. SchedInv(m) /\ SameButRunning(kk, m)
  <2>1. SchedPre(kk)
    BY DEF SchedInv
  <2>2. m = Resched(kk) => SchedInv(m) /\ SameButRunning(kk, m)
    BY <2>1, ReschedInv
  <2>3. m = Tick(kk) => SchedInv(m) /\ SameButRunning(kk, m)
    BY TickInv
  <2> QED BY <2>2, <2>3
<1> QED BY <1>1 DEF SameButRunning

LEMMA ContIn == ASSUME NEW o \in {"user", "lock", "release", "grant", "ldelete"}, NEW l \in Lock, NEW t \in Seq(Lock)
                PROVE  [op |-> o, lock |-> l, todo |-> t] \in Cont
BY DEF Cont

LEMMA ReleaseallStep == ASSUME IInv, NEW ls \in Releases, Releaseall(ls) PROVE IInv'
<1>1. PICK x : x = [op |-> "release", lock |-> 0, todo |-> ls]
  OBVIOUS
<1>2. x \in Cont
  BY <1>1, ContIn, LockFacts
<1>3. /\ cont[Self] = InUser /\ cont' = [cont EXCEPT ![Self] = x] /\ k' = k /\ UNCHANGED <<locktab, pr>>
  BY <1>1 DEF Releaseall, Calling, Goto, lockvars
<1>4. cont[Self].op \notin {"lock", "ldelete"}
  BY <1>3, StepFacts
<1>5. SchedInv(k') /\ k'.ndefers = 0
  BY <1>3, StepFacts
<1> QED BY <1>2, <1>3, <1>4, <1>5, SchedStep

LEMMA ReleaseEndsStep == ASSUME IInv, ReleaseEnds PROVE IInv'
<1>1. /\ k' = Resched(k) /\ cont' = [cont EXCEPT ![Self] = InUser] /\ UNCHANGED <<locktab, pr>>
      /\ cont[Self].op = "release" /\ InUser \in Cont
  BY StepFacts DEF ReleaseEnds, Continuing, Return, lockvars
<1>2. /\ SchedInv(k') /\ k'.ndefers = 0 /\ k'.prprio = k.prprio
      /\ \A p \in Pid : k'.prstate[p] = "WAIT" <=> k.prstate[p] = "WAIT"
  BY <1>1, StepFacts, ReschedStays
<1>3. cont[Self].op \notin {"lock", "ldelete"}
  BY <1>1
<1> QED BY <1>1, <1>2, <1>3, SchedStep

LEMMA ClockStep == ASSUME IInv, ClockTick PROVE IInv'
<1>1. k' = Tick(k) /\ UNCHANGED cont /\ UNCHANGED <<locktab, pr>> /\ InUser \in Cont
  BY StepFacts DEF ClockTick, lockvars
<1>2. /\ SchedInv(k') /\ k'.ndefers = 0 /\ k'.prprio = k.prprio
      /\ \A p \in Pid : k'.prstate[p] = "WAIT" <=> k.prstate[p] = "WAIT"
  BY <1>1, StepFacts, ReschedStays
<1> QED BY <1>1, <1>2, SchedStep

LEMMA ResumeStep == ASSUME IInv, NEW p \in UserPid, Resume(p) PROVE IInv'
<1>1. /\ k' = Ready(k, p) /\ UNCHANGED cont /\ UNCHANGED <<locktab, pr>> /\ InUser \in Cont
      /\ p \in Pid /\ k.prstate[p] = "SUSP"
  BY StepFacts, LockFacts DEF Resume, lockvars
<1>2. /\ SchedInv(k') /\ k'.ndefers = k.ndefers /\ k'.prprio = k.prprio
      /\ k'.prstate[p] \in {"CURR", "READY"}
      /\ \A x \in Pid \ {p} :
           IF k.prstate[x] \in {"CURR", "READY"}
           THEN k'.prstate[x] \in {"CURR", "READY"}
           ELSE k'.prstate[x] = k.prstate[x]
  BY <1>1, StepFacts, ReadyInv
<1>3. \A x \in Pid : k'.prstate[x] = "WAIT" <=> k.prstate[x] = "WAIT"
  BY <1>1, <1>2
<1>4. k'.ndefers = 0
  BY <1>2, StepFacts
<1> QED BY <1>1, <1>2, <1>3, <1>4, SchedStep

LEMMA LcreateStep == ASSUME IInv, Lcreate PROVE IInv'
<1>1. PICK l \in Lock : /\ NewLock(l)
                        /\ locktab' = [locktab EXCEPT ![l].lstate = "LUSED", ![l].lprio = -1, ![l].plist = {}]
  BY DEF Lcreate
<1>2. UNCHANGED <<k, pr, cont>>
  BY DEF Lcreate
<1>3. PICK t : t = locktab'
  OBVIOUS
<1>4. locktab[l].lstate = "LFREE"
  BY <1>1 DEF NewLock
<1>5. ASSUME NEW m \in Lock
      PROVE  /\ t[m] \in LockEntry /\ t[m].queue = locktab[m].queue
             /\ t[m].lstate = IF m = l THEN "LUSED" ELSE locktab[m].lstate
             /\ t[m].plist = IF m = l THEN {} ELSE locktab[m].plist
  <2>1. PICK e : e = locktab[m] /\ e \in LockEntry
    BY StepFacts
  <2>2. CASE m = l
    <3>1. PICK n \in Int : n = -1
      OBVIOUS
    <3>2. PICK none : none = {}
      OBVIOUS
    <3>3. t[m] = [e EXCEPT !.lstate = "LUSED", !.lprio = n, !.plist = none]
      BY <1>1, <1>3, <2>1, <2>2, <3>1, <3>2, StepFacts
    <3>4. none \in SUBSET Pid
      BY <3>2
    <3> QED BY <2>1, <2>2, <3>2, <3>3, <3>4 DEF LockEntry
  <2>3. CASE m # l
    <3>1. t[m] = e
      BY <1>1, <1>3, <2>1, <2>3, StepFacts
    <3> QED BY <2>1, <2>3, <3>1
  <2> QED BY <2>2, <2>3
<1>6. t \in [Lock -> LockEntry]
  BY <1>1, <1>3, <1>5, StepFacts
<1>7. Sane(k, t, pr, cont)
  <2>1. Sane(k, locktab, pr, cont)
    BY DEF IInv
  <2>2. /\ SchedInv(k) /\ k.ndefers = 0 /\ Typed(t, pr, cont) /\ Holders(t, pr) /\ OwnKept(k, pr)
    BY <1>5, <1>6, <2>1 DEF Sane, Typed, Holders
  <2>3. \A m \in Lock : t[m].queue = locktab[m].queue
    BY <1>5
  <2> QED BY <2>1, <2>2, <2>3, SaneStep
<1>8. ASSUME NEW m \in Lock PROVE Held(k, t, pr, cont, m)
  <2>1. Held(k, locktab, pr, cont, m)
    BY DEF IInv, AllHeld
  <2>2. CASE m = l
    BY <1>4, <1>5, <2>1, <2>2 DEF Held, Locked
  <2>3. CASE m # l
    BY <1>5, <2>1, <2>3 DEF Held
  <2> QED BY <2>2, <2>3
<1>9. Sane(k', locktab', pr', cont') /\ AllHeld(k', locktab', pr', cont')
  BY <1>2, <1>3, <1>7, <1>8 DEF AllHeld
<1> QED BY <1>9 DEF IInv

-----------------------------------------------------------------------------
(* lock(): at once, or waiting. *)
LEMMA LockqPosIn ==
  ASSUME IInv, NEW q \in Seq(Pid), NEW key \in Nat
  PROVE  LockqPos(q, key) \in 1 .. Len(q) + 1
<1> DEFINE Fits(i) == /\ \A j \in 1 .. i - 1 : pr[q[j]].type = "READ" /\ pr[q[j]].key >= key
                      /\ i <= Len(q) => pr[q[i]].type = "WRITE" \/ pr[q[i]].key < key
<1>1. PICK n : n = Len(q) /\ n \in Nat
  OBVIOUS
<1>2. PICK B : B = {i \in 1 .. n : pr[q[i]].type = "WRITE" \/ pr[q[i]].key < key}
  OBVIOUS
<1>3. ASSUME NEW j \in 1 .. n, j \notin B PROVE pr[q[j]].type = "READ" /\ pr[q[j]].key >= key
  <2>1. q[j] \in Pid
    BY <1>1
  <2>2. pr[q[j]].type \in {"READ", "WRITE"} /\ pr[q[j]].key \in Nat
    BY <2>1, StepFacts DEF PrEntry
  <2> QED BY <1>2, <1>3, <2>2
<1>4. \E i \in 1 .. n + 1 : Fits(i)
  <2>1. CASE B = {}
    <3>1. \A j \in 1 .. n : pr[q[j]].type = "READ" /\ pr[q[j]].key >= key
      BY <1>3, <2>1
    <3>2. n + 1 \in 1 .. n + 1 /\ ~(n + 1 <= n) /\ (n + 1) - 1 = n
      BY <1>1
    <3>3. Fits(n + 1)
      BY <1>1, <3>1, <3>2
    <3> QED BY <3>2, <3>3
  <2>2. CASE B # {}
    <3>1. B \in SUBSET Nat
      BY <1>1, <1>2
    <3>2. PICK b \in B : \A i \in B : b <= i
      BY <2>2, <3>1, Smallest
    <3>3. b \in 1 .. n /\ (pr[q[b]].type = "WRITE" \/ pr[q[b]].key < key)
      BY <1>2
    <3>4. \A j \in 1 .. b - 1 : j \in 1 .. n /\ j \notin B
      BY <1>1, <3>2, <3>3
    <3>5. Fits(b)
      BY <1>3, <3>3, <3>4
    <3>6. b \in 1 .. n + 1
      BY <1>1, <3>3
    <3> QED BY <3>5, <3>6
  <2> QED BY <2>1, <2>2
<1>5. LockqPos(q, key) = CHOOSE i \in 1 .. n + 1 : Fits(i)
  BY <1>1 DEF LockqPos
<1> HIDE DEF Fits
<1> QED BY <1>1, <1>4, <1>5

LEMMA AtOnceStep ==
  ASSUME IInv, NEW l \in Lock, NEW type \in {"READ", "WRITE"}, LockAtOnce(l, type)
  PROVE  IInv'
<1>1. PICK p, s : p = Self /\ s = IF type = "READ" THEN "READ_LOCKED" ELSE "WRITE_LOCKED"
  OBVIOUS
<1>2. p \in Pid /\ s \in Locked /\ s \in {"LFREE", "LUSED"} \cup Locked /\ Sane(k, locktab, pr, cont)
  BY <1>1, StepFacts DEF Locked, IInv
<1>3. PICK t, f : t = Takes(locktab, l, p) /\ f = Noted(pr, l, p)
  OBVIOUS
<1>4. HoldsNow(k, locktab, pr, cont, l, p, t, f)
  BY <1>2, <1>3, TakesNotes
<1>5. PICK t2 : t2 = [t EXCEPT ![l].lstate = s]
  OBVIOUS
<1>6. locktab' = t2 /\ pr' = f /\ UNCHANGED <<k, cont>>
  BY <1>1, <1>3, <1>5 DEF LockAtOnce
<1>7. Sane(k, t, f, cont) /\ t \in [Lock -> LockEntry]
  BY <1>4 DEF HoldsNow, Sane, Typed
<1>8. ASSUME NEW m \in Lock
      PROVE  /\ t2[m] \in LockEntry /\ t2[m].queue = t[m].queue /\ t2[m].plist = t[m].plist
             /\ t2[m].lstate = IF m = l THEN s ELSE t[m].lstate
  BY <1>2, <1>5, <1>7 DEF LockEntry
<1>9. t2 \in [Lock -> LockEntry]
  BY <1>5, <1>7, <1>8
<1>10. Sane(k, t2, f, cont)
  <2>1. /\ SchedInv(k) /\ k.ndefers = 0 /\ Typed(t2, f, cont) /\ Holders(t2, f) /\ OwnKept(k, f)
    BY <1>7, <1>8, <1>9 DEF Sane, Typed, Holders
  <2>2. \A m \in Lock : t2[m].queue = t[m].queue
    BY <1>8
  <2> QED BY <1>7, <2>1, <2>2, SaneStep
<1>11. ASSUME NEW m \in Lock PROVE Held(k, t2, f, cont, m)
  <2>1. Held(k, locktab, pr, cont, m)
    BY DEF IInv, AllHeld
  <2>2. /\ \A q \in Pid : f[q].locks = IF q = p THEN pr[q].locks \cup {l} ELSE pr[q].locks
        /\ t[m].lstate = locktab[m].lstate /\ t[m].queue = locktab[m].queue
    BY <1>4 DEF HoldsNow
  <2>3. CASE m = l
    <3>1. l \in f[p].locks
      BY <1>2, <2>2
    <3>2. Going(k, f, cont, l)
      BY <1>2, <3>1 DEF Going
    <3> QED BY <1>2, <1>8, <2>3, <3>2 DEF Held
  <2>4. CASE m # l
    <3>1. t2[m].lstate = locktab[m].lstate /\ t2[m].queue = locktab[m].queue
      BY <1>8, <2>2, <2>4
    <3>2. Going(k, pr, cont, m) => Going(k, f, cont, m)
      BY <2>2 DEF Going
    <3> QED BY <2>1, <3>1, <3>2 DEF Held
  <2> QED BY <2>3, <2>4
<1>12. Sane(k', locktab', pr', cont') /\ AllHeld(k', locktab', pr', cont')
  BY <1>6, <1>10, <1>11 DEF AllHeld
<1> QED BY <1>12 DEF IInv

LEMMA WaitLockStep ==
  ASSUME IInv, NEW l \in Lock, NEW type \in {"READ", "WRITE"}, NEW prio \in Nat,
         locktab[l].lstate \in Locked, Self # NULLPROC, cont[Self] = InUser, WaitLock(l, type, prio)
  PROVE  IInv'
<1>1. PICK p : p = Self
  OBVIOUS
<1>2. /\ p \in Pid /\ p = k.currpid /\ p # NULLPROC /\ k.prstate[p] = "CURR" /\ cont[p].op = "user"
      /\ cont \in [Pid -> Cont] /\ Sane(k, locktab, pr, cont)
  BY <1>1, StepFacts DEF IInv
<1>3. PICK a, b : /\ a = IF type = "WRITE" /\ prio > locktab[l].maxWritePrio THEN prio ELSE locktab[l].maxWritePrio
                  /\ b = Max({locktab[l].lprio, k.prprio[p]})
  OBVIOUS
<1>4. a \in Int /\ b \in Int
  <2>1. locktab[l] \in LockEntry /\ k.prprio[p] \in Nat
    BY <1>2, SaneFacts
  <2>2. PICK x, y : x = locktab[l].lprio /\ y = k.prprio[p] /\ x \in Int /\ y \in Int
    BY <2>1 DEF LockEntry
  <2>3. PICK e \in Int : x <= e /\ y <= e
    <3>1. x <= y \/ y <= x
      BY <2>2
    <3> QED BY <2>2, <3>1
  <2>4. {x, y} \in SUBSET Int /\ {x, y} # {} /\ \A z \in {x, y} : z <= e
    BY <2>2, <2>3
  <2>5. Max({x, y}) \in Int
    BY <2>4, MaxOf
  <2> QED BY <1>3, <2>1, <2>2, <2>5 DEF LockEntry
<1>5. PICK t, f : t = [locktab EXCEPT ![l].maxWritePrio = a, ![l].lprio = b] /\ f = [pr EXCEPT ![p].plock = l]
  OBVIOUS
<1>6. PICK w : w = SwapPriority(k, t, f, l, {p})
  OBVIOUS
<1>7. \/ UNCHANGED <<k, locktab, pr, cont>>
      \/ /\ locktab' = [w.tab EXCEPT ![l].queue = InsertAt(@, LockqPos(@, prio), p)]
         /\ pr' = [w.pr EXCEPT ![p].pwaitret = "OK", ![p].type = type, ![p].key = prio]
         /\ k' = Block(w.k, "WAIT")
         /\ cont' = [cont EXCEPT ![p] = [op |-> "lock", lock |-> l, todo |-> <<>>]]
  <2>1. t = [locktab EXCEPT ![l].maxWritePrio = IF type = "WRITE" /\ prio > @ THEN prio ELSE @,
                            ![l].lprio = Max({@, k.prprio[Self]})]
    BY <1>1, <1>3, <1>5
  <2>2. f = [pr EXCEPT ![Self].plock = l]
    BY <1>1, <1>5
  <2> QED BY <1>1, <1>6, <2>1, <2>2 DEF WaitLock, Inherit, Goto
<1>8. CASE UNCHANGED <<k, locktab, pr, cont>>
  BY <1>8, SameStep
<1>9. CASE /\ locktab' = [w.tab EXCEPT ![l].queue = InsertAt(@, LockqPos(@, prio), p)]
           /\ pr' = [w.pr EXCEPT ![p].pwaitret = "OK", ![p].type = type, ![p].key = prio]
           /\ k' = Block(w.k, "WAIT")
           /\ cont' = [cont EXCEPT ![p] = [op |-> "lock", lock |-> l, todo |-> <<>>]]
  <2>1. Sane(k, t, f, cont) /\ \A m \in Lock : /\ t[m].queue = locktab[m].queue
                                                /\ t[m].lstate = locktab[m].lstate
        /\ \A q \in Pid : f[q].locks = pr[q].locks /\ f[q].plock = IF q = p THEN l ELSE pr[q].plock
    <3>1. ASSUME NEW m \in Lock
          PROVE  /\ t[m] \in LockEntry /\ t[m].queue = locktab[m].queue
                 /\ t[m].lstate = locktab[m].lstate /\ t[m].plist = locktab[m].plist
      <4>1. PICK e : e = locktab[m] /\ e \in LockEntry
        BY StepFacts
      <4>2. t[m] = IF m = l THEN [e EXCEPT !.maxWritePrio = a, !.lprio = b] ELSE e
        BY <1>5, <4>1, StepFacts
      <4>3. /\ t[m] \in LockEntry /\ t[m].queue = e.queue
            /\ t[m].lstate = e.lstate /\ t[m].plist = e.plist
        BY ONLY <1>4, <4>1, <4>2 DEF LockEntry
      <4> QED BY <4>1, <4>3
    <3>2. ASSUME NEW q \in Pid
          PROVE  /\ f[q] \in PrEntry /\ f[q].locks = pr[q].locks
                 /\ f[q].changed = pr[q].changed /\ f[q].oprio = pr[q].oprio /\ f[q].own = pr[q].own
                 /\ f[q].plock = IF q = p THEN l ELSE pr[q].plock
      <4>1. PICK e : e = pr[q] /\ e \in PrEntry
        BY StepFacts
      <4>2. f[q] = IF q = p THEN [e EXCEPT !.plock = l] ELSE e
        BY <1>2, <1>5, <4>1, StepFacts
      <4> QED BY <4>1, <4>2 DEF PrEntry
    <3>3. t \in [Lock -> LockEntry] /\ f \in [Pid -> PrEntry]
      BY <1>2, <1>5, <3>1, <3>2, StepFacts
    <3>4. /\ SchedInv(k) /\ k.ndefers = 0 /\ Typed(t, f, cont) /\ Holders(t, f) /\ OwnKept(k, f)
      BY <1>2, <3>1, <3>2, <3>3 DEF Sane, Typed, Holders, OwnKept, Own
    <3>5. \A q \in Pid : k.prstate[q] = "WAIT" => f[q].plock = pr[q].plock /\ cont[q] = cont[q]
      BY <1>2, <3>2
    <3>6. Sane(k, t, f, cont)
      BY <1>2, <3>1, <3>4, <3>5, SaneStep
    <3> QED BY <3>1, <3>2, <3>6
  <2>2. Sane(w.k, w.tab, w.pr, cont) /\ Swapped(k, t, f, w)
    BY <1>2, <1>6, <2>1, SwapKeeps
  <2>3. /\ w.k.prstate = k.prstate /\ w.k.currpid = p
        /\ \A m \in Lock : w.tab[m].queue = locktab[m].queue /\ w.tab[m].lstate = locktab[m].lstate
        /\ \A q \in Pid : w.pr[q].locks = pr[q].locks /\ w.pr[q].plock = IF q = p THEN l ELSE pr[q].plock
    BY <1>2, <2>1, <2>2 DEF Swapped
  <2>4. PICK m2, t2, f2, c2 : m2 = k' /\ t2 = locktab' /\ f2 = pr' /\ c2 = cont'
    OBVIOUS
  <2>5. PICK u, g, kk : u = w.tab /\ g = w.pr /\ kk = w.k
    OBVIOUS
  <2>6. u \in [Lock -> LockEntry] /\ g \in [Pid -> PrEntry] /\ SchedInv(kk) /\ kk.ndefers = 0
    BY <2>2, <2>5 DEF Sane, Typed
  <2>7. PICK q : q = InsertAt(u[l].queue, LockqPos(u[l].queue, prio), p)
    OBVIOUS
  <2>8. /\ \A x \in Pid, m \in Lock : InQ(u[m].queue, x) <=> k.prstate[x] = "WAIT" /\ g[x].plock = m
        /\ \A m \in Lock : Once(u[m].queue)
    BY <2>2, <2>3, <2>5 DEF Sane, Waiters
  <2>9. q \in Seq(Pid) /\ Once(q) /\ \A y : InQ(q, y) <=> InQ(u[l].queue, y) \/ y = p
    <3>1. u[l].queue \in Seq(Pid) /\ ~InQ(u[l].queue, p) /\ Once(u[l].queue)
      BY <1>2, <2>6, <2>8 DEF LockEntry
    <3>2. LockqPos(u[l].queue, prio) \in 1 .. Len(u[l].queue) + 1
      BY <3>1, LockqPosIn
    <3> QED BY <1>2, <2>7, <3>1, <3>2, InsertAtQ
  <2>10. ASSUME NEW m \in Lock
         PROVE  /\ t2[m] \in LockEntry /\ t2[m].plist = u[m].plist /\ t2[m].lstate = u[m].lstate
                /\ t2[m].queue = IF m = l THEN q ELSE u[m].queue
    <3>1. t2 = [u EXCEPT ![l].queue = q]
      BY <1>9, <2>4, <2>5, <2>6, <2>7
    <3> QED BY <2>6, <2>9, <3>1 DEF LockEntry
  <2>11. ASSUME NEW x \in Pid
         PROVE  /\ f2[x] \in PrEntry /\ f2[x].locks = g[x].locks /\ f2[x].plock = g[x].plock
                /\ f2[x].changed = g[x].changed /\ f2[x].oprio = g[x].oprio /\ f2[x].own = g[x].own
    <3>1. PICK e : e = g[x] /\ e \in PrEntry
      BY <2>6
    <3>2. PICK d : d = [e EXCEPT !.pwaitret = "OK", !.type = type, !.key = prio]
      OBVIOUS
    <3>3. f2[x] = IF x = p THEN d ELSE e
      BY <1>2, <1>9, <2>4, <2>5, <2>6, <3>1, <3>2
    <3>4. PICK r \in {"OK"}, n \in Int : r = "OK" /\ n = prio
      OBVIOUS
    <3>5. d = [e EXCEPT !.pwaitret = r, !.type = type, !.key = n]
      BY <3>2, <3>4
    <3>6. d \in PrEntry
      BY <3>1, <3>4, <3>5 DEF PrEntry
    <3>7. d.locks = e.locks /\ d.plock = e.plock /\ d.changed = e.changed /\ d.oprio = e.oprio /\ d.own = e.own
      BY <3>1, <3>5 DEF PrEntry
    <3> QED BY <3>1, <3>3, <3>6, <3>7
  <2>12. c2 \in [Pid -> Cont] /\ c2[p].op = "lock" /\ c2[p].lock = l
         /\ \A x \in Pid : x # p => c2[x] = cont[x]
    <3>1. PICK e, x : e = <<>> /\ x = [op |-> "lock", lock |-> l, todo |-> e]
      OBVIOUS
    <3>2. e \in Seq(Lock)
      BY <3>1
    <3>3. x \in Cont /\ x.op = "lock" /\ x.lock = l
      BY <3>1, <3>2, ContIn
    <3>4. c2 = [cont EXCEPT ![p] = x]
      BY <1>9, <2>4, <3>1
    <3> QED BY <1>2, <3>3, <3>4
  <2>13. /\ SchedInv(m2) /\ m2.ndefers = 0 /\ m2.prprio = kk.prprio /\ m2.prstate[p] = "WAIT"
         /\ \A x \in Pid : x # p => (m2.prstate[x] = "WAIT" <=> k.prstate[x] = "WAIT")
    <3>1. "WAIT" \in PrState \ {"CURR", "READY"}
      BY DEF PrState
    <3>2. kk.currpid = p /\ kk.currpid # NULLPROC /\ kk.prstate = k.prstate /\ m2 = Block(kk, "WAIT")
      BY <1>2, <1>9, <2>3, <2>4, <2>5
    <3>3. /\ SchedInv(m2) /\ m2.prprio = kk.prprio /\ m2.ndefers = kk.ndefers /\ m2.prstate[kk.currpid] = "WAIT"
          /\ \A x \in Pid \ {kk.currpid} :
              IF kk.prstate[x] = "READY"
              THEN m2.prstate[x] \in {"CURR", "READY"}
              ELSE m2.prstate[x] = kk.prstate[x]
      BY <2>6, <3>1, <3>2, BlockInv
    <3> QED BY <2>6, <3>2, <3>3
  <2>14. Sane(m2, t2, f2, c2)
    <3>1. t2 \in [Lock -> LockEntry] /\ f2 \in [Pid -> PrEntry]
      <4>1. t2 = [m \in Lock |-> t2[m]] /\ f2 = [x \in Pid |-> f2[x]]
        BY <1>9, <2>4, <2>5, <2>6
      <4> QED BY <2>10, <2>11, <4>1
    <3>2. Typed(t2, f2, c2) /\ Holders(t2, f2) /\ OwnKept(m2, f2)
      <4>1. Holders(u, g) /\ OwnKept(kk, g)
        BY <2>2, <2>5 DEF Sane
      <4> QED BY <2>10, <2>11, <2>12, <2>13, <3>1, <4>1 DEF Typed, Holders, OwnKept, Own
    <3>3. ASSUME NEW x \in Pid, NEW m \in Lock
          PROVE  InQ(t2[m].queue, x) <=> m2.prstate[x] = "WAIT" /\ f2[x].plock = m
      <4>1. CASE x = p
        <5>1. f2[p].plock = l /\ ~InQ(u[m].queue, p)
          BY <1>2, <2>3, <2>5, <2>8, <2>11
        <5> QED BY <2>9, <2>10, <2>13, <4>1, <5>1
      <4>2. CASE x # p
        <5>1. InQ(t2[m].queue, x) <=> InQ(u[m].queue, x)
          BY <2>9, <2>10, <4>2
        <5> QED BY <2>8, <2>11, <2>13, <4>2, <5>1
      <4> QED BY <4>1, <4>2
    <3>4. Waiters(m2, t2, f2)
      BY <2>8, <2>9, <2>10, <3>3 DEF Waiters
    <3>5. Known(m2, f2, c2)
      <4>1. ASSUME NEW x \in Pid, m2.prstate[x] = "WAIT" PROVE c2[x].op = "lock" /\ c2[x].lock = f2[x].plock
        <5>1. CASE x = p
          BY <2>3, <2>5, <2>11, <2>12, <5>1
        <5>2. CASE x # p
          <6>1. Known(k, pr, cont)
            BY <1>2 DEF Sane
          <6> QED BY <2>3, <2>5, <2>11, <2>12, <2>13, <4>1, <5>2, <6>1 DEF Known
        <5> QED BY <5>1, <5>2
      <4> QED BY <4>1 DEF Known
    <3> QED BY <2>13, <3>2, <3>4, <3>5 DEF Sane
  <2>15. ASSUME NEW m \in Lock PROVE Held(m2, t2, f2, c2, m)
    <3>1. Held(k, locktab, pr, cont, m)
      BY DEF IInv, AllHeld
    <3>2. /\ t2[m].lstate = locktab[m].lstate
          /\ t2[m].queue = IF m = l THEN q ELSE locktab[m].queue
          /\ \A x \in Pid : f2[x].locks = pr[x].locks
      <4>1. u[m].lstate = locktab[m].lstate /\ u[m].queue = locktab[m].queue
        BY <2>3, <2>5
      <4>2. \A x \in Pid : g[x].locks = pr[x].locks
        BY <2>3, <2>5
      <4>3. \A x \in Pid : f2[x].locks = g[x].locks
        BY <2>11
      <4>4. t2[m].lstate = u[m].lstate /\ t2[m].queue = IF m = l THEN q ELSE u[m].queue
        BY <2>10
      <4>5. t2[m].lstate = locktab[m].lstate
        BY <4>1, <4>4
      <4>6. t2[m].queue = IF m = l THEN q ELSE locktab[m].queue
        BY <4>1, <4>4
      <4>7. \A x \in Pid : f2[x].locks = pr[x].locks
        BY <4>2, <4>3
      <4> QED BY <4>5, <4>6, <4>7
    <3>3. Going(k, pr, cont, m) => Going(m2, f2, c2, m)
      <4>1. ASSUME NEW x \in Pid, cont[x].op = "lock", cont[x].lock = m, k.prstate[x] # "WAIT"
            PROVE  c2[x] = cont[x] /\ m2.prstate[x] # "WAIT"
        BY <1>2, <2>12, <2>13, <4>1
      <4>2. ASSUME NEW x \in Pid, m \in pr[x].locks \/ (cont[x].op = "lock" /\ cont[x].lock = m /\ k.prstate[x] # "WAIT")
            PROVE  m \in f2[x].locks \/ (c2[x].op = "lock" /\ c2[x].lock = m /\ m2.prstate[x] # "WAIT")
        <5>1. f2[x].locks = pr[x].locks
          BY <3>2
        <5>2. CASE m \in pr[x].locks
          BY <5>1, <5>2
        <5>3. CASE cont[x].op = "lock" /\ cont[x].lock = m /\ k.prstate[x] # "WAIT"
          BY <4>1, <5>3
        <5> QED BY <4>2, <5>2, <5>3
      <4> QED BY <4>2 DEF Going
    <3>4. Deleted(cont, m) => Deleted(c2, m)
      BY <1>2, <2>12 DEF Deleted
    <3>5. locktab[l].lstate \in Locked
      OBVIOUS
    <3>6. CASE m = l
      BY <3>1, <3>2, <3>3, <3>5, <3>6 DEF Held
    <3>7. CASE m # l
      <4>1. t2[m].queue = locktab[m].queue /\ t2[m].lstate = locktab[m].lstate
        BY <3>2, <3>7
      <4> QED BY <3>1, <3>3, <3>4, <4>1 DEF Held
    <3> QED BY <3>6, <3>7
  <2>16. Sane(k', locktab', pr', cont') /\ AllHeld(k', locktab', pr', cont')
    BY <2>4, <2>14, <2>15 DEF AllHeld
  <2> QED BY <2>16 DEF IInv
<1> QED BY <1>7, <1>8, <1>9

LEMMA LockStep ==
  ASSUME IInv, NEW l \in Lock, NEW type \in {"READ", "WRITE"}, NEW prio \in LockPrios, LockCall(l, type, prio)
  PROVE  IInv'
<1>1. prio \in Nat
  BY LockFacts
<1>2. CASE Available(l, type, prio)
  <2>1. LockAtOnce(l, type)
    BY <1>2 DEF LockCall
  <2> QED BY <2>1, AtOnceStep
<1>3. CASE ~Available(l, type, prio)
  <2>1. WaitLock(l, type, prio) /\ Self # NULLPROC /\ cont[Self] = InUser
    BY <1>3 DEF LockCall, Calling
  <2>2. locktab[l].lstate \in Locked
    <3>1. locktab[l].lstate \in {"LFREE", "LUSED"} \cup Locked
      BY StepFacts DEF LockEntry
    <3>2. locktab[l].lstate # "LFREE" /\ locktab[l].lstate # "LUSED"
      BY <1>3 DEF LockCall, Available
    <3> QED BY <3>1, <3>2
  <2> QED BY <1>1, <2>1, <2>2, WaitLockStep
<1> QED BY <1>2, <1>3

-----------------------------------------------------------------------------
(* releaseall(). *)

(* resetPrio() leaves queues and locks alone. *)
LEMMA ResetKeeps ==
  ASSUME IInv, NEW p \in Pid, k.prstate[p] # "WAIT", NEW r, r = ResetPrio(k, pr, p)
  PROVE  /\ Sane(r.k, locktab, r.pr, cont)
         /\ r.k.prstate = k.prstate /\ r.k.currpid = k.currpid
         /\ \A q \in Pid : r.pr[q].locks = pr[q].locks
<1>1. Sane(k, locktab, pr, cont) /\ pr \in [Pid -> PrEntry] /\ SchedInv(k) /\ k.ndefers = 0
  BY StepFacts DEF IInv
<1>2. CASE ~pr[p].changed
  <2>1. r = [k |-> k, pr |-> pr]
    BY <1>2 DEF ResetPrio
  <2>2. r.k = k /\ r.pr = pr
    BY <2>1
  <2> QED BY <1>1, <2>2
<1>3. CASE pr[p].changed /\ pr[p].nlocks = 0
  <2>1. PICK n \in Nat : n = pr[p].oprio
    BY <1>1 DEF PrEntry
  <2>2. PICK m, f : m = [k EXCEPT !.prprio[p] = n] /\ f = [pr EXCEPT ![p].oprio = 0, ![p].changed = FALSE, ![p].plock = NoLock]
    OBVIOUS
  <2>3. r = [k |-> m, pr |-> f]
    BY <1>3, <2>1, <2>2 DEF ResetPrio
  <2>4. r.k = m /\ r.pr = f
    BY <2>3
  <2>5. SchedInv(m) /\ m.prstate = k.prstate /\ m.ndefers = k.ndefers
    BY <1>1, <2>2, SetPrioInv
  <2>6. m.currpid = k.currpid /\ \A q \in Pid : q # p => m.prprio[q] = k.prprio[q]
    BY <1>1, <2>2 DEF SchedInv, SchedPre, SchedType
  <2>7. ASSUME NEW q \in Pid
        PROVE  /\ f[q] \in PrEntry /\ f[q].locks = pr[q].locks
               /\ q # p => f[q] = pr[q]
               /\ q = p => f[q].changed = FALSE /\ f[q].own = pr[q].own
    <3>1. PICK e : e = pr[q] /\ e \in PrEntry
      BY <1>1
    <3>2. CASE q = p
      <4>1. f[q] = [e EXCEPT !.oprio = 0, !.changed = FALSE, !.plock = NoLock]
        BY <1>1, <2>2, <3>1, <3>2
      <4>2. PICK y, b, z : y = NoLock /\ b = FALSE /\ z = 0
        OBVIOUS
      <4>3. y \in Lock \cup {NoLock} /\ b \in BOOLEAN /\ z \in Nat
        BY <4>2
      <4>4. f[q] = [e EXCEPT !.oprio = z, !.changed = b, !.plock = y]
        BY <4>1, <4>2
      <4>5. f[q] \in PrEntry /\ f[q].locks = e.locks /\ f[q].changed = b /\ f[q].own = e.own
        BY <3>1, <4>3, <4>4 DEF PrEntry
      <4> QED BY <3>1, <3>2, <4>2, <4>5
    <3>3. CASE q # p
      BY <1>1, <2>2, <3>1, <3>3
    <3> QED BY <3>2, <3>3
  <2>8. f \in [Pid -> PrEntry]
    BY <1>1, <2>2, <2>7
  <2>9. /\ Typed(locktab, f, cont) /\ Holders(locktab, f) /\ OwnKept(m, f)
    <3>1. Typed(locktab, f, cont) /\ Holders(locktab, f)
      BY <1>1, <2>7, <2>8 DEF Sane, Typed, Holders
    <3>2. ASSUME NEW q \in Pid PROVE Own(m.prprio[q], f[q])
      <4>1. Own(k.prprio[q], pr[q])
        BY <1>1 DEF Sane, OwnKept
      <4>2. CASE q = p
        <5>1. m.prprio[p] = n
          BY <1>1, <2>2 DEF SchedInv, SchedPre, SchedType
        <5> QED BY <1>3, <2>1, <2>7, <4>1, <4>2, <5>1 DEF Own
      <4>3. CASE q # p
        BY <2>6, <2>7, <4>1, <4>3
      <4> QED BY <4>2, <4>3
    <3> QED BY <3>1, <3>2 DEF OwnKept
  <2>10. /\ \A q \in Pid : m.prstate[q] = "WAIT" <=> k.prstate[q] = "WAIT"
         /\ \A q \in Pid : k.prstate[q] = "WAIT" => f[q].plock = pr[q].plock /\ cont[q] = cont[q]
         /\ \A l \in Lock : locktab[l].queue = locktab[l].queue
    BY <2>5, <2>7
  <2>11. Sane(m, locktab, f, cont)
    BY <1>1, <2>5, <2>9, <2>10, SaneStep
  <2> QED BY <2>4, <2>5, <2>6, <2>7, <2>11
<1>4. CASE pr[p].changed /\ pr[p].nlocks # 0
  <2>1. PICK x \in Nat : x = k.prprio[p]
    BY <1>1, SaneFacts
  <2>2. PICK T : T = {x} \cup {locktab[m].lprio : m \in {n \in Lock : p \in locktab[n].plist}}
    OBVIOUS
  <2>3. PICK n : n = Max(T)
    OBVIOUS
  <2>4. n \in Nat /\ n >= x
    <3>1. PICK lprio : lprio = [m \in Lock |-> locktab[m].lprio]
      OBVIOUS
    <3>2. lprio \in [Lock -> Int]
      BY <1>1, <3>1, SaneFacts
    <3>3. PICK e \in Int : \A m \in Lock : lprio[m] <= e
      BY <3>2, LockFacts, Bounded
    <3>4. PICK b \in Int : x <= b /\ e <= b
      <4>1. x <= e \/ e <= x
        OBVIOUS
      <4> QED BY <4>1
    <3>5. T \in SUBSET Int /\ T # {}
      BY <1>1, <2>2, SaneFacts
    <3>6. \A y \in T : y <= b
      <4>1. ASSUME NEW m \in Lock PROVE locktab[m].lprio <= b
        BY <3>1, <3>2, <3>3, <3>4
      <4> QED BY <2>2, <3>4, <4>1
    <3>7. Max(T) \in Int /\ Max(T) >= x
      BY <2>2, <3>5, <3>6, MaxOf
    <3> QED BY <2>3, <3>7
  <2>5. PICK m : m = [k EXCEPT !.prprio[p] = n]
    OBVIOUS
  <2>6. r = [k |-> m, pr |-> pr]
    <3>1. m = [k EXCEPT !.prprio[p] = Max({@} \cup {locktab[a].lprio : a \in {b \in Lock : p \in locktab[b].plist}})]
      BY <2>1, <2>2, <2>3, <2>5
    <3> QED BY <1>4, <3>1 DEF ResetPrio
  <2>7. r.k = m /\ r.pr = pr
    BY <2>6
  <2>8. SchedInv(m) /\ m.prstate = k.prstate /\ m.ndefers = k.ndefers
    BY <1>1, <2>4, <2>5, SetPrioInv
  <2>9. m.currpid = k.currpid /\ \A q \in Pid : m.prprio[q] = IF q = p THEN n ELSE k.prprio[q]
    BY <1>1, <2>5 DEF SchedInv, SchedPre, SchedType
  <2>10. OwnKept(m, pr)
    <3>1. ASSUME NEW q \in Pid PROVE Own(m.prprio[q], pr[q])
      <4>1. Own(k.prprio[q], pr[q])
        BY <1>1 DEF Sane, OwnKept
      <4>2. CASE q = p
        <5>1. pr[p].own \in Nat /\ pr[p].oprio = pr[p].own /\ x >= pr[p].own
          BY <1>1, <1>4, <2>1, <4>1, <4>2 DEF PrEntry, Own
        <5> QED BY <1>4, <2>1, <2>4, <2>9, <4>2, <5>1 DEF Own
      <4>3. CASE q # p
        BY <2>9, <4>1, <4>3
      <4> QED BY <4>2, <4>3
    <3> QED BY <3>1 DEF OwnKept
  <2>11. Sane(m, locktab, pr, cont)
    BY <1>1, <2>8, <2>10 DEF Sane, Waiters, Known
  <2> QED BY <2>7, <2>8, <2>9, <2>11
<1> QED BY <1>2, <1>3, <1>4

(* A turn of emptyWaitQueue(), taken in any state that is in order but for *)
(* the lock itself.                                                        *)
LEMMA GrantKeeps ==
  ASSUME NEW kk, NEW tab, NEW f, Sane(kk, tab, f, cont), NEW l \in Lock, tab[l].queue # <<>>,
         \A m \in Lock \ {l} : Held(kk, tab, f, cont, m),
         Self \in Pid, kk.prstate[Self] # "WAIT", cont[Self].op \in {"release", "grant"},
         NEW todo \in Seq(Lock), Grant(kk, tab, f, l, todo)
  PROVE  IInv'
<1>1. PICK p, s, o, q : /\ p = Head(tab[l].queue) /\ q = Tail(tab[l].queue)
                        /\ s = IF f[p].type = "READ" THEN "READ_LOCKED" ELSE "WRITE_LOCKED"
                        /\ o = IF f[p].type = "READ" THEN "grant" ELSE "release"
  OBVIOUS
<1>2. PICK m2, t2, f2, c2 : m2 = k' /\ t2 = locktab' /\ f2 = pr' /\ c2 = cont'
  OBVIOUS
<1>3. PICK x : x = [op |-> o, lock |-> l, todo |-> todo]
  OBVIOUS
<1>4. /\ t2 = [tab EXCEPT ![l].lstate = s, ![l].queue = q]
      /\ f2 = [OffQueue(f, p) EXCEPT ![p].nlocks = @ - 1]
      /\ m2 = Ready(kk, p)
      /\ c2 = [cont EXCEPT ![Self] = x]
  BY <1>1, <1>2, <1>3 DEF Grant, Goto
<1>5. /\ s \in Locked /\ s \in {"LFREE", "LUSED"} \cup Locked /\ o \in {"grant", "release"} /\ x \in Cont
  <2>1. o \in {"user", "lock", "release", "grant", "ldelete"} /\ o \in {"grant", "release"}
    BY <1>1
  <2> QED BY <1>1, <1>3, <2>1, ContIn DEF Locked
<1>6. /\ SchedInv(kk) /\ kk.ndefers = 0 /\ Typed(tab, f, cont)
      /\ tab[l].queue \in Seq(Pid) /\ Once(tab[l].queue)
      /\ \A y \in Pid, m \in Lock : InQ(tab[m].queue, y) <=> kk.prstate[y] = "WAIT" /\ f[y].plock = m
  BY SaneFacts DEF Sane, Waiters
<1>7. /\ p \in Pid /\ InQ(tab[l].queue, p) /\ q \in Seq(Pid) /\ Once(q)
      /\ \A y : InQ(q, y) <=> InQ(tab[l].queue, y) /\ y # p
  BY <1>1, <1>6, TailQ
<1>8. /\ kk.prstate[p] = "WAIT" /\ p # Self /\ cont[p].op = "lock" /\ cont[p].lock = l
  <2>1. kk.prstate[p] = "WAIT" /\ f[p].plock = l
    BY <1>6, <1>7
  <2> QED BY <1>7, <2>1 DEF Sane, Known
<1>9. /\ SchedInv(m2) /\ m2.ndefers = 0 /\ m2.prprio = kk.prprio /\ m2.prstate[p] # "WAIT"
      /\ \A y \in Pid \ {p} : m2.prstate[y] = "WAIT" <=> kk.prstate[y] = "WAIT"
  <2>1. /\ SchedInv(m2) /\ m2.prprio = kk.prprio /\ m2.ndefers = kk.ndefers
        /\ m2.prstate[p] \in {"CURR", "READY"}
        /\ \A y \in Pid \ {p} :
              IF kk.prstate[y] \in {"CURR", "READY"}
              THEN m2.prstate[y] \in {"CURR", "READY"}
              ELSE m2.prstate[y] = kk.prstate[y]
    BY <1>4, <1>6, <1>7, <1>8, ReadyInv
  <2> QED BY <1>6, <2>1
<1>10. ASSUME NEW m \in Lock
       PROVE  /\ t2[m] \in LockEntry /\ t2[m].plist = tab[m].plist
              /\ t2[m].lstate = (IF m = l THEN s ELSE tab[m].lstate)
              /\ t2[m].queue = (IF m = l THEN q ELSE tab[m].queue)
  <2>1. PICK e : e = tab[m] /\ e \in LockEntry
    BY <1>6 DEF Typed
  <2>2. t2[m] = IF m = l THEN [e EXCEPT !.lstate = s, !.queue = q] ELSE e
    <3>1. tab \in [Lock -> LockEntry]
      BY <1>6 DEF Typed
    <3>2. t2 = [tab EXCEPT ![l].lstate = s, ![l].queue = q]
      BY <1>4
    <3> QED BY <2>1, <3>1, <3>2
  <2> QED BY <1>5, <1>7, <2>1, <2>2 DEF LockEntry
<1>11. ASSUME NEW y \in Pid
       PROVE  /\ f2[y] \in PrEntry /\ f2[y].locks = f[y].locks
              /\ f2[y].changed = f[y].changed /\ f2[y].oprio = f[y].oprio /\ f2[y].own = f[y].own
              /\ y # p => f2[y] = f[y]
  <2>1. PICK e : e = f[y] /\ e \in PrEntry
    BY <1>6 DEF Typed
  <2>2. PICK n \in Int : n = e.nlocks - 1
    BY <2>1 DEF PrEntry
  <2>3. PICK g : g = OffQueue(f, p)
    OBVIOUS
  <2>4. g[y] = IF y = p THEN [e EXCEPT !.plock = NoLock, !.type = "READ", !.key = 0] ELSE e
    <3>1. f \in [Pid -> PrEntry]
      BY <1>6 DEF Typed
    <3>2. g = [f EXCEPT ![p].plock = NoLock, ![p].type = "READ", ![p].key = 0]
      BY <2>3 DEF OffQueue
    <3> QED BY <2>1, <3>1, <3>2
  <2>5. f2 = [g EXCEPT ![p].nlocks = @ - 1] /\ DOMAIN g = Pid
    BY <1>4, <1>6, <2>3 DEF OffQueue, Typed
  <2>6. CASE y = p
    <3>1. PICK h : h = [e EXCEPT !.plock = NoLock, !.type = "READ", !.key = 0]
      OBVIOUS
    <3>2. /\ h \in PrEntry /\ h.locks = e.locks /\ h.nlocks = e.nlocks /\ h.changed = e.changed
          /\ h.oprio = e.oprio /\ h.own = e.own
      BY <2>1, <3>1 DEF PrEntry
    <3>3. f2[y] = [h EXCEPT !.nlocks = n]
      BY <1>7, <2>2, <2>4, <2>5, <2>6, <3>1, <3>2
    <3> QED BY <2>1, <2>6, <3>2, <3>3 DEF PrEntry
  <2>7. CASE y # p
    <3>1. f2[y] = e
      BY <1>7, <2>4, <2>5, <2>7
    <3> QED BY <2>1, <2>7, <3>1
  <2> QED BY <2>6, <2>7
<1>12. c2 \in [Pid -> Cont] /\ \A y \in Pid : y # Self => c2[y] = cont[y]
  BY <1>4, <1>5, <1>6 DEF Typed
<1>13. Sane(m2, t2, f2, c2)
  <2>1. t2 \in [Lock -> LockEntry] /\ f2 \in [Pid -> PrEntry]
    <3>1. t2 = [m \in Lock |-> t2[m]]
      BY <1>4, <1>6 DEF Typed
    <3>2. PICK g, a, b : /\ a = [f EXCEPT ![p].plock = NoLock] /\ b = [a EXCEPT ![p].type = "READ"]
                         /\ g = [b EXCEPT ![p].key = 0]
      OBVIOUS
    <3>3. f = [y \in Pid |-> f[y]]
      BY <1>6 DEF Typed
    <3>4. a = [y \in Pid |-> a[y]]
      BY <3>2, <3>3
    <3>5. b = [y \in Pid |-> b[y]]
      BY <3>2, <3>4
    <3>6. g = [y \in Pid |-> g[y]]
      BY <3>2, <3>5
    <3>7. g = OffQueue(f, p)
      BY <3>2 DEF OffQueue
    <3>8. f2 = [y \in Pid |-> f2[y]]
      BY <1>4, <3>6, <3>7
    <3> QED BY <1>10, <1>11, <3>1, <3>8
  <2>2. Typed(t2, f2, c2)
    BY <1>12, <2>1 DEF Typed
  <2>3. Holders(t2, f2) /\ OwnKept(m2, f2)
    BY <1>9, <1>10, <1>11 DEF Sane, Holders, OwnKept, Own
  <2>4. /\ \A m \in Lock \ {l} : t2[m].queue = tab[m].queue
        /\ t2[l].queue = q
    BY <1>10
  <2>5. \A y \in Pid \ {p} : kk.prstate[y] = "WAIT" => f2[y].plock = f[y].plock /\ c2[y] = cont[y]
    BY <1>11, <1>12
  <2> QED BY <1>7, <1>9, <2>2, <2>3, <2>4, <2>5, SaneLeaves
<1>14. ASSUME NEW m \in Lock PROVE Held(m2, t2, f2, c2, m)
  <2>1. CASE m = l
    <3>1. c2[p].op = "lock" /\ c2[p].lock = l /\ m2.prstate[p] # "WAIT"
      BY <1>7, <1>8, <1>9, <1>12
    <3>2. Going(m2, f2, c2, l)
      BY <1>7, <3>1 DEF Going
    <3>3. t2[l].lstate = s
      BY <1>10
    <3> QED BY <1>5, <2>1, <3>2, <3>3 DEF Held
  <2>2. CASE m # l
    <3>1. Held(kk, tab, f, cont, m)
      BY <2>2
    <3>2. t2[m].lstate = tab[m].lstate /\ t2[m].queue = tab[m].queue
      BY <1>10, <2>2
    <3>3. \A y \in Pid : cont[y].op = "lock" /\ cont[y].lock = m /\ kk.prstate[y] # "WAIT"
            => (c2[y] = cont[y] /\ m2.prstate[y] # "WAIT") \/ m \in f2[y].locks
      BY <1>8, <1>9, <1>12
    <3>4. \A y \in Pid : t2[m].queue # <<>> /\ cont[y].op = "ldelete" /\ cont[y].lock = m => c2[y] = cont[y]
      BY <1>12
    <3>5. \A y \in Pid : m \in f[y].locks => m \in f2[y].locks
      BY <1>11
    <3> QED BY <3>1, <3>2, <3>3, <3>4, <3>5, HeldStep
  <2> QED BY <2>1, <2>2
<1>15. Sane(k', locktab', pr', cont') /\ AllHeld(k', locktab', pr', cont')
  BY <1>2, <1>13, <1>14 DEF AllHeld
<1> QED BY <1>15 DEF IInv

LEMMA GrantMoreStep == ASSUME IInv, GrantMore PROVE IInv'
<1>1. PICK l, q : l = cont[Self].lock /\ q = locktab[l].queue
  OBVIOUS
<1>2. /\ Self \in Pid /\ l \in Lock /\ cont[Self].op = "grant" /\ cont[Self].todo \in Seq(Lock)
      /\ k.prstate[Self] # "WAIT" /\ Sane(k, locktab, pr, cont)
  BY <1>1, StepFacts DEF GrantMore, Continuing, IInv
<1>3. CASE q # <<>> /\ pr[Head(q)].type = "READ"
  <2>1. Grant(k, locktab, pr, l, cont[Self].todo)
    BY <1>1, <1>3 DEF GrantMore
  <2>2. \A m \in Lock \ {l} : Held(k, locktab, pr, cont, m)
    BY DEF IInv, AllHeld
  <2> QED BY <1>1, <1>2, <1>3, <2>1, <2>2, GrantKeeps
<1>4. CASE ~(q # <<>> /\ pr[Head(q)].type = "READ")
  <2>1. PICK x : x = [op |-> "release", lock |-> l, todo |-> cont[Self].todo]
    OBVIOUS
  <2>2. cont' = [cont EXCEPT ![Self] = x] /\ k' = k /\ UNCHANGED <<locktab, pr>>
    BY <1>1, <1>4, <2>1 DEF GrantMore, Goto
  <2>3. x \in Cont /\ cont[Self].op \notin {"lock", "ldelete"}
    BY <1>2, <2>1, ContIn
  <2>4. SchedInv(k') /\ k'.ndefers = 0 /\ k'.prprio = k.prprio
        /\ \A p \in Pid : k'.prstate[p] = "WAIT" <=> k.prstate[p] = "WAIT"
    BY <2>2, StepFacts
  <2> QED BY <2>2, <2>3, <2>4, SchedStep
<1> QED BY <1>3, <1>4

(* What releasing l comes to for p: resetPrio(), then the lock and the     *)
(* process forget each other.                                              *)
Released(r, l, p) ==
  [k   |-> r.k,
   tab |-> [locktab EXCEPT ![l].lprio = MaxWaitQueue(l), ![l].plist = @ \ {p}],
   pr  |-> [r.pr EXCEPT ![p].locks = @ \ {l}]]

(* Everything but the lock itself is in order then. *)
GivenUp(w, l, p) ==
  /\ Sane(w.k, w.tab, w.pr, cont)
  /\ w.k.prstate = k.prstate /\ w.k.currpid = k.currpid
  /\ \A m \in Lock : /\ w.tab[m].queue = locktab[m].queue /\ w.tab[m].lstate = locktab[m].lstate
                     /\ m # l => Held(w.k, w.tab, w.pr, cont, m)
  /\ \A q \in Pid : w.pr[q].locks = IF q = p THEN pr[q].locks \ {l} ELSE pr[q].locks

LEMMA ReleasedKeeps ==
  ASSUME IInv, NEW p \in Pid, NEW l \in Lock, k.prstate[p] # "WAIT"
  PROVE  GivenUp(Released(ResetPrio(k, pr, p), l, p), l, p)
<1>1. PICK r : r = ResetPrio(k, pr, p)
  OBVIOUS
<1>2. /\ Sane(r.k, locktab, r.pr, cont) /\ r.k.prstate = k.prstate /\ r.k.currpid = k.currpid
      /\ \A q \in Pid : r.pr[q].locks = pr[q].locks
  BY <1>1, ResetKeeps
<1>3. PICK n : n = MaxWaitQueue(l)
  OBVIOUS
<1>4. n \in Int
  <2>1. CASE locktab[l].queue = <<>>
    BY <1>3, <2>1 DEF MaxWaitQueue
  <2>2. CASE locktab[l].queue # <<>>
    <3>1. Head(locktab[l].queue) \in Pid
      BY <2>2, SaneFacts, TailQ DEF IInv
    <3>2. n = pr[Head(locktab[l].queue)].key
      BY <1>3, <2>2 DEF MaxWaitQueue
    <3> QED BY <3>1, <3>2, StepFacts DEF PrEntry
  <2> QED BY <2>1, <2>2
<1>5. PICK t, f, g : /\ t = [locktab EXCEPT ![l].lprio = n, ![l].plist = @ \ {p}]
                     /\ g = r.pr /\ f = [g EXCEPT ![p].locks = @ \ {l}]
  OBVIOUS
<1>6. PICK w : w = [k |-> r.k, tab |-> t, pr |-> f]
  OBVIOUS
<1>7. w = Released(r, l, p) /\ w.k = r.k /\ w.tab = t /\ w.pr = f
  BY <1>3, <1>5, <1>6 DEF Released
<1>8. locktab \in [Lock -> LockEntry] /\ g \in [Pid -> PrEntry] /\ cont \in [Pid -> Cont]
  BY <1>2, <1>5 DEF Sane, Typed
<1>9. ASSUME NEW m \in Lock
      PROVE  /\ t[m] \in LockEntry /\ t[m].queue = locktab[m].queue /\ t[m].lstate = locktab[m].lstate
             /\ t[m].plist = IF m = l THEN locktab[m].plist \ {p} ELSE locktab[m].plist
  <2>1. PICK e : e = locktab[m] /\ e \in LockEntry
    BY <1>8
  <2>2. t[m] = IF m = l THEN [e EXCEPT !.lprio = n, !.plist = @ \ {p}] ELSE e
    BY <1>5, <1>8, <2>1
  <2>3. e.plist \ {p} \in SUBSET Pid
    BY <2>1 DEF LockEntry
  <2>4. /\ t[m] \in LockEntry /\ t[m].queue = e.queue /\ t[m].lstate = e.lstate
        /\ t[m].plist = IF m = l THEN e.plist \ {p} ELSE e.plist
    BY ONLY <1>4, <2>1, <2>2, <2>3 DEF LockEntry
  <2> QED BY <2>1, <2>4
<1>10. ASSUME NEW q \in Pid
       PROVE  /\ f[q] \in PrEntry /\ f[q].plock = g[q].plock /\ f[q].changed = g[q].changed
              /\ f[q].oprio = g[q].oprio /\ f[q].own = g[q].own
              /\ f[q].locks = IF q = p THEN g[q].locks \ {l} ELSE g[q].locks
  <2>1. PICK e : e = g[q] /\ e \in PrEntry
    BY <1>8
  <2>2. f[q] = IF q = p THEN [e EXCEPT !.locks = @ \ {l}] ELSE e
    BY <1>5, <1>8, <2>1
  <2> QED BY <2>1, <2>2 DEF PrEntry
<1>11. t \in [Lock -> LockEntry] /\ f \in [Pid -> PrEntry]
  BY <1>5, <1>8, <1>9, <1>10
<1>12. Sane(r.k, t, f, cont)
  <2>1. SchedInv(r.k) /\ r.k.ndefers = 0 /\ Typed(t, f, cont)
    BY <1>2, <1>8, <1>11 DEF Sane, Typed
  <2>2. Holders(t, f) /\ OwnKept(r.k, f)
    <3>1. Holders(locktab, g) /\ OwnKept(r.k, g)
      BY <1>2, <1>5 DEF Sane
    <3>2. ASSUME NEW m \in Lock, NEW q \in Pid, q \in t[m].plist PROVE m \in f[q].locks
      <4>1. q \in locktab[m].plist /\ ~(m = l /\ q = p)
        BY <1>9, <3>2
      <4>2. m \in g[q].locks
        BY <3>1, <4>1 DEF Holders
      <4> QED BY <1>10, <4>1, <4>2
    <3>3. OwnKept(r.k, f)
      BY <1>10, <3>1 DEF OwnKept, Own
    <3> QED BY <3>2, <3>3 DEF Holders
  <2>3. \A m \in Lock : t[m].queue = locktab[m].queue
    BY <1>9
  <2>5. \A q \in Pid : f[q].plock = r.pr[q].plock
    BY <1>5, <1>10
  <2>4. \A q \in Pid : r.k.prstate[q] = "WAIT" <=> r.k.prstate[q] = "WAIT"
    OBVIOUS
  <2> QED BY <1>2, <2>1, <2>2, <2>3, <2>4, <2>5, SaneStep
<1>13. \A q \in Pid : f[q].locks = IF q = p THEN pr[q].locks \ {l} ELSE pr[q].locks
  BY <1>2, <1>5, <1>10
<1>14. ASSUME NEW m \in Lock, m # l PROVE Held(r.k, t, f, cont, m)
  <2>1. Held(k, locktab, pr, cont, m)
    BY DEF IInv, AllHeld
  <2>2. \A q \in Pid : m \in pr[q].locks => m \in f[q].locks
    BY <1>13, <1>14
  <2>3. /\ t[m].lstate = locktab[m].lstate /\ t[m].queue = locktab[m].queue
        /\ r.k.prstate = k.prstate
    BY <1>2, <1>9
  <2> QED BY <2>1, <2>2, <2>3, HeldStep
<1> QED BY <1>1, <1>2, <1>7, <1>9, <1>12, <1>13, <1>14 DEF GivenUp

(* The next lock of the list: self goes on with releaseall(). *)
LEMMA ReleaseOneStep == ASSUME IInv, ReleaseOne PROVE IInv'
<1>1. PICK p, l, todo, w : /\ p = Self /\ l = Last(cont[Self].todo) /\ todo = Front(cont[Self].todo)
                           /\ w = Released(ResetPrio(k, pr, p), l, p)
  OBVIOUS
<1>2. /\ p \in Pid /\ l \in Lock /\ todo \in Seq(Lock) /\ cont[p].op = "release"
      /\ k.prstate[p] = "CURR" /\ cont \in [Pid -> Cont]
  <2>1. cont[p].todo \in Seq(Lock) /\ cont[p].todo # <<>> /\ cont[p].op = "release"
        /\ p \in Pid /\ k.prstate[p] = "CURR" /\ cont \in [Pid -> Cont]
    BY <1>1, StepFacts DEF ReleaseOne, Continuing
  <2>2. PICK s \in Seq(Lock) : s = cont[p].todo
    BY <2>1
  <2>3. s # <<>> /\ Len(s) \in Nat /\ Len(s) >= 1
    BY <2>1, <2>2
  <2>4. l = s[Len(s)] /\ todo = SubSeq(s, 1, Len(s) - 1)
    BY <1>1, <2>2 DEF Last, Front
  <2>5. l \in Lock /\ todo \in Seq(Lock)
    BY <2>3, <2>4
  <2> QED BY <2>1, <2>5
<1>3. PICK x : x = [op |-> "release", lock |-> l, todo |-> todo]
  OBVIOUS
<1>4. x \in Cont
  BY <1>2, <1>3, ContIn
<1>5. GivenUp(w, l, p)
  BY <1>1, <1>2, ReleasedKeeps
<1>6. /\ Sane(w.k, w.tab, w.pr, cont) /\ w.k.prstate = k.prstate
      /\ \A m \in Lock \ {l} : Held(w.k, w.tab, w.pr, cont, m)
  BY <1>5 DEF GivenUp
<1>7. PICK c2 : c2 = [cont EXCEPT ![p] = x]
  OBVIOUS
<1>8. \/ cont' = c2 /\ UNCHANGED <<k, locktab, pr>>
      \/ w.tab[l].plist # {} /\ k' = Resched(w.k) /\ locktab' = w.tab /\ pr' = w.pr /\ cont' = c2
      \/ w.tab[l].queue # <<>> /\ Grant(w.k, w.tab, w.pr, l, todo)
      \/ /\ w.tab[l].queue = <<>> /\ k' = w.k /\ pr' = w.pr /\ cont' = c2
         /\ locktab' = Freed(w.tab, w.pr, l)
  <2>1. PICK r : r = ResetPrio(k, pr, p)
    OBVIOUS
  <2>2. PICK t, f : /\ t = [locktab EXCEPT ![l].lprio = MaxWaitQueue(l), ![l].plist = @ \ {p}]
                    /\ f = [r.pr EXCEPT ![p].locks = @ \ {l}]
    OBVIOUS
  <2>3. w.k = r.k /\ w.tab = t /\ w.pr = f
    BY <1>1, <2>1, <2>2 DEF Released
  <2>4. \/ Goto("release", l, todo) /\ UNCHANGED <<k, locktab, pr>>
        \/ t[l].plist # {} /\ k' = Resched(r.k) /\ locktab' = t /\ pr' = f /\ Goto("release", l, todo)
        \/ t[l].queue # <<>> /\ Grant(r.k, t, f, l, todo)
        \/ /\ t[l].queue = <<>> /\ k' = r.k /\ pr' = f /\ locktab' = Freed(t, f, l)
           /\ Goto("release", l, todo)
    BY <1>1, <2>1, <2>2 DEF ReleaseOne
  <2>5. Goto("release", l, todo) => cont' = c2
    BY <1>1, <1>3, <1>7 DEF Goto
  <2> QED BY <2>3, <2>4, <2>5
<1>9. CASE cont' = c2 /\ UNCHANGED <<k, locktab, pr>>
  <2>1. SchedInv(k') /\ k'.ndefers = 0 /\ k'.prprio = k.prprio
        /\ \A q \in Pid : k'.prstate[q] = "WAIT" <=> k.prstate[q] = "WAIT"
    BY <1>9, StepFacts
  <2>2. cont[Self].op \notin {"lock", "ldelete"} /\ cont' = [cont EXCEPT ![Self] = x]
    BY <1>1, <1>2, <1>7, <1>9
  <2> QED BY <1>4, <1>9, <2>1, <2>2, SchedStep
<1>10. CASE w.tab[l].queue # <<>> /\ Grant(w.k, w.tab, w.pr, l, todo)
  <2>1. Self \in Pid /\ w.k.prstate[Self] # "WAIT" /\ cont[Self].op \in {"release", "grant"}
    BY <1>1, <1>2, <1>6
  <2> QED BY <1>2, <1>6, <1>10, <2>1, GrantKeeps
<1>11. c2 \in [Pid -> Cont] /\ (\A q \in Pid : q # p => c2[q] = cont[q]) /\ c2[p] = x
  BY <1>2, <1>4, <1>7
<1>12. ASSUME NEW kk, kk = Resched(w.k) \/ kk = w.k, NEW tab, Typed(tab, w.pr, c2),
              \A m \in Lock : /\ tab[m].queue = w.tab[m].queue /\ tab[m].plist = w.tab[m].plist
                              /\ m # l => tab[m].lstate = w.tab[m].lstate,
              Held(kk, tab, w.pr, c2, l)
       PROVE  Sane(kk, tab, w.pr, c2) /\ AllHeld(kk, tab, w.pr, c2)
  <2>1. /\ SchedInv(kk) /\ kk.ndefers = 0 /\ kk.prprio = w.k.prprio
        /\ \A q \in Pid : kk.prstate[q] = "WAIT" <=> w.k.prstate[q] = "WAIT"
    <3>1. SchedInv(w.k) /\ w.k.ndefers = 0
      BY <1>6 DEF Sane
    <3>2. CASE kk = w.k
      BY <3>1, <3>2
    <3>3. CASE kk = Resched(w.k)
      BY <3>1, <3>3, ReschedStays
    <3> QED BY <1>12, <3>2, <3>3
  <2>2. Sane(kk, tab, w.pr, c2)
    <3>1. Holders(tab, w.pr) /\ OwnKept(kk, w.pr)
      BY <1>6, <1>12, <2>1 DEF Sane, Holders, OwnKept
    <3>2. \A q \in Pid : w.k.prstate[q] = "WAIT" => w.pr[q].plock = w.pr[q].plock /\ c2[q] = cont[q]
      BY <1>2, <1>6, <1>11
    <3>3. \A m \in Lock : tab[m].queue = w.tab[m].queue
      BY <1>12
    <3> QED BY <1>6, <1>12, <2>1, <3>1, <3>2, <3>3, SaneStep
  <2>3. ASSUME NEW m \in Lock PROVE Held(kk, tab, w.pr, c2, m)
    <3>1. CASE m = l
      BY <1>12, <3>1
    <3>2. CASE m # l
      <4>1. Held(w.k, w.tab, w.pr, cont, m)
        BY <1>6, <3>2
      <4>2. \A q \in Pid : cont[q].op = "lock" /\ cont[q].lock = m /\ w.k.prstate[q] # "WAIT"
              => (c2[q] = cont[q] /\ kk.prstate[q] # "WAIT") \/ m \in w.pr[q].locks
        BY <1>2, <1>11, <2>1
      <4>3. \A q \in Pid : tab[m].queue # <<>> /\ cont[q].op = "ldelete" /\ cont[q].lock = m => c2[q] = cont[q]
        BY <1>2, <1>11
      <4>4. tab[m].lstate = w.tab[m].lstate /\ tab[m].queue = w.tab[m].queue
        BY <1>12, <3>2
      <4> QED BY <4>1, <4>2, <4>3, <4>4, HeldStep
    <3> QED BY <3>1, <3>2
  <2> QED BY <2>2, <2>3 DEF AllHeld
<1>13. CASE w.tab[l].plist # {} /\ k' = Resched(w.k) /\ locktab' = w.tab /\ pr' = w.pr /\ cont' = c2
  <2>1. Typed(w.tab, w.pr, c2) /\ Holders(w.tab, w.pr) /\ w.tab[l].plist \in SUBSET Pid
    BY <1>2, <1>6, <1>11, SaneFacts DEF Sane, Typed
  <2>2. PICK q \in Pid : l \in w.pr[q].locks
    BY <1>2, <1>13, <2>1 DEF Holders
  <2>3. Going(Resched(w.k), w.pr, c2, l)
    BY <2>2 DEF Going
  <2>4. Held(Resched(w.k), w.tab, w.pr, c2, l)
    <3>1. Held(k, locktab, pr, cont, l)
      BY <1>2 DEF IInv, AllHeld
    <3>2. w.tab[l].lstate = locktab[l].lstate /\ w.tab[l].queue = locktab[l].queue
      BY <1>2, <1>5 DEF GivenUp
    <3>3. Deleted(cont, l) => Deleted(c2, l)
      BY <1>2, <1>11 DEF Deleted
    <3> QED BY <2>3, <3>1, <3>2, <3>3 DEF Held
  <2>5. Sane(k', locktab', pr', cont') /\ AllHeld(k', locktab', pr', cont')
    BY <1>12, <1>13, <2>1, <2>4
  <2> QED BY <2>5 DEF IInv
<1>14. CASE /\ w.tab[l].queue = <<>> /\ k' = w.k /\ pr' = w.pr /\ cont' = c2
            /\ locktab' = Freed(w.tab, w.pr, l)
  <2>1. PICK t : t = Freed(w.tab, w.pr, l)
    OBVIOUS
  <2>2. w.tab \in [Lock -> LockEntry] /\ w.pr \in [Pid -> PrEntry]
    BY <1>6 DEF Sane, Typed
  <2>3. ASSUME NEW m \in Lock
        PROVE  /\ t[m] \in LockEntry /\ t[m].queue = w.tab[m].queue /\ t[m].plist = w.tab[m].plist
               /\ m # l => t[m].lstate = w.tab[m].lstate
               /\ m = l => t[m].lstate = "LUSED" \/ \E q \in Pid : l \in w.pr[q].locks
    <3>1. PICK e : e = w.tab[m] /\ e \in LockEntry
      BY <2>2
    <3>2. CASE \A q \in Pid : l \notin w.pr[q].locks
      <4>1. t = [w.tab EXCEPT ![l].lstate = "LUSED"]
        BY <2>1, <3>2 DEF Freed
      <4>2. t[m] = IF m = l THEN [e EXCEPT !.lstate = "LUSED"] ELSE e
        BY <2>2, <3>1, <4>1
      <4> QED BY <3>1, <4>2 DEF LockEntry
    <3>3. CASE ~\A q \in Pid : l \notin w.pr[q].locks
      <4>1. t = w.tab
        BY <2>1, <3>3 DEF Freed
      <4> QED BY <3>1, <3>3, <4>1
    <3> QED BY <3>2, <3>3
  <2>4. t \in [Lock -> LockEntry]
    <3>1. t = [m \in Lock |-> t[m]]
      BY <2>1, <2>2 DEF Freed
    <3> QED BY <2>3, <3>1
  <2>5. Typed(t, w.pr, c2)
    BY <1>11, <2>2, <2>4 DEF Typed
  <2>6. Held(w.k, t, w.pr, c2, l)
    BY <1>2, <1>14, <2>3 DEF Held, Going, Locked
  <2>7. Sane(w.k, t, w.pr, c2) /\ AllHeld(w.k, t, w.pr, c2)
    BY <1>12, <2>3, <2>5, <2>6
  <2>8. Sane(k', locktab', pr', cont') /\ AllHeld(k', locktab', pr', cont')
    BY <1>14, <2>1, <2>7
  <2> QED BY <2>8 DEF IInv
<1> QED BY <1>8, <1>9, <1>10, <1>13, <1>14

-----------------------------------------------------------------------------
(* ldelete(). *)

LEMMA LdeleteStep == ASSUME IInv, NEW l \in Lock, Ldelete(l) PROVE IInv'
<1>1. PICK p, q : p = Self /\ q = locktab[l].queue
  OBVIOUS
<1>2. /\ p \in Pid /\ cont[p].op = "user" /\ k.prstate[p] = "CURR" /\ Sane(k, locktab, pr, cont)
      /\ locktab \in [Lock -> LockEntry] /\ pr \in [Pid -> PrEntry] /\ cont \in [Pid -> Cont]
  BY <1>1, StepFacts DEF Ldelete, Calling, IInv
<1>3. PICK t, f, c2, x : /\ t = locktab' /\ f = pr' /\ c2 = cont'
                         /\ x = [op |-> "ldelete", lock |-> l, todo |-> <<>>]
  OBVIOUS
<1>4. x \in Cont /\ x.op = "ldelete" /\ x.lock = l
  <2>1. <<>> \in Seq(Lock)
    OBVIOUS
  <2> QED BY <1>3, <2>1, ContIn
<1>5. c2 = (IF q = <<>> THEN cont ELSE [cont EXCEPT ![p] = x]) /\ k' = k
  BY <1>1, <1>3 DEF Ldelete, Goto
<1>6. c2 \in [Pid -> Cont] /\ (\A y \in Pid : y # p => c2[y] = cont[y]) /\ (q # <<>> => c2[p] = x)
  BY <1>2, <1>4, <1>5
<1>7. ASSUME NEW m \in Lock
      PROVE  /\ t[m] \in LockEntry /\ t[m].queue = locktab[m].queue
             /\ t[m].plist = (IF m = l THEN {} ELSE locktab[m].plist)
             /\ t[m].lstate = (IF m = l THEN "LFREE" ELSE locktab[m].lstate)
  <2>1. PICK e, z : e = locktab[m] /\ e \in LockEntry /\ z = -1
    BY <1>2
  <2>2. z \in Int
    BY <2>1
  <2>3. t[m] = IF m = l THEN [e EXCEPT !.lstate = "LFREE", !.lprio = z, !.maxWritePrio = z, !.plist = {}] ELSE e
    BY <1>2, <1>3, <2>1 DEF Ldelete
  <2> QED BY <2>1, <2>2, <2>3 DEF LockEntry
<1>8. ASSUME NEW y \in Pid
      PROVE  /\ f[y] \in PrEntry /\ f[y].plock = pr[y].plock /\ f[y].changed = pr[y].changed
             /\ f[y].oprio = pr[y].oprio /\ f[y].own = pr[y].own
             /\ \A m \in Lock : m # l => (m \in f[y].locks <=> m \in pr[y].locks)
  <2>1. PICK e : e = pr[y] /\ e \in PrEntry
    BY <1>2
  <2>2. f[y] = IF y < NLOCKS THEN [e EXCEPT !.locks = @ \ {l}] ELSE e
    BY <1>3, <2>1 DEF Ldelete
  <2> QED BY <2>1, <2>2 DEF PrEntry
<1>9. Typed(t, f, c2)
  <2>1. t = [m \in Lock |-> t[m]]
    BY <1>2, <1>3 DEF Ldelete
  <2>2. f = [y \in Pid |-> f[y]]
    BY <1>3 DEF Ldelete
  <2>3. t \in [Lock -> LockEntry]
    BY <1>7, <2>1
  <2>4. f \in [Pid -> PrEntry]
    BY <1>8, <2>2
  <2> QED BY <1>6, <2>3, <2>4 DEF Typed
<1>10. Sane(k, t, f, c2)
  <2>1. Holders(locktab, pr) /\ OwnKept(k, pr) /\ SchedInv(k) /\ k.ndefers = 0
    BY <1>2 DEF Sane
  <2>2. ASSUME NEW m \in Lock, NEW y \in Pid, y \in t[m].plist PROVE m \in f[y].locks
    <3>1. m # l /\ y \in locktab[m].plist
      BY <1>7, <2>2
    <3>2. m \in pr[y].locks
      BY <2>1, <3>1 DEF Holders
    <3> QED BY <1>8, <3>1, <3>2
  <2>3. Holders(t, f)
    BY <2>2 DEF Holders
  <2>4. OwnKept(k, f)
    BY <1>8, <2>1 DEF OwnKept, Own
  <2>5. /\ \A y \in Pid : k.prstate[y] = "WAIT" => f[y].plock = pr[y].plock /\ c2[y] = cont[y]
        /\ \A m \in Lock : t[m].queue = locktab[m].queue
        /\ \A y \in Pid : k.prstate[y] = "WAIT" <=> k.prstate[y] = "WAIT"
    BY <1>2, <1>6, <1>7, <1>8
  <2> QED BY <1>2, <1>9, <2>1, <2>3, <2>4, <2>5, SaneStep
<1>11. ASSUME NEW m \in Lock PROVE Held(k, t, f, c2, m)
  <2>1. CASE m = l
    <3>1. t[l].lstate \notin Locked /\ t[l].queue = q
      BY <1>1, <1>7 DEF Locked
    <3>2. q # <<>> => Deleted(c2, l)
      BY <1>2, <1>4, <1>6 DEF Deleted
    <3> QED BY <2>1, <3>1, <3>2 DEF Held
  <2>2. CASE m # l
    <3>1. Held(k, locktab, pr, cont, m)
      BY DEF IInv, AllHeld
    <3>2. t[m].lstate = locktab[m].lstate /\ t[m].queue = locktab[m].queue
      BY <1>7, <2>2
    <3>3. \A y \in Pid : m \in pr[y].locks => m \in f[y].locks
      BY <1>8, <2>2
    <3>4. \A y \in Pid : cont[y].op \in {"lock", "ldelete"} => c2[y] = cont[y]
      BY <1>2, <1>6
    <3> QED BY <3>1, <3>2, <3>3, <3>4, HeldStep
  <2> QED BY <2>1, <2>2
<1>12. Sane(k', locktab', pr', cont') /\ AllHeld(k', locktab', pr', cont')
  BY <1>3, <1>5, <1>10, <1>11 DEF AllHeld
<1> QED BY <1>12 DEF IInv

LEMMA LdeleteGoesOnStep == ASSUME IInv, LdeleteGoesOn PROVE IInv'
<1>1. PICK p, l, q : p = Self /\ l = cont[Self].lock /\ q = locktab[l].queue
  OBVIOUS
<1>2. /\ p \in Pid /\ l \in Lock /\ cont[p].op = "ldelete" /\ cont[p].lock = l /\ k.prstate[p] = "CURR"
      /\ Sane(k, locktab, pr, cont) /\ InUser \in Cont
      /\ locktab \in [Lock -> LockEntry] /\ pr \in [Pid -> PrEntry] /\ cont \in [Pid -> Cont]
  BY <1>1, StepFacts DEF LdeleteGoesOn, Continuing, IInv
<1>3. CASE q = <<>>
  <2>1. PICK c2 : c2 = [cont EXCEPT ![p] = InUser]
    OBVIOUS
  <2>2. k' = Resched(k) /\ cont' = c2 /\ UNCHANGED <<locktab, pr>>
    BY <1>1, <1>3, <2>1 DEF LdeleteGoesOn, Return
  <2>3. c2 \in [Pid -> Cont] /\ \A y \in Pid : y # p => c2[y] = cont[y]
    BY <1>2, <2>1
  <2>4. PICK kk : kk = Resched(k)
    OBVIOUS
  <2>5. /\ SchedInv(kk) /\ kk.ndefers = 0 /\ kk.prprio = k.prprio
        /\ \A y \in Pid : kk.prstate[y] = "WAIT" <=> k.prstate[y] = "WAIT"
    BY <2>4, StepFacts, ReschedStays
  <2>6. Sane(kk, locktab, pr, c2)
    <3>1. Typed(locktab, pr, c2) /\ Holders(locktab, pr) /\ OwnKept(kk, pr)
      BY <1>2, <2>3, <2>5 DEF Sane, Typed, OwnKept
    <3>2. /\ \A y \in Pid : k.prstate[y] = "WAIT" => pr[y].plock = pr[y].plock /\ c2[y] = cont[y]
          /\ \A m \in Lock : locktab[m].queue = locktab[m].queue
      BY <1>2, <2>3
    <3> QED BY <1>2, <2>5, <3>1, <3>2, SaneStep
  <2>7. ASSUME NEW m \in Lock PROVE Held(kk, locktab, pr, c2, m)
    <3>1. Held(k, locktab, pr, cont, m)
      BY DEF IInv, AllHeld
    <3>2. \A y \in Pid : cont[y].op = "lock" /\ cont[y].lock = m /\ k.prstate[y] # "WAIT"
            => (c2[y] = cont[y] /\ kk.prstate[y] # "WAIT") \/ m \in pr[y].locks
      BY <1>2, <2>3, <2>5
    <3>3. \A y \in Pid : locktab[m].queue # <<>> /\ cont[y].op = "ldelete" /\ cont[y].lock = m => c2[y] = cont[y]
      BY <1>1, <1>2, <1>3, <2>3
    <3> QED BY <3>1, <3>2, <3>3, HeldStep
  <2>8. Sane(k', locktab', pr', cont') /\ AllHeld(k', locktab', pr', cont')
    BY <2>2, <2>4, <2>6, <2>7 DEF AllHeld
  <2> QED BY <2>8 DEF IInv
<1>4. CASE q # <<>>
  <2>1. PICK h, r, t, f, g, m2 : /\ h = Head(q) /\ r = Tail(q) /\ t = [locktab EXCEPT ![l].queue = r]
                                /\ g = OffQueue(pr, h) /\ f = [g EXCEPT ![h].pwaitret = "DELETED"]
                                /\ m2 = Ready(k, h)
    OBVIOUS
  <2>2. k' = m2 /\ locktab' = t /\ pr' = f /\ cont' = cont
    BY <1>1, <1>4, <2>1 DEF LdeleteGoesOn
  <2>3. q \in Seq(Pid) /\ Once(q)
    BY <1>1, <1>2, SaneFacts
  <2>4. /\ h \in Pid /\ InQ(q, h) /\ r \in Seq(Pid) /\ Once(r)
        /\ \A y : InQ(r, y) <=> InQ(q, y) /\ y # h
    BY <1>4, <2>1, <2>3, TailQ
  <2>5. k.prstate[h] = "WAIT" /\ pr[h].plock = l
    BY <1>1, <1>2, <2>4 DEF Sane, Waiters
  <2>6. /\ SchedInv(m2) /\ m2.ndefers = 0 /\ m2.prprio = k.prprio /\ m2.prstate[h] # "WAIT"
        /\ \A y \in Pid \ {h} : m2.prstate[y] = "WAIT" <=> k.prstate[y] = "WAIT"
    <3>1. SchedInv(k) /\ k.ndefers = 0 /\ k.prstate[h] \notin {"CURR", "READY"}
      BY <2>5, StepFacts
    <3>2. /\ SchedInv(m2) /\ m2.prprio = k.prprio /\ m2.ndefers = k.ndefers
          /\ m2.prstate[h] \in {"CURR", "READY"}
          /\ \A y \in Pid \ {h} :
                IF k.prstate[y] \in {"CURR", "READY"}
                THEN m2.prstate[y] \in {"CURR", "READY"}
                ELSE m2.prstate[y] = k.prstate[y]
      BY <2>1, <2>4, <3>1, ReadyInv
    <3> QED BY <3>1, <3>2
  <2>7. ASSUME NEW m \in Lock
        PROVE  /\ t[m] \in LockEntry /\ t[m].plist = locktab[m].plist /\ t[m].lstate = locktab[m].lstate
               /\ t[m].queue = (IF m = l THEN r ELSE locktab[m].queue)
    <3>1. PICK e : e = locktab[m] /\ e \in LockEntry
      BY <1>2
    <3>2. t[m] = IF m = l THEN [e EXCEPT !.queue = r] ELSE e
      BY <1>2, <2>1, <3>1
    <3> QED BY <2>4, <3>1, <3>2 DEF LockEntry
  <2>8. DOMAIN g = Pid /\ g = [y \in Pid |-> g[y]]
    <3>1. PICK a, b : a = [pr EXCEPT ![h].plock = NoLock] /\ b = [a EXCEPT ![h].type = "READ"]
      OBVIOUS
    <3>2. g = [b EXCEPT ![h].key = 0]
      BY <2>1, <3>1 DEF OffQueue
    <3>3. pr = [y \in Pid |-> pr[y]]
      BY <1>2
    <3>4. a = [y \in Pid |-> a[y]]
      BY <3>1, <3>3
    <3>5. b = [y \in Pid |-> b[y]]
      BY <3>1, <3>4
    <3> QED BY <3>2, <3>5
  <2>9. ASSUME NEW y \in Pid
        PROVE  /\ f[y] \in PrEntry /\ f[y].locks = pr[y].locks /\ f[y].changed = pr[y].changed
               /\ f[y].oprio = pr[y].oprio /\ f[y].own = pr[y].own /\ (y # h => f[y] = pr[y])
    <3>1. PICK e : e = pr[y] /\ e \in PrEntry
      BY <1>2
    <3>2. g[y] = IF y = h THEN [e EXCEPT !.plock = NoLock, !.type = "READ", !.key = 0] ELSE e
      BY <1>2, <2>1, <2>4, <3>1 DEF OffQueue
    <3>3. PICK v : v = [e EXCEPT !.plock = NoLock, !.type = "READ", !.key = 0]
      OBVIOUS
    <3>4. /\ v \in PrEntry /\ v.locks = e.locks /\ v.changed = e.changed /\ v.oprio = e.oprio /\ v.own = e.own
      BY <3>1, <3>3 DEF PrEntry
    <3>5. f[y] = IF y = h THEN [v EXCEPT !.pwaitret = "DELETED"] ELSE e
      BY <2>1, <2>4, <2>8, <3>2, <3>3
    <3> QED BY <3>1, <3>4, <3>5 DEF PrEntry
  <2>10. Sane(m2, t, f, cont)
    <3>1. t \in [Lock -> LockEntry]
      BY <1>2, <2>1, <2>7
    <3>2. f \in [Pid -> PrEntry]
      BY <2>1, <2>8, <2>9
    <3>3. Typed(t, f, cont) /\ Holders(t, f) /\ OwnKept(m2, f)
      BY <1>2, <2>6, <2>7, <2>9, <3>1, <3>2 DEF Sane, Typed, Holders, OwnKept, Own
    <3>4. (\A m \in Lock \ {l} : t[m].queue = locktab[m].queue) /\ t[l].queue = r
      BY <1>2, <2>7
    <3>5. \A y \in Pid \ {h} : k.prstate[y] = "WAIT" => f[y].plock = pr[y].plock
      BY <2>9
    <3>6. /\ InQ(locktab[l].queue, h) /\ l \in Lock /\ h \in Pid
          /\ \A y : InQ(r, y) <=> InQ(locktab[l].queue, y) /\ y # h
      BY <1>1, <1>2, <2>4
    <3>7. SchedInv(m2) /\ m2.ndefers = 0
      BY <2>6
    <3>8. Sane(k, locktab, pr, cont)
      BY <1>2
    <3> HIDE DEF Sane, Typed, Holders, OwnKept, SchedInv
    <3> QED BY <2>4, <2>6, <3>3, <3>4, <3>5, <3>6, <3>7, <3>8, SaneLeaves
  <2>11. ASSUME NEW m \in Lock PROVE Held(m2, t, f, cont, m)
    <3>1. Held(k, locktab, pr, cont, m)
      BY DEF IInv, AllHeld
    <3>2. t[m].lstate = locktab[m].lstate /\ (t[m].queue # <<>> => locktab[m].queue # <<>>)
      BY <1>1, <1>4, <2>7
    <3>3. \A y \in Pid : m \in pr[y].locks => m \in f[y].locks
      BY <2>9
    <3>4. \A y \in Pid : cont[y].op = "lock" /\ cont[y].lock = m /\ k.prstate[y] # "WAIT"
            => (cont[y] = cont[y] /\ m2.prstate[y] # "WAIT") \/ m \in f[y].locks
      BY <2>6
    <3> QED BY <3>1, <3>2, <3>3, <3>4, HeldStep
  <2>12. Sane(k', locktab', pr', cont') /\ AllHeld(k', locktab', pr', cont')
    BY <2>2, <2>10, <2>11 DEF AllHeld
  <2> QED BY <2>12 DEF IInv
<1> QED BY <1>3, <1>4

-----------------------------------------------------------------------------
(* chprio() and kill(). *)

LEMMA HigherOf ==
  ASSUME NEW a \in Nat, NEW b \in Nat
  PROVE  Max({a, b}) \in Nat /\ Max({a, b}) >= b
<1>1. PICK c \in Int : a <= c /\ b <= c
  <2>1. a <= b \/ b <= a
    OBVIOUS
  <2> QED BY <2>1
<1>2. {a, b} \in SUBSET Int /\ {a, b} # {} /\ \A x \in {a, b} : x <= c
  BY <1>1
<1>3. Max({a, b}) \in {a, b} /\ \A y \in {a, b} : Max({a, b}) >= y
  BY <1>2, MaxOf
<1> QED BY <1>3

LEMMA ChprioStep == ASSUME IInv, NEW p \in Targets, NEW prio \in NewPrios, Chprio(p, prio) PROVE IInv'
<1>1. PICK n, o : /\ n = IF pr[p].changed THEN Max({k.prprio[p], prio}) ELSE prio
                  /\ o = IF pr[p].changed THEN prio ELSE pr[p].oprio
  OBVIOUS
<1>2. /\ p \in Pid /\ prio \in Nat /\ Sane(k, locktab, pr, cont)
      /\ pr \in [Pid -> PrEntry] /\ locktab \in [Lock -> LockEntry] /\ cont \in [Pid -> Cont]
      /\ SchedInv(k) /\ k.ndefers = 0
  BY LockFacts, StepFacts DEF IInv
<1>3. n \in Nat /\ o \in Nat /\ (pr[p].changed => n >= o)
  <2>1. k.prprio[p] \in Nat /\ pr[p].oprio \in Nat
    BY <1>2, SaneFacts
  <2>2. CASE pr[p].changed
    BY <1>1, <1>2, <2>1, <2>2, HigherOf
  <2>3. CASE ~pr[p].changed
    BY <1>1, <1>2, <2>1, <2>3
  <2> QED BY <2>2, <2>3
<1>4. PICK kk, f : kk = [k EXCEPT !.prprio[p] = n] /\ f = [pr EXCEPT ![p].oprio = o, ![p].own = prio]
  OBVIOUS
<1>5. PICK w, l : l = f[p].plock /\ w = SwapPriority(kk, locktab, f, l, {p})
  OBVIOUS
<1>6. PICK k2 : k2 = IF k.prstate[p] = "READY" THEN Resched(w.k) ELSE w.k
  OBVIOUS
<1>7. \/ UNCHANGED <<k, locktab, pr, cont>>
      \/ k' = k2 /\ locktab' = w.tab /\ pr' = w.pr /\ cont' = cont
  <2>1. kk = [k EXCEPT !.prprio[p] = IF pr[p].changed THEN Max({@, prio}) ELSE prio]
    BY <1>1, <1>4
  <2>2. f = [pr EXCEPT ![p].oprio = IF pr[p].changed THEN prio ELSE @, ![p].own = prio]
    BY <1>1, <1>4
  <2> QED BY <1>5, <1>6, <2>1, <2>2 DEF Chprio, Inherit
<1>8. CASE UNCHANGED <<k, locktab, pr, cont>>
  BY <1>8, SameStep
<1>9. CASE k' = k2 /\ locktab' = w.tab /\ pr' = w.pr /\ cont' = cont
  <2>1. /\ SchedInv(kk) /\ kk.prstate = k.prstate /\ kk.ndefers = 0
        /\ \A q \in Pid : kk.prprio[q] = IF q = p THEN n ELSE k.prprio[q]
    <3>1. SchedInv(kk) /\ kk.prstate = k.prstate /\ kk.ndefers = k.ndefers
      BY <1>2, <1>3, <1>4, SetPrioInv
    <3>2. \A q \in Pid : kk.prprio[q] = IF q = p THEN n ELSE k.prprio[q]
      BY <1>2, <1>4 DEF SchedInv, SchedPre, SchedType
    <3> QED BY <1>2, <3>1, <3>2
  <2>2. ASSUME NEW q \in Pid
        PROVE  /\ f[q] \in PrEntry /\ f[q].locks = pr[q].locks /\ f[q].plock = pr[q].plock
               /\ f[q].changed = pr[q].changed
               /\ f[q].oprio = (IF q = p THEN o ELSE pr[q].oprio)
               /\ f[q].own = (IF q = p THEN prio ELSE pr[q].own)
    <3>1. PICK e : e = pr[q] /\ e \in PrEntry
      BY <1>2
    <3>2. f[q] = IF q = p THEN [e EXCEPT !.oprio = o, !.own = prio] ELSE e
      BY <1>2, <1>4, <3>1
    <3> QED BY <1>2, <1>3, <3>1, <3>2 DEF PrEntry
  <2>3. f \in [Pid -> PrEntry]
    BY <1>2, <1>4, <2>2
  <2>4. Sane(kk, locktab, f, cont)
    <3>1. Typed(locktab, f, cont)
      BY <1>2, <2>3 DEF Typed
    <3>2. Holders(locktab, pr) /\ OwnKept(k, pr)
      BY <1>2 DEF Sane
    <3>3. Holders(locktab, f)
      BY <2>2, <3>2 DEF Holders
    <3>4. OwnKept(kk, f)
      <4>1. ASSUME NEW q \in Pid PROVE Own(kk.prprio[q], f[q])
        <5>1. CASE q = p
          <6>1. IF pr[p].changed THEN o = prio /\ n >= o ELSE n = prio
            BY <1>1, <1>3
          <6> QED BY <2>1, <2>2, <5>1, <6>1 DEF Own
        <5>2. CASE q # p
          BY <2>1, <2>2, <3>2, <5>2 DEF OwnKept, Own
        <5> QED BY <5>1, <5>2
      <4> QED BY <4>1 DEF OwnKept
    <3>5. /\ \A q \in Pid : kk.prstate[q] = "WAIT" <=> k.prstate[q] = "WAIT"
          /\ \A q \in Pid : k.prstate[q] = "WAIT" => f[q].plock = pr[q].plock /\ cont[q] = cont[q]
          /\ \A m \in Lock : locktab[m].queue = locktab[m].queue
      BY <2>1, <2>2
    <3> QED BY <1>2, <2>1, <3>1, <3>3, <3>4, <3>5, SaneStep
  <2>5. Sane(w.k, w.tab, w.pr, cont) /\ Swapped(kk, locktab, f, w)
    <3>1. l \in Lock \cup {NoLock} /\ {p} \in SUBSET Pid
      BY <1>2, <1>5, <2>4, SaneFacts
    <3> QED BY <1>5, <2>4, <3>1, SwapKeeps
  <2>6. SchedInv(w.k) /\ w.k.ndefers = 0 /\ w.k.prstate = k.prstate
    BY <2>1, <2>5 DEF Sane, Swapped
  <2>7. /\ SchedInv(k2) /\ k2.ndefers = 0 /\ k2.prprio = w.k.prprio
        /\ \A q \in Pid : k2.prstate[q] = "WAIT" <=> w.k.prstate[q] = "WAIT"
    <3>1. CASE k2 = w.k
      BY <2>6, <3>1
    <3>2. CASE k2 = Resched(w.k)
      BY <2>6, <3>2, ReschedStays
    <3> QED BY <1>6, <3>1, <3>2
  <2>8. Sane(k2, w.tab, w.pr, cont)
    <3>1. Typed(w.tab, w.pr, cont) /\ Holders(w.tab, w.pr) /\ OwnKept(k2, w.pr)
      BY <2>5, <2>7 DEF Sane, OwnKept
    <3>2. /\ \A q \in Pid : w.k.prstate[q] = "WAIT" => w.pr[q].plock = w.pr[q].plock /\ cont[q] = cont[q]
          /\ \A m \in Lock : w.tab[m].queue = w.tab[m].queue
      OBVIOUS
    <3> QED BY <2>5, <2>7, <3>1, <3>2, SaneStep
  <2>9. ASSUME NEW m \in Lock PROVE Held(k2, w.tab, w.pr, cont, m)
    <3>1. Held(k, locktab, pr, cont, m)
      BY DEF IInv, AllHeld
    <3>2. w.tab[m].lstate = locktab[m].lstate /\ w.tab[m].queue = locktab[m].queue
      BY <2>5 DEF Swapped
    <3>3. \A q \in Pid : m \in pr[q].locks => m \in w.pr[q].locks
      BY <2>2, <2>5 DEF Swapped
    <3>4. \A q \in Pid : cont[q].op = "lock" /\ cont[q].lock = m /\ k.prstate[q] # "WAIT"
            => (cont[q] = cont[q] /\ k2.prstate[q] # "WAIT") \/ m \in w.pr[q].locks
      BY <2>6, <2>7
    <3> QED BY <3>1, <3>2, <3>3, <3>4, HeldStep
  <2>10. Sane(k', locktab', pr', cont') /\ AllHeld(k', locktab', pr', cont')
    BY <1>9, <2>8, <2>9 DEF AllHeld
  <2> QED BY <2>10 DEF IInv
<1> QED BY <1>7, <1>8, <1>9

LEMMA DiesPrio ==
  ASSUME NEW kk, SchedInv(kk), kk.ndefers = 0, NEW p \in Pid, p # NULLPROC
  PROVE  Dies(kk, p).prprio = kk.prprio
<1>1. /\ "FREE" \in PrState \ {"CURR", "READY"}
      /\ \A x \in Pid : kk.prstate[x] = "CURR" => x = kk.currpid
  BY DEF PrState, SchedInv, SchedPre, SchedType, OnlyCurrentRuns
<1>2. PICK m : m = Dies(kk, p)
  OBVIOUS
<1>3. CASE kk.prstate[p] = "CURR"
  <2>1. p = kk.currpid /\ m = Block(kk, "FREE")
    BY <1>1, <1>2, <1>3 DEF Dies
  <2>2. m.prprio = kk.prprio
    BY <1>1, <2>1, BlockInv
  <2> QED BY <1>2, <2>2
<1>4. CASE kk.prstate[p] = "READY"
  <2>1. m = Withdraw(kk, p, "FREE")
    BY <1>2, <1>4 DEF Dies
  <2>2. m.prprio = kk.prprio
    BY <1>1, <1>4, <2>1, WithdrawInv
  <2> QED BY <1>2, <2>2
<1>5. CASE kk.prstate[p] \notin {"CURR", "READY"}
  <2>1. m = [kk EXCEPT !.prstate[p] = "FREE"]
    BY <1>2, <1>5 DEF Dies
  <2>2. m.prprio = kk.prprio
    BY <2>1 DEF SchedInv, SchedPre, SchedType
  <2> QED BY <1>2, <2>2
<1> QED BY <1>3, <1>4, <1>5

LEMMA KillStep == ASSUME IInv, NEW p \in Targets, Kill(p) PROVE IInv'
<1>1. PICK kk : kk = Dies(k, p)
  OBVIOUS
<1>2. /\ p \in Pid /\ p # NULLPROC /\ Sane(k, locktab, pr, cont) /\ InUser \in Cont
      /\ pr \in [Pid -> PrEntry] /\ locktab \in [Lock -> LockEntry] /\ cont \in [Pid -> Cont]
      /\ SchedInv(k) /\ k.ndefers = 0
  BY LockFacts, StepFacts DEF IInv
<1>3. /\ SchedInv(kk) /\ kk.ndefers = 0 /\ kk.prprio = k.prprio /\ kk.prstate[p] # "WAIT"
      /\ \A x \in Pid \ {p} : kk.prstate[x] = "WAIT" <=> k.prstate[x] = "WAIT"
  <2>1. /\ SchedInv(kk) /\ kk.ndefers = 0 /\ kk.prstate[p] = "FREE"
        /\ \A x \in Pid \ {p} :
              IF k.prstate[x] \in {"CURR", "READY"}
              THEN kk.prstate[x] \in {"CURR", "READY"}
              ELSE kk.prstate[x] = k.prstate[x]
    BY <1>1, <1>2, DiesInv
  <2>2. kk.prprio = k.prprio
    BY <1>1, <1>2, DiesPrio
  <2> QED BY <2>1, <2>2
<1>4. k' = kk /\ pr' = pr
  BY <1>1 DEF Kill
<1>5. CASE k.prstate[p] # "WAIT"
  <2>1. UNCHANGED <<locktab, pr>> /\ cont' = cont
    BY <1>5 DEF Kill
  <2>2. \A x \in Pid : k'.prstate[x] = "WAIT" <=> k.prstate[x] = "WAIT"
    BY <1>3, <1>4, <1>5
  <2> QED BY <1>2, <1>3, <1>4, <2>1, <2>2, SchedStep
<1>6. CASE k.prstate[p] = "WAIT"
  <2>1. PICK l, q, r, t, c2 : /\ l = pr[p].plock /\ q = locktab[l].queue /\ r = Unlink(q, p)
                             /\ t = [locktab EXCEPT ![l].queue = r]
                             /\ c2 = [cont EXCEPT ![p] = InUser]
    OBVIOUS
  <2>2. locktab' = t /\ cont' = c2
    BY <1>6, <2>1 DEF Kill
  <2>3. cont[p].op = "lock" /\ cont[p].lock = l /\ l \in Lock
    BY <1>2, <1>6, <2>1, StepFacts DEF Sane, Known
  <2>4. InQ(locktab[l].queue, p) /\ q \in Seq(Pid) /\ Once(q)
    BY <1>2, <1>6, <2>1, <2>3, SaneFacts DEF Sane, Waiters
  <2>5. /\ r \in Seq(Pid) /\ Once(r) /\ Len(r) = Len(q) - 1
        /\ \A y : InQ(r, y) <=> InQ(locktab[l].queue, y) /\ y # p
    BY <2>1, <2>4, UnlinkQ
  <2>6. c2 \in [Pid -> Cont] /\ \A x \in Pid : x # p => c2[x] = cont[x]
    BY <1>2, <2>1
  <2>7. ASSUME NEW m \in Lock
        PROVE  /\ t[m] \in LockEntry /\ t[m].plist = locktab[m].plist /\ t[m].lstate = locktab[m].lstate
               /\ t[m].queue = (IF m = l THEN r ELSE locktab[m].queue)
    <3>1. PICK e : e = locktab[m] /\ e \in LockEntry
      BY <1>2
    <3>2. t[m] = IF m = l THEN [e EXCEPT !.queue = r] ELSE e
      BY <1>2, <2>1, <3>1
    <3> QED BY <2>5, <3>1, <3>2 DEF LockEntry
  <2>8. Sane(kk, t, pr, c2)
    <3>1. t \in [Lock -> LockEntry]
      BY <1>2, <2>1, <2>7
    <3>2. Typed(t, pr, c2) /\ Holders(t, pr) /\ OwnKept(kk, pr)
      BY <1>2, <1>3, <2>6, <2>7, <3>1 DEF Sane, Typed, Holders, OwnKept
    <3>3. (\A m \in Lock \ {l} : t[m].queue = locktab[m].queue) /\ t[l].queue = r
      BY <2>3, <2>7
    <3>4. \A y \in Pid \ {p} : c2[y] = cont[y]
      BY <2>6
    <3>5. p \in Pid /\ l \in Lock /\ InQ(locktab[l].queue, p) /\ Sane(k, locktab, pr, cont)
      BY <1>2, <2>3, <2>4
    <3> HIDE DEF Sane, Typed, Holders, OwnKept, SchedInv
    <3> QED BY <1>3, <2>5, <3>2, <3>3, <3>4, <3>5, SaneLeaves
  <2>9. ASSUME NEW m \in Lock PROVE Held(kk, t, pr, c2, m)
    <3>1. Held(k, locktab, pr, cont, m)
      BY DEF IInv, AllHeld
    <3>2. t[m].lstate = locktab[m].lstate
      BY <2>7
    <3>3. t[m].queue # <<>> => locktab[m].queue # <<>>
      <4>1. InQ(locktab[l].queue, p) => locktab[l].queue # <<>>
        BY DEF InQ
      <4> QED BY <2>4, <2>7, <4>1
    <3>4. \A x \in Pid : cont[x].op = "lock" /\ cont[x].lock = m /\ k.prstate[x] # "WAIT"
            => (c2[x] = cont[x] /\ kk.prstate[x] # "WAIT") \/ m \in pr[x].locks
      BY <1>3, <1>6, <2>6
    <3>5. \A x \in Pid : cont[x].op = "ldelete" => c2[x] = cont[x]
      BY <2>3, <2>6
    <3> QED BY <3>1, <3>2, <3>3, <3>4, <3>5, HeldStep
  <2>10. Sane(k', locktab', pr', cont') /\ AllHeld(k', locktab', pr', cont')
    BY <1>4, <2>2, <2>8, <2>9 DEF AllHeld
  <2> QED BY <2>10 DEF IInv
<1> QED BY <1>5, <1>6

-----------------------------------------------------------------------------
LEMMA InitIInv == ASSUME Init PROVE IInv
<1>1. Prio \in [Pid -> Nat] /\ (\A p \in Pid : Prio[p] \in Nat)
  BY LocksAssumption
<1>2. PICK s : s = SchedCreated(Prio)
  OBVIOUS
<1>3. /\ SchedInv(s) /\ s.ndefers = 0
      /\ s.prstate = [p \in Pid |-> CASE p = NULLPROC -> "READY" [] p = 1 -> "CURR" [] OTHER -> "SUSP"]
  BY <1>1, <1>2, SchedCreatedInv
<1>4. \A p \in Pid : s.prstate[p] # "WAIT"
  <2>1. ASSUME NEW p \in Pid PROVE s.prstate[p] # "WAIT"
    <3>1. CASE p = NULLPROC
      BY <1>3, <3>1
    <3>2. CASE p # NULLPROC /\ p = 1
      BY <1>3, <3>2
    <3>3. CASE p # NULLPROC /\ p # 1
      BY <1>3, <3>3
    <3> QED BY <3>1, <3>2, <3>3
  <2> QED BY <2>1
<1>5. PICK z, b, y : z = -1 /\ b = FALSE /\ y = 0
  OBVIOUS
<1>6. z \in Int /\ b \in BOOLEAN /\ y \in Nat /\ y \in Int /\ <<>> \in Seq(Pid) /\ z = NoLock
  <2>1. z = NoLock
    BY <1>5 DEF NoLock
  <2>2. b \in BOOLEAN
    BY <1>5
  <2>3. z \in Int /\ y \in Nat /\ y \in Int /\ <<>> \in Seq(Pid)
    BY <1>5
  <2> QED BY <2>1, <2>2, <2>3
<1>7. /\ locktab = [l \in Lock |-> [lstate |-> "LFREE", lprio |-> z, maxWritePrio |-> z, plist |-> {}, queue |-> <<>>]]
      /\ pr = [p \in Pid |-> [locks |-> {}, nlocks |-> y, plock |-> z, pwaitret |-> "OK", oprio |-> y,
                              changed |-> b, type |-> "READ", key |-> y, own |-> s.prprio[p]]]
      /\ cont = [p \in Pid |-> InUser] /\ k = s
  BY <1>2, <1>5, <1>6 DEF Init
<1>8. /\ locktab \in [Lock -> LockEntry]
      /\ \A l \in Lock : locktab[l].queue = <<>> /\ locktab[l].plist = {} /\ locktab[l].lstate = "LFREE"
  BY <1>6, <1>7 DEF LockEntry
<1>9. pr \in [Pid -> PrEntry] /\ \A p \in Pid : pr[p].changed = FALSE /\ pr[p].own = s.prprio[p]
  <2>1. s.prprio \in [Pid -> Nat]
    BY <1>3 DEF SchedInv, SchedPre, SchedType
  <2> QED BY <1>5, <1>6, <1>7, <2>1 DEF PrEntry
<1>10. cont \in [Pid -> Cont]
  BY <1>7, LockFacts DEF InUser, Cont
<1>11. Waiters(k, locktab, pr)
  <2>1. \A p \in Pid, l \in Lock : ~InQ(locktab[l].queue, p)
    BY <1>8 DEF InQ
  <2>2. \A l \in Lock : Once(locktab[l].queue)
    BY <1>8 DEF Once
  <2> QED BY <1>4, <1>7, <2>1, <2>2 DEF Waiters
<1>12. Known(k, pr, cont) /\ Holders(locktab, pr) /\ OwnKept(k, pr)
  BY <1>4, <1>7, <1>8, <1>9 DEF Known, Holders, OwnKept, Own
<1>13. AllHeld(k, locktab, pr, cont)
  BY <1>8 DEF AllHeld, Held, Locked
<1> QED BY <1>3, <1>7, <1>8, <1>9, <1>10, <1>11, <1>12, <1>13 DEF IInv, Sane, Typed

LEMMA NextIInv == ASSUME IInv, [Next]_vars PROVE IInv'
<1>1. CASE Lcreate BY <1>1, LcreateStep
<1>2. CASE LockReturns BY <1>2, LockReturnsStep
<1>3. CASE ReleaseOne BY <1>3, ReleaseOneStep
<1>4. CASE GrantMore BY <1>4, GrantMoreStep
<1>5. CASE ReleaseEnds BY <1>5, ReleaseEndsStep
<1>6. CASE LdeleteGoesOn BY <1>6, LdeleteGoesOnStep
<1>7. ASSUME NEW l \in Lock, NEW t \in {"READ", "WRITE"}, NEW prio \in LockPrios, LockCall(l, t, prio) PROVE IInv'
  BY <1>7, LockStep
<1>8. ASSUME NEW ls \in Releases, Releaseall(ls) PROVE IInv'
  BY <1>8, ReleaseallStep
<1>9. ASSUME NEW l \in Lock, Ldelete(l) PROVE IInv'
  BY <1>9, LdeleteStep
<1>10. ASSUME NEW p \in UserPid, Resume(p) PROVE IInv'
  BY <1>10, ResumeStep
<1>11. ASSUME NEW p \in Targets, Kill(p) PROVE IInv'
  BY <1>11, KillStep
<1>12. ASSUME NEW p \in Targets, NEW prio \in NewPrios, Chprio(p, prio) PROVE IInv'
  BY <1>12, ChprioStep
<1>13. CASE ClockTick BY <1>13, ClockStep
<1>14. CASE Overflowed \/ UNCHANGED vars
  <2>1. UNCHANGED <<k, locktab, pr, cont>>
    BY <1>14 DEF Overflowed, vars
  <2> QED BY <2>1, SameStep
<1> QED BY <1>1, <1>2, <1>3, <1>4, <1>5, <1>6, <1>7, <1>8, <1>9, <1>10, <1>11, <1>12, <1>13, <1>14 DEF Next

LEMMA IInvAlways == Spec => []IInv
BY InitIInv, NextIInv, PTL DEF Spec

(* lock(), releaseall(), ldelete(), chprio() and kill() lose no waiter: a  *)
(* process is in state WAIT exactly while it is, once, on the queue of the *)
(* lock that its plock names, and the ready list stays in order            *)
(* (system/lock.c, system/releaseall.c, system/ldelete.c).                 *)
THEOREM WaitersQueuedAlways == Spec => []WaitersQueued
<1>1. IInv => WaitersQueued
  BY DEF IInv, Sane, Waiters, WaitersQueued
<1> QED BY <1>1, IInvAlways, PTL

(* A locked lock has a process that counts it among its own or has been    *)
(* woken to have it, and whoever waits, waits for a locked lock or for one *)
(* that is being deleted (system/releaseall.c, system/ldelete.c).          *)
THEOREM LockedMeansHeldAlways == Spec => []LockedMeansHeld
<1>1. ASSUME IInv PROVE LockedMeansHeld
  <2>1. ASSUME NEW l \in Lock
        PROVE  /\ locktab[l].lstate \in Locked => Claimants(l) \cup Woken(l) # {}
               /\ locktab[l].queue # <<>> => locktab[l].lstate \in Locked \/ Deleters(l) # {}
    <3>1. Held(k, locktab, pr, cont, l)
      BY <1>1 DEF IInv, AllHeld
    <3>2. Going(k, pr, cont, l) => Claimants(l) \cup Woken(l) # {}
      BY DEF Going, Claimants, Woken
    <3>3. Deleted(cont, l) => Deleters(l) # {}
      BY DEF Deleted, Deleters
    <3> QED BY <3>1, <3>2, <3>3 DEF Held
  <2> QED BY <2>1 DEF LockedMeansHeld, Locked
<1> QED BY <1>1, IInvAlways, PTL

(* A process has the priority that create() or chprio() last asked for, or *)
(* a higher one and that one to go back to, along every chain of holders,  *)
(* dead ones included (system/lab3functions.c, system/chprio.c).           *)
THEOREM OwnPriorityKeptAlways == Spec => []OwnPriorityKept
<1>1. IInv => OwnPriorityKept
  BY DEF IInv, Sane, OwnKept, Own, OwnPriorityKept
<1> QED BY <1>1, IInvAlways, PTL
=============================================================================
