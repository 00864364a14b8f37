-------------------------- MODULE SemaphoresProofs --------------------------
(***************************************************************************)
(* Theorems about Semaphores, for every number of processes and            *)
(* semaphores, all priorities and every workload.                          *)
(***************************************************************************)
EXTENDS Semaphores, SchedProofs

Typed == /\ sstate \in [Sem -> {"S_FREE", "S_USED"}]
         /\ scount \in [Sem -> Int]
         /\ squeue \in [Sem -> Seq(Pid)]
         /\ prsem \in [Pid -> Sem]
         /\ cont \in [Pid -> Cont]

(* Only the current process is in a loop, and rescheduling is deferred     *)
(* exactly then.                                                           *)
LoopsDeferred ==
  /\ \A p \in Pid : cont[p] # InUser => p = Self /\ p # NULLPROC
  /\ k.ndefers = IF cont[Self] = InUser THEN 0 ELSE 1

(* semdelete() leaves no negative count behind. *)
FreeCounts ==
  \A s \in Sem :
     Used(s) \/ scount[s] >= 0 \/ (cont[Self].op = "semdelete" /\ cont[Self].sem = s)

(* The inductive invariant. *)
IInv == /\ Typed /\ SchedInv(k) /\ LoopsDeferred
        /\ CountIsQueue /\ WaitersQueued /\ FreeCounts

LEMMA SemFacts == /\ NULLPROC \in Pid /\ 1 \in Pid /\ 1 # NULLPROC /\ 0 \in Sem
                  /\ InUser \in Cont
  BY SchedAssumption, SemaphoresAssumption DEF Pid, NULLPROC, Sem, InUser, Cont

(* What IInv says of the current process, in the form the steps use. *)
LEMMA CurrentFacts ==
  ASSUME IInv
  PROVE  /\ SchedInv(k) /\ Self \in Pid /\ Self = k.currpid /\ k.prstate[Self] = "CURR"
         /\ k.prstate \in [Pid -> PrState] /\ k.currpid \in Pid
         /\ k.prprio \in [Pid -> Nat]
         /\ \A p \in Pid : k.prstate[p] = "CURR" => p = Self
         /\ k.prstate[NULLPROC] \in {"CURR", "READY"}
  BY DEF IInv, SchedInv, SchedPre, SchedType, OnlyCurrentRuns, NullEligible, Self

LEMMA InitIInv == Init => IInv
<1> SUFFICES ASSUME Init PROVE IInv
  OBVIOUS
<1>1. k = SchedCreated(Prio) /\ Prio \in [Pid -> Nat]
  BY SemaphoresAssumption DEF Init
<1>2. /\ SchedInv(k) /\ k.currpid = 1 /\ k.ndefers = 0
      /\ k.prstate = [p \in Pid |-> CASE p = NULLPROC -> "READY" [] p = 1 -> "CURR"
                                      [] OTHER -> "SUSP"]
  BY <1>1, SchedCreatedInv
<1> HIDE DEF SchedInv
<1>3. Typed /\ LoopsDeferred
  <2>1. /\ sstate = [s \in Sem |-> "S_FREE"] /\ scount = [s \in Sem |-> 0]
        /\ squeue = [s \in Sem |-> <<>>] /\ prsem = [p \in Pid |-> 0]
        /\ cont = [p \in Pid |-> InUser]
    BY DEF Init
  <2> QED BY <2>1, <1>2, SemFacts DEF Typed, LoopsDeferred, Self
<1>4. CountIsQueue /\ WaitersQueued /\ FreeCounts
  <2>1. /\ scount = [s \in Sem |-> 0] /\ squeue = [s \in Sem |-> <<>>]
        /\ \A p \in Pid : k.prstate[p] # "WAIT"
    BY <1>2 DEF Init
  <2> QED BY <2>1 DEF CountIsQueue, WaitersQueued, FreeCounts, InQ, Once
<1> QED BY <1>2, <1>3, <1>4 DEF IInv

-----------------------------------------------------------------------------
(* What a step does to the processes that wait. *)

(* Nobody starts or stops waiting. *)
LEMMA SameWaiters ==
  ASSUME IInv, UNCHANGED <<squeue, prsem>>,
         \A x \in Pid : k'.prstate[x] = "WAIT" <=> k.prstate[x] = "WAIT"
  PROVE  WaitersQueued'
  BY DEF IInv, WaitersQueued

(* Only p stops waiting, and leaves its queue. *)
LEMMA OneLeaves ==
  ASSUME IInv, NEW s \in Sem, NEW p \in Pid, InQ(squeue[s], p),
         NEW q \in Seq(Pid), squeue' = [squeue EXCEPT ![s] = q], UNCHANGED prsem,
         Once(q), \A y : InQ(q, y) <=> InQ(squeue[s], y) /\ y # p,
         k'.prstate[p] # "WAIT",
         \A x \in Pid \ {p} : k'.prstate[x] = "WAIT" <=> k.prstate[x] = "WAIT"
  PROVE  WaitersQueued' /\ squeue' \in [Sem -> Seq(Pid)]
<1>1. /\ squeue \in [Sem -> Seq(Pid)]
      /\ \A x \in Pid, t \in Sem :
           InQ(squeue[t], x) <=> k.prstate[x] = "WAIT" /\ prsem[x] = t
      /\ \A t \in Sem : Once(squeue[t])
  BY DEF IInv, Typed, WaitersQueued
<1>2. \A t \in Sem : squeue'[t] = IF t = s THEN q ELSE squeue[t]
  BY <1>1
<1>3. squeue' \in [Sem -> Seq(Pid)]
  BY <1>1
<1>4. \A t \in Sem : Once(squeue'[t])
  BY <1>1, <1>2
<1>5. ASSUME NEW x \in Pid, NEW t \in Sem
      PROVE  InQ(squeue'[t], x) <=> k'.prstate[x] = "WAIT" /\ prsem'[x] = t
  <2>1. CASE t = s
    <3>1. InQ(squeue'[t], x) <=> InQ(squeue[s], x) /\ x # p
      BY <1>2, <2>1
    <3> QED BY <1>1, <2>1, <3>1
  <2>2. CASE t # s
    <3>1. squeue'[t] = squeue[t] /\ ~InQ(squeue[t], p)
      BY <1>1, <1>2, <2>2
    <3> QED BY <1>1, <3>1
  <2> QED BY <2>1, <2>2
<1> QED BY <1>3, <1>4, <1>5 DEF WaitersQueued

(* ready(dequeue(squeue)): the first waiter leaves and is made ready. *)
LEMMA FirstLeaves ==
  ASSUME IInv, NEW s \in Sem, squeue[s] # <<>>,
         k' = Awaken(s, k), Shorten(s), UNCHANGED prsem
  PROVE  /\ SchedInv(k') /\ k'.ndefers = k.ndefers
         /\ k.ndefers > 0 => k'.currpid = k.currpid
         /\ WaitersQueued' /\ squeue' \in [Sem -> Seq(Pid)]
         /\ Len(squeue'[s]) = Len(squeue[s]) - 1
         /\ \A t \in Sem \ {s} : squeue'[t] = squeue[t]
<1> DEFINE h == Head(squeue[s])
<1>1. /\ squeue \in [Sem -> Seq(Pid)]
      /\ \A x \in Pid, t \in Sem :
           InQ(squeue[t], x) <=> k.prstate[x] = "WAIT" /\ prsem[x] = t
      /\ Once(squeue[s]) /\ squeue[s] \in Seq(Pid)
  BY DEF IInv, Typed, WaitersQueued
<1>2. /\ k' = Ready(k, h) /\ squeue' = [squeue EXCEPT ![s] = Tail(squeue[s])]
  BY <1>1 DEF Awaken, Shorten
<1>3. /\ Tail(squeue[s]) \in Seq(Pid) /\ Len(Tail(squeue[s])) = Len(squeue[s]) - 1
      /\ h \in Pid /\ InQ(squeue[s], h) /\ Once(Tail(squeue[s]))
      /\ \A y : InQ(Tail(squeue[s]), y) <=> InQ(squeue[s], y) /\ y # h
  BY <1>1, TailQ
<1> HIDE DEF h
<1>4. k.prstate[h] = "WAIT"
  BY <1>1, <1>3
<1>5. /\ SchedInv(k') /\ k'.ndefers = k.ndefers
      /\ k'.prstate[h] \in {"CURR", "READY"}
      /\ \A x \in Pid \ {h} :
           IF k.prstate[x] \in {"CURR", "READY"}
           THEN k'.prstate[x] \in {"CURR", "READY"}
           ELSE k'.prstate[x] = k.prstate[x]
  BY <1>2, <1>3, <1>4, CurrentFacts, ReadyInv
<1>6. k.ndefers > 0 => k'.currpid = k.currpid
  BY <1>2, CurrentFacts DEF Ready, Resched, MakeReady, SchedInv, SchedPre, SchedType
<1> HIDE DEF SchedInv
<1>7. /\ k'.prstate[h] # "WAIT"
      /\ \A x \in Pid \ {h} : k'.prstate[x] = "WAIT" <=> k.prstate[x] = "WAIT"
  BY <1>5
<1>8. WaitersQueued' /\ squeue' \in [Sem -> Seq(Pid)]
  BY <1>2, <1>3, <1>7, OneLeaves
<1>9. squeue'[s] = Tail(squeue[s]) /\ \A t \in Sem \ {s} : squeue'[t] = squeue[t]
  BY <1>1, <1>2
<1> QED BY <1>3, <1>5, <1>6, <1>8, <1>9

-----------------------------------------------------------------------------
(* Counts. *)
CountRight(s) == /\ scount[s] < 0  => Len(squeue[s]) = - scount[s]
                 /\ scount[s] >= 0 => squeue[s] = <<>>

LEMMA CountsRight == CountIsQueue <=> \A s \in Sem : ~Resetting(s) => CountRight(s)
  BY DEF CountIsQueue, CountRight

LEMMA AllInUser ==
  ASSUME IInv, cont[Self] = InUser
  PROVE  /\ k.ndefers = 0 /\ \A p \in Pid : cont[p] = InUser
         /\ \A s \in Sem : ~Resetting(s) /\ CountRight(s)
         /\ \A s \in Sem : Used(s) \/ scount[s] >= 0
  BY CurrentFacts, CountsRight DEF IInv, LoopsDeferred, FreeCounts, Resetting, InUser

(* A step that leaves the continuations alone, taken outside the loops. *)
LEMMA UserStep ==
  ASSUME IInv, cont[Self] = InUser, UNCHANGED cont,
         SchedInv(k'), k'.ndefers = 0,
         WaitersQueued', \A s \in Sem : CountRight(s)',
         sstate' \in [Sem -> {"S_FREE", "S_USED"}], scount' \in [Sem -> Int],
         squeue' \in [Sem -> Seq(Pid)], prsem' \in [Pid -> Sem],
         \A s \in Sem : Used(s)' \/ scount'[s] >= 0
  PROVE  IInv'
<1>1. Typed'
  BY DEF IInv, Typed
<1>2. k'.currpid \in Pid
  BY DEF SchedInv, SchedPre, SchedType
<1>3. LoopsDeferred'
  BY <1>2, AllInUser DEF LoopsDeferred, Self
<1>4. CountIsQueue' /\ FreeCounts'
  BY DEF CountIsQueue, CountRight, FreeCounts
<1> QED BY <1>1, <1>3, <1>4 DEF IInv

(* A step within a loop that goes on. *)
LEMMA LoopStep ==
  ASSUME IInv, cont[Self] # InUser,
         NEW c \in Cont, c # InUser, cont' = [cont EXCEPT ![Self] = c],
         SchedInv(k'), k'.ndefers = k.ndefers, k'.currpid = k.currpid,
         WaitersQueued', CountIsQueue', FreeCounts',
         UNCHANGED <<sstate, prsem>>, scount' \in [Sem -> Int],
         squeue' \in [Sem -> Seq(Pid)]
  PROVE  IInv'
<1>1. Self' = Self /\ Self \in Pid
  BY CurrentFacts DEF Self
<1>2. Typed'
  BY <1>1 DEF IInv, Typed
<1>3. LoopsDeferred'
  BY <1>1 DEF IInv, Typed, LoopsDeferred
<1> QED BY <1>2, <1>3 DEF IInv

(* The step that ends a loop and makes up for the deferred resched(). *)
LEMMA LoopEnds ==
  ASSUME IInv, cont[Self] # InUser, k' = DeferStop(k),
         cont' = [cont EXCEPT ![Self] = InUser],
         UNCHANGED <<sstate, squeue, prsem>>, scount' \in [Sem -> Int],
         \A s \in Sem : CountRight(s)', \A s \in Sem : Used(s) \/ scount'[s] >= 0
  PROVE  IInv'
<1>1. k.ndefers = 1 /\ Self \in Pid /\ SchedInv(k)
  BY CurrentFacts DEF IInv, LoopsDeferred
<1>2. /\ SchedInv(k') /\ k'.ndefers = 0
      /\ \A p \in Pid : IF k.prstate[p] \in {"CURR", "READY"}
                        THEN k'.prstate[p] \in {"CURR", "READY"}
                        ELSE k'.prstate[p] = k.prstate[p]
  BY <1>1, DeferInv
<1>3. k'.currpid \in Pid
  BY <1>2 DEF SchedInv, SchedPre, SchedType
<1>4. cont \in [Pid -> Cont] /\ \A p \in Pid : cont'[p] = InUser
  BY <1>1 DEF IInv, Typed, LoopsDeferred
<1>5. LoopsDeferred'
  BY <1>2, <1>3, <1>4 DEF LoopsDeferred, Self
<1> HIDE DEF SchedInv
<1>6. WaitersQueued'
  BY <1>2, SameWaiters
<1>7. Typed'
  BY <1>1, <1>4, SemFacts DEF IInv, Typed
<1>8. CountIsQueue' /\ FreeCounts'
  BY CountsRight DEF CountIsQueue, CountRight, FreeCounts, Used
<1> QED BY <1>2, <1>5, <1>6, <1>7, <1>8 DEF IInv

-----------------------------------------------------------------------------
LEMMA WaitStep ==
  ASSUME IInv, NEW s \in Sem, Wait(s) PROVE IInv'
<1>0. /\ cont[Self] = InUser /\ UNCHANGED <<sstate, nextsem, cont>>
      /\ Self # NULLPROC /\ Self \in Pid
      /\ scount' = [scount EXCEPT ![s] = scount[s] - 1]
      /\ scount \in [Sem -> Int] /\ squeue \in [Sem -> Seq(Pid)]
      /\ prsem \in [Pid -> Sem] /\ sstate \in [Sem -> {"S_FREE", "S_USED"}]
  BY CurrentFacts DEF Wait, Calling, IInv, Typed
<1>1. k.ndefers = 0 /\ \A t \in Sem : CountRight(t)
  BY <1>0, AllInUser
<1>2. scount' \in [Sem -> Int] /\ scount'[s] = scount[s] - 1
      /\ \A t \in Sem \ {s} : scount'[t] = scount[t]
  BY <1>0
<1>f. \A t \in Sem : Used(t)' \/ scount'[t] >= 0
  BY <1>0, <1>2, AllInUser DEF Wait, Used
<1>3. CASE scount[s] - 1 >= 0
  <2>1. UNCHANGED <<k, squeue, prsem>>
    BY <1>0, <1>3 DEF Wait
  <2>2. \A t \in Sem : CountRight(t)'
    BY <1>0, <1>1, <1>2, <1>3, <2>1 DEF CountRight
  <2>3. WaitersQueued'
    BY <2>1, SameWaiters
  <2> QED BY <1>0, <1>1, <1>2, <1>f, <2>1, <2>2, <2>3, CurrentFacts, UserStep
<1>4. CASE scount[s] - 1 < 0
  <2>1. /\ prsem' = [prsem EXCEPT ![Self] = s]
        /\ squeue' = [squeue EXCEPT ![s] = Append(squeue[s], Self)]
        /\ k' = Block(k, "WAIT")
    BY <1>0, <1>4 DEF Wait
  <2>2. /\ SchedInv(k') /\ k'.ndefers = 0 /\ k'.prstate[Self] = "WAIT"
        /\ \A x \in Pid \ {Self} :
             IF k.prstate[x] = "READY" THEN k'.prstate[x] \in {"CURR", "READY"}
                                       ELSE k'.prstate[x] = k.prstate[x]
    <3>1. /\ "WAIT" \in PrState \ {"CURR", "READY"}
          /\ k.currpid = Self /\ SchedInv(k)
      BY CurrentFacts DEF PrState
    <3>2. k.currpid # NULLPROC /\ k.ndefers = 0 /\ k' = Block(k, "WAIT")
      BY <1>0, <1>1, <2>1, <3>1
    <3>3. /\ SchedInv(k') /\ k'.ndefers = k.ndefers /\ k'.prstate[k.currpid] = "WAIT"
          /\ \A x \in Pid \ {k.currpid} :
               IF k.prstate[x] = "READY" THEN k'.prstate[x] \in {"CURR", "READY"}
                                         ELSE k'.prstate[x] = k.prstate[x]
      BY <3>1, <3>2, BlockInv
    <3> QED BY <3>1, <3>2, <3>3
  <2> HIDE DEF SchedInv
  <2>3. /\ \A x \in Pid, t \in Sem :
             InQ(squeue[t], x) <=> k.prstate[x] = "WAIT" /\ prsem[x] = t
        /\ \A t \in Sem : Once(squeue[t])
    BY DEF IInv, WaitersQueued
  <2>4. \A t \in Sem : ~InQ(squeue[t], Self)
    BY <1>0, <2>3, CurrentFacts
  <2>5. /\ squeue'[s] \in Seq(Pid) /\ Len(squeue'[s]) = Len(squeue[s]) + 1
        /\ Once(squeue'[s])
        /\ \A y : InQ(squeue'[s], y) <=> InQ(squeue[s], y) \/ y = Self
        /\ \A t \in Sem \ {s} : squeue'[t] = squeue[t]
        /\ squeue' \in [Sem -> Seq(Pid)]
    <3>1. squeue[s] \in Seq(Pid) /\ squeue'[s] = Append(squeue[s], Self)
      BY <1>0, <2>1
    <3>2. /\ Append(squeue[s], Self) \in Seq(Pid)
          /\ Len(Append(squeue[s], Self)) = Len(squeue[s]) + 1
          /\ Once(Append(squeue[s], Self))
          /\ \A y : InQ(Append(squeue[s], Self), y) <=> InQ(squeue[s], y) \/ y = Self
      BY <1>0, <2>3, <2>4, <3>1, AppendQ
    <3> QED BY <1>0, <2>1, <3>1, <3>2
  <2>6. WaitersQueued'
    <3>1. ASSUME NEW x \in Pid, NEW t \in Sem
          PROVE  InQ(squeue'[t], x) <=> k'.prstate[x] = "WAIT" /\ prsem'[x] = t
      <4>1. CASE x = Self
        BY <1>0, <2>1, <2>2, <2>4, <2>5, <4>1
      <4>2. CASE x # Self
        <5>1. InQ(squeue'[t], x) <=> InQ(squeue[t], x)
          BY <2>5, <4>2
        <5>2. prsem'[x] = prsem[x] /\ (k'.prstate[x] = "WAIT" <=> k.prstate[x] = "WAIT")
          BY <1>0, <2>1, <2>2, <4>2
        <5> QED BY <2>3, <5>1, <5>2
      <4> QED BY <4>1, <4>2
    <3> QED BY <2>3, <2>5, <3>1 DEF WaitersQueued
  <2>7. \A t \in Sem : CountRight(t)'
    <3>1. CountRight(s)'
      <4>1. Len(squeue[s]) = - scount[s]
        BY <1>0, <1>1, <1>4 DEF CountRight
      <4>2. PICK n \in Nat, c \in Int :
              n = Len(squeue[s]) /\ c = scount[s] /\ n = - c /\ c - 1 < 0
        BY <1>0, <1>4, <4>1
      <4>3. scount'[s] = c - 1 /\ Len(squeue'[s]) = n + 1
        BY <1>0, <1>2, <2>5, <4>2
      <4>4. Len(squeue'[s]) = - scount'[s] /\ scount'[s] < 0
        BY ONLY n \in Nat, c \in Int, <4>2, <4>3
      <4>5. ~(scount'[s] >= 0)
        BY ONLY c \in Int, <4>2, <4>3
      <4> QED BY ONLY <4>4, <4>5 DEF CountRight
    <3>2. \A t \in Sem \ {s} : CountRight(t)'
      BY <1>1, <1>2, <2>5 DEF CountRight
    <3> QED BY <3>1, <3>2
  <2>8. prsem' \in [Pid -> Sem]
    BY <1>0, <2>1
  <2> QED BY <1>0, <1>2, <1>f, <2>2, <2>5, <2>6, <2>7, <2>8, UserStep
<1> QED BY <1>0, <1>3, <1>4

(* scount++ and, if it was negative, ready(dequeue(squeue)). *)
LEMMA IncrementKeeps ==
  ASSUME IInv, NEW s \in Sem, CountRight(s), Increment(s), UNCHANGED prsem
  PROVE  /\ SchedInv(k') /\ k'.ndefers = k.ndefers
         /\ k.ndefers > 0 => k'.currpid = k.currpid
         /\ WaitersQueued' /\ squeue' \in [Sem -> Seq(Pid)]
         /\ scount' \in [Sem -> Int]
         /\ CountRight(s)'
         /\ \A t \in Sem \ {s} : CountRight(t) => CountRight(t)'
         /\ \A t \in Sem : scount'[t] >= scount[t]
<1>0. /\ scount \in [Sem -> Int] /\ squeue \in [Sem -> Seq(Pid)]
      /\ scount' = [scount EXCEPT ![s] = scount[s] + 1]
  BY DEF IInv, Typed, Increment
<1>1. /\ scount' \in [Sem -> Int] /\ scount'[s] = scount[s] + 1
      /\ \A t \in Sem \ {s} : scount'[t] = scount[t]
  BY <1>0
<1>4. \A t \in Sem : scount'[t] >= scount[t]
  BY <1>0
<1>2. CASE scount[s] < 0
  <2>1. /\ Len(squeue[s]) = - scount[s] /\ squeue[s] # <<>>
        /\ k' = Awaken(s, k) /\ Shorten(s)
    <3>1. Len(squeue[s]) = - scount[s] /\ Len(squeue[s]) > 0
      BY <1>0, <1>2 DEF CountRight
    <3> QED BY <1>2, <3>1 DEF Increment
  <2>2. /\ SchedInv(k') /\ k'.ndefers = k.ndefers
        /\ k.ndefers > 0 => k'.currpid = k.currpid
        /\ WaitersQueued' /\ squeue' \in [Sem -> Seq(Pid)]
        /\ Len(squeue'[s]) = Len(squeue[s]) - 1
        /\ \A t \in Sem \ {s} : squeue'[t] = squeue[t]
    BY <2>1, FirstLeaves
  <2> HIDE DEF SchedInv
  <2>3. CountRight(s)'
    <3>1. Len(squeue'[s]) = - scount'[s] /\ scount'[s] <= 0 /\ squeue'[s] \in Seq(Pid)
      BY <1>0, <1>1, <1>2, <2>1, <2>2
    <3>2. Len(squeue'[s]) = 0 => squeue'[s] = <<>>
      BY <3>1
    <3> QED BY <1>1, <3>1, <3>2 DEF CountRight
  <2>4. \A t \in Sem \ {s} : CountRight(t) => CountRight(t)'
    BY <1>1, <2>2 DEF CountRight
  <2> QED BY <1>1, <1>4, <2>2, <2>3, <2>4
<1>3. CASE scount[s] >= 0
  <2>1. UNCHANGED <<squeue, k>>
    BY <1>0, <1>3 DEF Increment
  <2>2. WaitersQueued'
    BY <2>1, SameWaiters
  <2>3. CountRight(s)' /\ \A t \in Sem \ {s} : CountRight(t) => CountRight(t)'
    BY <1>0, <1>1, <1>3, <2>1 DEF CountRight
  <2> QED BY <1>0, <1>1, <1>4, <2>1, <2>2, <2>3, CurrentFacts
<1> QED BY <1>0, <1>2, <1>3, <1>4

LEMMA SignalStep ==
  ASSUME IInv, NEW s \in Sem, Signal(s) PROVE IInv'
<1>1. /\ cont[Self] = InUser /\ Increment(s) /\ UNCHANGED <<sstate, prsem, cont>>
      /\ sstate \in [Sem -> {"S_FREE", "S_USED"}] /\ prsem \in [Pid -> Sem]
  BY DEF Signal, Calling, IInv, Typed
<1>2. k.ndefers = 0 /\ \A t \in Sem : CountRight(t)
  BY <1>1, AllInUser
<1>3. /\ SchedInv(k') /\ k'.ndefers = 0
      /\ WaitersQueued' /\ squeue' \in [Sem -> Seq(Pid)]
      /\ scount' \in [Sem -> Int]
      /\ \A t \in Sem : CountRight(t)'
  BY <1>1, <1>2, IncrementKeeps
<1> HIDE DEF SchedInv
<1>4. \A t \in Sem : Used(t)' \/ scount'[t] >= 0
  <2>1. \A t \in Sem : scount[t] \in Int /\ scount'[t] \in Int /\ scount'[t] >= scount[t]
    BY <1>1, <1>2, <1>3, IncrementKeeps DEF IInv, Typed
  <2> QED BY <1>1, <2>1, AllInUser DEF Used
<1> QED BY <1>1, <1>3, <1>4, UserStep

(* The calls that begin a loop: rescheduling is deferred. *)
LEMMA LoopBegins ==
  ASSUME IInv, cont[Self] = InUser, Self # NULLPROC,
         NEW c \in Cont, c # InUser, cont' = [cont EXCEPT ![Self] = c],
         k' = DeferStart(k), UNCHANGED <<scount, squeue, prsem>>,
         sstate' \in [Sem -> {"S_FREE", "S_USED"}],
         \A s \in Sem : Used(s) => Used(s)' \/ (c.op = "semdelete" /\ c.sem = s)
  PROVE  IInv'
<1>1. /\ k.ndefers = 0 /\ \A p \in Pid : cont[p] = InUser
      /\ \A s \in Sem : CountRight(s)
  BY AllInUser
<1>2. /\ SchedInv(k') /\ k'.ndefers = 1 /\ k'.prstate = k.prstate
      /\ k'.currpid = k.currpid
  BY <1>1, CurrentFacts, DeferInv
<1> HIDE DEF SchedInv
<1>3. Self' = Self /\ Self \in Pid /\ cont \in [Pid -> Cont]
  BY <1>2, CurrentFacts DEF Self, IInv, Typed
<1>4. Typed'
  BY <1>3 DEF IInv, Typed
<1>5. LoopsDeferred'
  BY <1>1, <1>2, <1>3 DEF LoopsDeferred
<1>6. WaitersQueued'
  BY <1>2, SameWaiters
<1>7. CountIsQueue'
  BY <1>1 DEF CountIsQueue, CountRight
<1>8. FreeCounts'
  BY <1>3, AllInUser DEF FreeCounts
<1> QED BY <1>2, <1>4, <1>5, <1>6, <1>7, <1>8 DEF IInv

LEMMA BeginStep ==
  ASSUME IInv, NEW s \in Sem, NEW n \in Nat,
         \/ Signaln(s, n) \/ Semdelete(s) \/ Semreset(s, n)
  PROVE  IInv'
<1>1. sstate \in [Sem -> {"S_FREE", "S_USED"}]
  BY DEF IInv, Typed
<1>2. PICK c \in {[op |-> "signaln", sem |-> s, n |-> n],
                  [op |-> "semdelete", sem |-> s, n |-> 0],
                  [op |-> "semreset", sem |-> s, n |-> n]} :
         cont' = [cont EXCEPT ![Self] = c]
  BY DEF Signaln, Semdelete, Semreset, Goto
<1>3. c \in Cont /\ c # InUser
  BY <1>2 DEF Cont, Loops, InUser
<1>4. /\ cont[Self] = InUser /\ Self # NULLPROC /\ k' = DeferStart(k)
      /\ UNCHANGED <<scount, squeue, prsem>>
      /\ sstate' \in [Sem -> {"S_FREE", "S_USED"}]
  BY <1>1 DEF Signaln, Semdelete, Semreset, Calling, semvars
<1>5. \A t \in Sem : Used(t) => Used(t)' \/ (c.op = "semdelete" /\ c.sem = t)
  <2>1. CASE Semdelete(s)
    <3>1. /\ sstate' = [sstate EXCEPT ![s] = "S_FREE"]
          /\ cont' = [cont EXCEPT ![Self] = [op |-> "semdelete", sem |-> s, n |-> 0]]
      BY <2>1 DEF Semdelete, Goto
    <3>2. c = [op |-> "semdelete", sem |-> s, n |-> 0]
      BY <1>2, <3>1, CurrentFacts DEF IInv, Typed
    <3> QED BY <1>1, <3>1, <3>2 DEF Used
  <2>2. CASE Signaln(s, n) \/ Semreset(s, n)
    BY <2>2 DEF Signaln, Semreset, semvars, Used
  <2> QED BY <2>1, <2>2
<1> QED BY <1>2, <1>3, <1>4, <1>5, LoopBegins

(* What holds inside a loop. *)
LEMMA InLoop ==
  ASSUME IInv, cont[Self].op \in Loops
  PROVE  /\ cont[Self] # InUser /\ cont[Self] \in Cont /\ k.ndefers = 1
         /\ cont[Self].sem \in Sem /\ cont[Self].n \in Nat
         /\ cont \in [Pid -> Cont] /\ Self \in Pid /\ k.currpid = Self
         /\ scount \in [Sem -> Int] /\ squeue \in [Sem -> Seq(Pid)]
         /\ \A t \in Sem :
              (t = cont[Self].sem /\ cont[Self].op = "semreset") \/ CountRight(t)
         /\ \A t \in Sem :
              (t = cont[Self].sem /\ cont[Self].op = "semdelete")
                \/ Used(t) \/ scount[t] >= 0
<1>1. /\ Self \in Pid /\ k.currpid = Self /\ cont \in [Pid -> Cont]
      /\ scount \in [Sem -> Int] /\ squeue \in [Sem -> Seq(Pid)]
  BY CurrentFacts DEF IInv, Typed
<1>2. cont[Self] # InUser
  BY ONLY cont[Self].op \in Loops DEF InUser, Loops
<1>3. k.ndefers = 1
  BY <1>2 DEF IInv, LoopsDeferred
<1>4. cont[Self] \in Cont
  BY <1>1
<1>5. cont[Self].sem \in Sem /\ cont[Self].n \in Nat
  BY ONLY <1>4 DEF Cont
<1>6. \A t \in Sem :
        (t = cont[Self].sem /\ cont[Self].op = "semreset") \/ CountRight(t)
  BY CountsRight DEF IInv, Resetting
<1>7. \A t \in Sem :
        (t = cont[Self].sem /\ cont[Self].op = "semdelete")
          \/ Used(t) \/ scount[t] >= 0
  BY DEF IInv, FreeCounts
<1> QED BY <1>1, <1>2, <1>3, <1>4, <1>5, <1>6, <1>7

LEMMA SignalnStep ==
  ASSUME IInv, SignalnGoesOn PROVE IInv'
<1> DEFINE s == cont[Self].sem
           n == cont[Self].n
<1>0. cont[Self].op = "signaln" /\ UNCHANGED <<sstate, prsem>>
  BY DEF SignalnGoesOn
<1>1. /\ cont[Self] # InUser /\ k.ndefers = 1 /\ s \in Sem /\ n \in Nat
      /\ scount \in [Sem -> Int]
      /\ \A t \in Sem : CountRight(t)
      /\ \A t \in Sem : Used(t) \/ scount[t] >= 0
  BY <1>0, InLoop DEF Loops
<1>2. \/ n > 0 /\ Increment(s) /\ Goto("signaln", s, n - 1)
      \/ n = 0 /\ k' = DeferStop(k) /\ Return /\ UNCHANGED <<scount, squeue>>
  BY DEF SignalnGoesOn
<1> HIDE DEF s, n
<1>3. CASE n > 0 /\ Increment(s) /\ Goto("signaln", s, n - 1)
  <2>1. /\ SchedInv(k') /\ k'.ndefers = k.ndefers /\ k'.currpid = k.currpid
        /\ WaitersQueued' /\ squeue' \in [Sem -> Seq(Pid)]
        /\ scount' \in [Sem -> Int]
        /\ \A t \in Sem : CountRight(t)'
    BY <1>0, <1>1, <1>3, IncrementKeeps
  <2> DEFINE c == [op |-> "signaln", sem |-> s, n |-> n - 1]
  <2>2. n - 1 \in Nat
    BY <1>1, <1>3
  <2>3. c \in Cont /\ c # InUser /\ cont' = [cont EXCEPT ![Self] = c]
    BY <1>1, <1>3, <2>2 DEF Cont, Loops, InUser, Goto
  <2> HIDE DEF c, SchedInv
  <2>4. CountIsQueue'
    BY <2>1 DEF CountIsQueue, CountRight
  <2>5. FreeCounts'
    <3>1. \A t \in Sem : scount'[t] \in Int /\ scount'[t] >= scount[t]
      BY <1>0, <1>1, <1>3, <2>1, IncrementKeeps
    <3> QED BY <1>0, <1>1, <3>1 DEF FreeCounts, Used
  <2> QED BY <1>0, <1>1, <2>1, <2>3, <2>4, <2>5, LoopStep
<1>4. CASE n = 0 /\ k' = DeferStop(k) /\ Return /\ UNCHANGED <<scount, squeue>>
  <2>1. \A t \in Sem : CountRight(t)'
    BY <1>1, <1>4 DEF CountRight
  <2>2. \A t \in Sem : Used(t) \/ scount'[t] >= 0
    BY <1>1, <1>4
  <2> QED BY <1>0, <1>1, <1>4, <2>1, <2>2, LoopEnds DEF Return
<1> QED BY <1>2, <1>3, <1>4

LEMMA SemdeleteStep ==
  ASSUME IInv, SemdeleteGoesOn PROVE IInv'
<1> DEFINE s == cont[Self].sem
<1>0. cont[Self].op = "semdelete" /\ UNCHANGED <<sstate, prsem>>
  BY DEF SemdeleteGoesOn
<1>1. /\ cont[Self] # InUser /\ cont[Self] \in Cont /\ cont \in [Pid -> Cont]
      /\ k.ndefers = 1 /\ s \in Sem /\ Self \in Pid
      /\ scount \in [Sem -> Int] /\ squeue \in [Sem -> Seq(Pid)]
      /\ \A t \in Sem : CountRight(t)
      /\ \A t \in Sem : t = s \/ Used(t) \/ scount[t] >= 0
  BY <1>0, InLoop DEF Loops
<1>2. /\ scount' = [scount EXCEPT ![s] = scount[s] + 1]
      /\ \/ scount[s] < 0 /\ Shorten(s) /\ k' = Awaken(s, k) /\ UNCHANGED cont
         \/ scount[s] >= 0 /\ k' = DeferStop(k) /\ Return /\ UNCHANGED squeue
  BY DEF SemdeleteGoesOn
<1>a. \A t \in Sem \ {s} : scount'[t] = scount[t]
  BY <1>1, <1>2
<1>3. CASE scount[s] < 0 /\ Shorten(s) /\ k' = Awaken(s, k) /\ UNCHANGED cont
  <2>1. Increment(s)
    BY <1>2, <1>3 DEF Increment
  <2>2. /\ SchedInv(k') /\ k'.ndefers = k.ndefers /\ k'.currpid = k.currpid
        /\ WaitersQueued' /\ squeue' \in [Sem -> Seq(Pid)]
        /\ scount' \in [Sem -> Int]
        /\ \A t \in Sem : CountRight(t)'
    BY <1>0, <1>1, <2>1, IncrementKeeps
  <2> HIDE DEF SchedInv
  <2>3. CountIsQueue'
    BY <2>2 DEF CountIsQueue, CountRight
  <2>4. cont' = [cont EXCEPT ![Self] = cont[Self]]
    BY <1>1, <1>3
  <2>5. FreeCounts'
    BY <1>0, <1>1, <1>3, <1>a, <2>2 DEF FreeCounts, Used, Self
  <2> QED BY <1>0, <1>1, <2>2, <2>3, <2>4, <2>5, LoopStep
<1>4. CASE scount[s] >= 0 /\ k' = DeferStop(k) /\ Return /\ UNCHANGED squeue
  <2>1. \A t \in Sem : CountRight(t)'
    BY <1>1, <1>2, <1>4 DEF CountRight
  <2>2. scount' \in [Sem -> Int]
    BY <1>1, <1>2
  <2>3. \A t \in Sem : Used(t) \/ scount'[t] >= 0
    BY <1>1, <1>2, <1>4
  <2> QED BY <1>0, <1>1, <1>4, <2>1, <2>2, <2>3, LoopEnds DEF Return
<1> QED BY <1>2, <1>3, <1>4

LEMMA SemresetStep ==
  ASSUME IInv, SemresetGoesOn PROVE IInv'
<1> DEFINE n == cont[Self].n
<1>0. cont[Self].op = "semreset" /\ UNCHANGED <<sstate, prsem>>
  BY DEF SemresetGoesOn
<1>s. PICK s \in Sem : s = cont[Self].sem
  BY <1>0, InLoop DEF Loops
<1>1. /\ cont[Self] # InUser /\ cont[Self] \in Cont /\ cont \in [Pid -> Cont]
      /\ k.ndefers = 1 /\ n \in Nat /\ Self \in Pid /\ k.currpid = Self
      /\ scount \in [Sem -> Int] /\ squeue \in [Sem -> Seq(Pid)]
      /\ \A t \in Sem : t = s \/ CountRight(t)
      /\ \A t \in Sem : Used(t) \/ scount[t] >= 0
  BY <1>0, <1>s, InLoop DEF Loops
<1>2. \/ /\ squeue[s] # <<>>
         /\ Shorten(s) /\ k' = Awaken(s, k) /\ UNCHANGED <<scount, cont>>
      \/ /\ squeue[s] = <<>> /\ scount' = [scount EXCEPT ![s] = n]
         /\ k' = DeferStop(k) /\ Return /\ UNCHANGED squeue
  BY <1>s DEF SemresetGoesOn
<1> HIDE DEF n
<1>3. CASE /\ squeue[s] # <<>>
           /\ Shorten(s) /\ k' = Awaken(s, k) /\ UNCHANGED <<scount, cont>>
  <2>1. /\ SchedInv(k') /\ k'.ndefers = k.ndefers /\ k'.currpid = k.currpid
        /\ WaitersQueued' /\ squeue' \in [Sem -> Seq(Pid)]
        /\ \A t \in Sem \ {s} : squeue'[t] = squeue[t]
    BY <1>0, <1>1, <1>3, FirstLeaves
  <2> HIDE DEF SchedInv
  <2>2. Resetting(s)' /\ \A t \in Sem : Resetting(t)' => t = s
    BY <1>0, <1>1, <1>3, <1>s, <2>1 DEF Resetting, Self
  <2>3. CountIsQueue'
    BY <1>1, <1>3, <2>1, <2>2 DEF CountIsQueue, CountRight
  <2>4. cont' = [cont EXCEPT ![Self] = cont[Self]] /\ scount' \in [Sem -> Int]
    BY <1>1, <1>3
  <2>5. FreeCounts'
    BY <1>0, <1>1, <1>3 DEF FreeCounts, Used
  <2> QED BY <1>0, <1>1, <2>1, <2>3, <2>4, <2>5, LoopStep
<1>4. CASE /\ squeue[s] = <<>> /\ scount' = [scount EXCEPT ![s] = n]
           /\ k' = DeferStop(k) /\ Return /\ UNCHANGED squeue
  <2>1. \A t \in Sem : CountRight(t)'
    BY <1>1, <1>4 DEF CountRight
  <2>2. scount' \in [Sem -> Int]
    BY <1>1, <1>4
  <2>3. \A t \in Sem : Used(t) \/ scount'[t] >= 0
    BY <1>1, <1>4
  <2> QED BY <1>0, <1>1, <1>4, <2>1, <2>2, <2>3, LoopEnds DEF Return
<1> QED BY <1>2, <1>3, <1>4

-----------------------------------------------------------------------------
LEMMA SemcreateStep ==
  ASSUME IInv, NEW c \in Nat, Semcreate(c) PROVE IInv'
<1>1. PICK s \in Sem : /\ sstate[s] # "S_USED"
                      /\ sstate' = [sstate EXCEPT ![s] = "S_USED"]
                      /\ scount' = [scount EXCEPT ![s] = c]
  BY DEF Semcreate, NewSem, Used
<1>2. cont[Self] = InUser /\ UNCHANGED <<k, squeue, prsem, cont>> /\ Typed
  BY DEF Semcreate, Calling, IInv
<1>3. /\ k.ndefers = 0 /\ squeue[s] = <<>>
      /\ \A t \in Sem : CountRight(t) /\ (Used(t) \/ scount[t] >= 0)
  <2>1. /\ k.ndefers = 0
        /\ \A t \in Sem : CountRight(t) /\ (Used(t) \/ scount[t] >= 0)
    BY <1>2, AllInUser
  <2> QED BY <1>1, <2>1 DEF Used, CountRight
<1>4. /\ scount'[s] = c /\ c >= 0 /\ scount' \in [Sem -> Int]
      /\ \A t \in Sem \ {s} : scount'[t] = scount[t]
      /\ sstate' \in [Sem -> {"S_FREE", "S_USED"}] /\ sstate'[s] = "S_USED"
      /\ \A t \in Sem \ {s} : sstate'[t] = sstate[t]
  BY <1>1, <1>2 DEF Typed
<1>5. \A t \in Sem : CountRight(t)'
  BY <1>2, <1>3, <1>4 DEF CountRight
<1>6. \A t \in Sem : Used(t)' \/ scount'[t] >= 0
  BY <1>3, <1>4 DEF Used
<1>7. WaitersQueued'
  BY <1>2, SameWaiters
<1> QED BY <1>2, <1>3, <1>4, <1>5, <1>6, <1>7, CurrentFacts, UserStep DEF Typed

LEMMA ResumeStep ==
  ASSUME IInv, NEW p \in UserPid, Resume(p) PROVE IInv'
<1>1. /\ p \in Pid /\ k.prstate[p] = "SUSP" /\ k' = Ready(k, p)
      /\ cont[Self] = InUser /\ UNCHANGED <<sstate, scount, squeue, prsem, cont>>
      /\ Typed
  BY DEF Resume, UserPid, Calling, semvars, IInv
<1>2. k.ndefers = 0 /\ \A t \in Sem : CountRight(t)
  BY <1>1, AllInUser
<1>3. /\ SchedInv(k') /\ k'.ndefers = k.ndefers
      /\ k'.prstate[p] \in {"CURR", "READY"}
      /\ \A x \in Pid \ {p} :
           IF k.prstate[x] \in {"CURR", "READY"}
           THEN k'.prstate[x] \in {"CURR", "READY"}
           ELSE k'.prstate[x] = k.prstate[x]
  BY <1>1, CurrentFacts, ReadyInv
<1> HIDE DEF SchedInv
<1>4. WaitersQueued'
  BY <1>1, <1>3, SameWaiters
<1>5. \A t \in Sem : CountRight(t)' /\ (Used(t)' \/ scount'[t] >= 0)
  BY <1>1, <1>2, AllInUser DEF CountRight, Used
<1> QED BY <1>1, <1>2, <1>3, <1>4, <1>5, UserStep DEF Typed

LEMMA ClockStep ==
  ASSUME IInv, ClockTick PROVE IInv'
<1>1. /\ k' = Tick(k) /\ Typed
      /\ cont[Self] = InUser /\ UNCHANGED <<sstate, scount, squeue, prsem, cont>>
  BY DEF ClockTick, semvars, IInv
<1>2. k.ndefers = 0 /\ \A t \in Sem : CountRight(t)
  BY <1>1, AllInUser
<1>3. SchedInv(k') /\ SameButRunning(k, k')
  BY <1>1, <1>2, CurrentFacts, TickInv
<1> HIDE DEF SchedInv
<1>4. WaitersQueued'
  BY <1>1, <1>3, SameWaiters DEF SameButRunning
<1>5. \A t \in Sem : CountRight(t)' /\ (Used(t)' \/ scount'[t] >= 0)
  BY <1>1, <1>2, AllInUser DEF CountRight, Used
<1> QED BY <1>1, <1>2, <1>3, <1>4, <1>5, UserStep DEF Typed, SameButRunning

LEMMA KillStep ==
  ASSUME IInv, NEW p \in UserPid, Kill(p) PROVE IInv'
<1>1. /\ p \in Pid /\ p # NULLPROC /\ k' = Dies(k, p) /\ Typed
      /\ cont[Self] = InUser /\ UNCHANGED <<sstate, prsem, cont>>
  BY DEF Kill, UserPid, Calling, IInv
<1>2. k.ndefers = 0 /\ \A t \in Sem : CountRight(t)
  BY <1>1, AllInUser
<1>3. /\ SchedInv(k') /\ k'.ndefers = 0
      /\ k'.prstate[p] = "FREE"
      /\ \A x \in Pid \ {p} :
           IF k.prstate[x] \in {"CURR", "READY"}
           THEN k'.prstate[x] \in {"CURR", "READY"} ELSE k'.prstate[x] = k.prstate[x]
  BY <1>1, <1>2, CurrentFacts, DiesInv
<1> HIDE DEF SchedInv
<1>4. CASE k.prstate[p] # "WAIT"
  <2>1. UNCHANGED <<scount, squeue>>
    BY <1>4 DEF Kill
  <2>2. WaitersQueued'
    BY <1>1, <1>3, <1>4, <2>1, SameWaiters
  <2>3. \A t \in Sem : CountRight(t)' /\ (Used(t)' \/ scount'[t] >= 0)
    BY <1>1, <1>2, <2>1, AllInUser DEF CountRight, Used
  <2> QED BY <1>1, <1>3, <2>1, <2>2, <2>3, UserStep DEF Typed
<1>5. CASE k.prstate[p] = "WAIT"
  <2>0. PICK s \in Sem : s = prsem[p]
    BY <1>1 DEF Typed
  <2>1. /\ squeue[s] \in Seq(Pid)
        /\ InQ(squeue[s], p) /\ Once(squeue[s])
    BY <1>1, <1>5, <2>0 DEF IInv, Typed, WaitersQueued
  <2>2. /\ scount' = [scount EXCEPT ![s] = scount[s] + 1]
        /\ squeue' = [squeue EXCEPT ![s] = Unlink(squeue[s], p)]
    BY <1>5, <2>0 DEF Kill
  <2>q. PICK q : q = Unlink(squeue[s], p)
    OBVIOUS
  <2>3. /\ q \in Seq(Pid) /\ Len(q) = Len(squeue[s]) - 1 /\ Once(q)
        /\ \A y : InQ(q, y) <=> InQ(squeue[s], y) /\ y # p
    BY <2>1, <2>q, UnlinkQ
  <2>4. WaitersQueued' /\ squeue' \in [Sem -> Seq(Pid)]
    <3>1. squeue' = [squeue EXCEPT ![s] = q] /\ prsem' = prsem
      BY <1>1, <2>2, <2>q
    <3>2. k'.prstate[p] # "WAIT"
      BY <1>3
    <3>3. \A x \in Pid \ {p} : k'.prstate[x] = "WAIT" <=> k.prstate[x] = "WAIT"
      BY <1>3
    <3>4. IInv /\ s \in Sem /\ p \in Pid
      BY <1>1
    <3> QED BY ONLY <2>1, <2>3, <3>1, <3>2, <3>3, <3>4, OneLeaves
  <2>5. /\ squeue'[s] = q /\ scount'[s] = scount[s] + 1
        /\ scount[s] \in Int /\ scount' \in [Sem -> Int]
        /\ \A t \in Sem \ {s} : squeue'[t] = squeue[t] /\ scount'[t] = scount[t]
    BY <1>1, <2>1, <2>2, <2>q DEF Typed
  <2>6. CountRight(s)'
    <3>1. Len(squeue[s]) \in Nat /\ Len(squeue[s]) >= 1 /\ squeue[s] # <<>>
      BY <2>1 DEF InQ
    <3>2. scount[s] < 0 /\ Len(squeue[s]) = - scount[s]
      BY <1>2, <2>1, <2>5, <3>1 DEF CountRight
    <3>3. Len(q) = 0 => q = <<>>
      BY <2>3
    <3> QED BY <2>3, <2>5, <3>1, <3>2, <3>3 DEF CountRight
  <2>7. \A t \in Sem : CountRight(t)'
    BY <1>2, <2>5, <2>6 DEF CountRight
  <2>8. \A t \in Sem : Used(t)' \/ scount'[t] >= 0
    BY <1>1, <2>5, AllInUser DEF Used
  <2> QED BY <1>1, <1>3, <2>4, <2>5, <2>7, <2>8, UserStep DEF Typed
<1> QED BY <1>4, <1>5

LEMMA NextIInv == IInv /\ [Next]_vars => IInv'
<1> SUFFICES ASSUME IInv, [Next]_vars PROVE IInv'
  OBVIOUS
<1>0. Counts \subseteq Nat
  BY SemaphoresAssumption
<1>1. ASSUME NEW s \in Sem, Wait(s) PROVE IInv'
  BY <1>1, WaitStep
<1>2. ASSUME NEW s \in Sem, Signal(s) PROVE IInv'
  BY <1>2, SignalStep
<1>3. ASSUME NEW s \in Sem, Semdelete(s) PROVE IInv'
  <2>1. 0 \in Nat
    OBVIOUS
  <2> QED BY <1>3, <2>1, BeginStep
<1>4. ASSUME NEW s \in Sem, NEW n \in Counts, Signaln(s, n) \/ Semreset(s, n)
      PROVE  IInv'
  <2>1. n \in Nat
    BY <1>0
  <2> QED BY <1>4, <2>1, BeginStep
<1>5. ASSUME NEW c \in Counts, Semcreate(c) PROVE IInv'
  BY <1>0, <1>5, SemcreateStep
<1>6. CASE SignalnGoesOn
  BY <1>6, SignalnStep
<1>7. CASE SemdeleteGoesOn
  BY <1>7, SemdeleteStep
<1>8. CASE SemresetGoesOn
  BY <1>8, SemresetStep
<1>9. ASSUME NEW p \in UserPid, Resume(p) PROVE IInv'
  BY <1>9, ResumeStep
<1>10. ASSUME NEW p \in UserPid, Kill(p) PROVE IInv'
  BY <1>10, KillStep
<1>11. CASE ClockTick
  BY <1>11, ClockStep
<1>12. CASE UNCHANGED vars
  BY <1>12 DEF vars, IInv, Typed, LoopsDeferred, CountIsQueue, WaitersQueued,
               FreeCounts, Resetting, Used, Self
<1> QED BY <1>1, <1>2, <1>3, <1>4, <1>5, <1>6, <1>7, <1>8, <1>9, <1>10, <1>11,
           <1>12 DEF Next

LEMMA SpecIInv == Spec => []IInv
  BY InitIInv, NextIInv, PTL DEF Spec

(* For any table, any workload and any clock: a negative count is the      *)
(* length of the queue, a count of zero or more means an empty one.        *)
THEOREM CountIsQueueAlways == Spec => []CountIsQueue
<1>1. IInv => CountIsQueue
  BY DEF IInv
<1> QED BY <1>1, SpecIInv, PTL

(* A process is in state WAIT exactly while it is, once, on the queue of   *)
(* the semaphore it waits for.                                             *)
THEOREM WaitersQueuedAlways == Spec => []WaitersQueued
<1>1. IInv => WaitersQueued
  BY DEF IInv
<1> QED BY <1>1, SpecIInv, PTL

(* A semaphore that can be handed out again has an empty queue.            *)
THEOREM FreeSemsEmptyAlways == Spec => []FreeSemsEmpty
<1>1. IInv => FreeSemsEmpty
  BY AllInUser DEF FreeSemsEmpty, CountRight
<1> QED BY <1>1, SpecIInv, PTL

-----------------------------------------------------------------------------
(* Who runs: see Served in SchedProofs. *)

LEMMA AwakenServed ==
  ASSUME IInv, Served(k), NEW s \in Sem
  PROVE  Served(Awaken(s, k))
<1>1. CASE squeue[s] = <<>>
  BY <1>1 DEF Awaken
<1>2. CASE squeue[s] # <<>>
  <2>1. /\ squeue[s] \in Seq(Pid) /\ SchedInv(k)
        /\ \A x \in Pid : InQ(squeue[s], x) => k.prstate[x] = "WAIT"
    BY DEF IInv, Typed, WaitersQueued
  <2>2. Head(squeue[s]) \in Pid /\ InQ(squeue[s], Head(squeue[s]))
    BY <1>2, <2>1 DEF InQ
  <2>3. k.prstate[Head(squeue[s])] # "READY"
    BY <2>1, <2>2
  <2> QED BY <1>2, <2>1, <2>2, <2>3, ReadyServed DEF Awaken
<1> QED BY <1>1, <1>2

LEMMA IncrementServed ==
  ASSUME IInv, Served(k), NEW s \in Sem, Increment(s)
  PROVE  Served(k')
<1>1. k' = Awaken(s, k) \/ k' = k
  BY DEF Increment
<1> QED BY <1>1, AwakenServed

LEMMA NextServed ==
  ASSUME IInv, Served(k), [Next]_vars PROVE Served(k')
<1>0. SchedInv(k) /\ k.currpid = Self /\ k.prstate \in [Pid -> PrState]
  BY CurrentFacts
<1>d. Served(DeferStart(k)) /\ Served(DeferStop(k))
  BY <1>0, DeferServed
<1>l. cont[Self].op \in Loops => cont[Self].sem \in Sem
  BY InLoop
<1>1. ASSUME NEW s \in Sem, Wait(s) PROVE Served(k')
  <2>1. k' = k \/ k' = Block(k, "WAIT")
    BY <1>1 DEF Wait
  <2>2. Self # NULLPROC /\ "WAIT" \in PrState \ {"CURR", "READY"}
    BY <1>1 DEF Wait, Calling, PrState
  <2> QED BY <1>0, <2>1, <2>2, BlockServed
<1>2. ASSUME NEW s \in Sem, Signal(s) PROVE Served(k')
  BY <1>2, IncrementServed DEF Signal
<1>3. ASSUME NEW s \in Sem, Semdelete(s) PROVE Served(k')
  BY <1>d, <1>3 DEF Semdelete
<1>4. ASSUME NEW s \in Sem, NEW n \in Counts, Signaln(s, n) \/ Semreset(s, n)
      PROVE  Served(k')
  BY <1>d, <1>4 DEF Signaln, Semreset
<1>5. ASSUME NEW c \in Counts, Semcreate(c) PROVE Served(k')
  BY <1>5 DEF Semcreate
<1>6. CASE SignalnGoesOn
  BY <1>d, <1>l, <1>6, IncrementServed DEF SignalnGoesOn, Loops
<1>7. CASE SemdeleteGoesOn
  BY <1>d, <1>l, <1>7, AwakenServed DEF SemdeleteGoesOn, Loops
<1>8. CASE SemresetGoesOn
  BY <1>d, <1>l, <1>8, AwakenServed DEF SemresetGoesOn, Loops
<1>9. ASSUME NEW p \in UserPid, Resume(p) PROVE Served(k')
  BY <1>0, <1>9, ReadyServed DEF Resume, UserPid
<1>10. ASSUME NEW p \in UserPid, Kill(p) PROVE Served(k')
  BY <1>0, <1>10, DiesServed DEF Kill, UserPid
<1>11. CASE ClockTick
  BY <1>0, <1>11, TickServed DEF ClockTick
<1>12. CASE UNCHANGED vars
  BY <1>12 DEF vars
<1> QED BY <1>1, <1>2, <1>3, <1>4, <1>5, <1>6, <1>7, <1>8, <1>9, <1>10, <1>11,
           <1>12 DEF Next

(* A process that is back in its own code is not outranked by a ready one, *)
(* and no deferral is left over: the resched() that signaln(), semdelete() *)
(* and semreset() put off, over however many turns, is made up for.        *)
THEOREM DeferralEndsAlways == Spec => []DeferralEnds
<1>1. Init => IInv /\ Served(k)
  <2>1. Init => k = SchedCreated(Prio) /\ Prio \in [Pid -> Nat]
    BY SemaphoresAssumption DEF Init
  <2> QED BY <2>1, InitIInv, SchedCreatedServed
<1>2. (IInv /\ Served(k)) /\ [Next]_vars => (IInv /\ Served(k))'
  BY NextIInv, NextServed
<1>3. IInv /\ Served(k) => DeferralEnds
  <2>1. IInv /\ cont[Self] = InUser => k.ndefers = 0
    BY DEF IInv, LoopsDeferred
  <2> QED BY <2>1 DEF Served, DeferralEnds
<1> QED BY <1>1, <1>2, <1>3, PTL DEF Spec

-----------------------------------------------------------------------------
(* The abstract counting semaphores are implemented.  A loop of signaln()  *)
(* or semreset() is about a semaphore in use, one of semdelete() is not.   *)
LoopsMeanUse ==
  /\ cont[Self].op \in {"signaln", "semreset"} => Used(cont[Self].sem)
  /\ cont[Self].op = "semdelete" => ~Used(cont[Self].sem)

RInv == IInv /\ LoopsMeanUse

(* What the abstract variables are. *)
OpenSems == {s \in Sem : Used(s)}
Draining == {s \in Sem : Resetting(s)}
Permits  == [s \in Sem |-> IF Used(s) /\ scount[s] > 0 THEN scount[s] ELSE 0]

LEMMA MapStays ==
  ASSUME UNCHANGED <<sstate, scount, squeue, Draining>>
  PROVE  UNCHANGED Abs!vars
BY DEF Abs!vars, Draining, Used

LEMMA NoDraining == ASSUME IInv, cont[Self] = InUser PROVE Draining = {}
  BY DEF Draining, Resetting, InUser

(* After a step taken outside the loops every process is in its own code. *)
LEMMA StillInUser ==
  ASSUME IInv, IInv', cont[Self] = InUser, UNCHANGED cont
  PROVE  /\ Draining = {} /\ Draining' = {} /\ cont'[Self'] = InUser
<1>1. \A p \in Pid : cont'[p] = InUser
  BY AllInUser
<1>2. Self' \in Pid
  BY DEF IInv, SchedInv, SchedPre, SchedType, Self
<1> QED BY <1>1, <1>2, NoDraining DEF Draining, Resetting, InUser

(* The end of a loop, too. *)
LEMMA LoopOver ==
  ASSUME IInv, IInv', cont[Self] # InUser, cont' = [cont EXCEPT ![Self] = InUser]
  PROVE  Draining' = {} /\ cont'[Self'] = InUser
<1>1. \A p \in Pid : cont'[p] = InUser
  BY CurrentFacts DEF IInv, Typed, LoopsDeferred
<1>2. Self' \in Pid
  BY DEF IInv, SchedInv, SchedPre, SchedType, Self
<1> QED BY <1>1, <1>2 DEF Draining, Resetting, InUser

(* scount++ and, if it was negative, ready(dequeue(squeue)), as V sees it. *)
LEMMA IncrementMaps ==
  ASSUME IInv, NEW s \in Sem, CountRight(s), Used(s) \/ scount[s] < 0,
         Increment(s), UNCHANGED sstate
  PROVE  \/ /\ squeue[s] = <<>> /\ UNCHANGED squeue
            /\ Permits' = [Permits EXCEPT ![s] = Permits[s] + 1]
         \/ /\ squeue[s] # <<>>
            /\ squeue' = [squeue EXCEPT ![s] = Tail(squeue[s])]
            /\ UNCHANGED Permits
<1>0. /\ scount \in [Sem -> Int] /\ squeue \in [Sem -> Seq(Pid)]
      /\ scount' = [scount EXCEPT ![s] = scount[s] + 1]
      /\ \A t \in Sem : Used(t)' <=> Used(t)
  BY DEF IInv, Typed, Increment, Used
<1>1. /\ scount'[s] = scount[s] + 1 /\ scount[s] \in Int
      /\ \A t \in Sem \ {s} : scount'[t] = scount[t]
  BY <1>0
<1>2. CASE scount[s] < 0
  <2>1. Len(squeue[s]) = - scount[s] /\ squeue[s] # <<>> /\ Shorten(s)
    <3>1. Len(squeue[s]) = - scount[s] /\ Len(squeue[s]) > 0
      BY <1>1, <1>2 DEF CountRight
    <3> QED BY <1>2, <3>1 DEF Increment
  <2>2. squeue' = [squeue EXCEPT ![s] = Tail(squeue[s])]
    BY <2>1 DEF Shorten
  <2>3. ASSUME NEW t \in Sem
        PROVE  (IF Used(t)' /\ scount'[t] > 0 THEN scount'[t] ELSE 0)
               = (IF Used(t) /\ scount[t] > 0 THEN scount[t] ELSE 0)
    <3>1. CASE t = s
      <4>1. ~(scount'[t] > 0) /\ ~(scount[t] > 0)
        BY <1>1, <1>2, <3>1
      <4> QED BY <4>1
    <3>2. CASE t # s
      BY <1>0, <1>1, <3>2
    <3> QED BY <3>1, <3>2
  <2>4. UNCHANGED Permits
    BY <2>3 DEF Permits
  <2> QED BY <2>1, <2>2, <2>4
<1>3. CASE ~(scount[s] < 0)
  <2>1. squeue[s] = <<>> /\ UNCHANGED squeue /\ Used(s)
    BY <1>1, <1>3 DEF CountRight, Increment
  <2>2. Permits[s] = scount[s]
    BY <1>1, <1>3, <2>1 DEF Permits
  <2>3. Permits' = [Permits EXCEPT ![s] = scount'[s]]
    <3>1. ASSUME NEW t \in Sem
          PROVE  (IF Used(t)' /\ scount'[t] > 0 THEN scount'[t] ELSE 0)
                 = IF t = s THEN scount'[s]
                   ELSE IF Used(t) /\ scount[t] > 0 THEN scount[t] ELSE 0
      <4>1. CASE t = s
        <5>1. scount'[s] > 0 /\ Used(s)'
          BY <1>0, <1>1, <1>3, <2>1
        <5> QED BY <4>1, <5>1
      <4>2. CASE t # s
        BY <1>0, <1>1, <4>2
      <4> QED BY <4>1, <4>2
    <3> QED BY <3>1 DEF Permits
  <2> QED BY <1>1, <2>1, <2>2, <2>3
<1> QED BY <1>2, <1>3

LEMMA WaitMaps ==
  ASSUME IInv, IInv', NEW s \in Sem, Wait(s), NEW p \in Pid, p = Self
  PROVE  Abs!P(s, p)
<1>0. /\ cont[Self] = InUser /\ Used(s) /\ UNCHANGED <<sstate, cont>>
      /\ scount' = [scount EXCEPT ![s] = scount[s] - 1]
      /\ scount \in [Sem -> Int] /\ squeue \in [Sem -> Seq(Pid)]
      /\ \A t \in Sem : Used(t)' <=> Used(t)
  BY DEF Wait, Calling, IInv, Typed, Used
<1>1. Draining = {} /\ Draining' = {} /\ OpenSems' = OpenSems
  BY <1>0, StillInUser DEF OpenSems
<1>2. \A t \in Sem : ~InQ(squeue[t], p)
  BY CurrentFacts DEF IInv, WaitersQueued
<1>3. Abs!Usable(s) /\ ~Abs!Waits(p)
  BY <1>0, <1>1, <1>2 DEF Abs!Usable, Abs!Waits, Abs!InQ, InQ, Draining
<1>4. /\ scount'[s] = scount[s] - 1 /\ scount[s] \in Int
      /\ \A t \in Sem \ {s} : scount'[t] = scount[t]
  BY <1>0
<1>5. Permits[s] = IF scount[s] > 0 THEN scount[s] ELSE 0
  BY <1>0 DEF Permits
<1>6. CASE scount[s] - 1 >= 0
  <2>1. UNCHANGED squeue
    BY <1>4, <1>6 DEF Wait
  <2>2. Permits[s] = scount[s] /\ Permits[s] > 0
    BY <1>4, <1>5, <1>6
  <2>3. Permits' = [Permits EXCEPT ![s] = scount'[s]]
    <3>1. ASSUME NEW t \in Sem
          PROVE  (IF Used(t)' /\ scount'[t] > 0 THEN scount'[t] ELSE 0)
                 = IF t = s THEN scount'[s]
                   ELSE IF Used(t) /\ scount[t] > 0 THEN scount[t] ELSE 0
      <4>1. CASE t = s
        <5>1. scount'[s] > 0 \/ scount'[s] = 0
          BY <1>4, <1>6
        <5> QED BY <1>0, <4>1, <5>1
      <4>2. CASE t # s
        BY <1>0, <1>4, <4>2
      <4> QED BY <4>1, <4>2
    <3> QED BY <3>1 DEF Permits
  <2>4. Permits' = [Permits EXCEPT ![s] = Permits[s] - 1]
    BY <1>4, <2>2, <2>3
  <2> QED BY <1>1, <1>3, <2>1, <2>2, <2>4 DEF Abs!P, OpenSems, Draining, Permits
<1>7. CASE ~(scount[s] - 1 >= 0)
  <2>1. squeue' = [squeue EXCEPT ![s] = Append(squeue[s], p)]
    BY <1>0, <1>4, <1>7 DEF Wait
  <2>2. Permits[s] = 0
    BY <1>4, <1>5, <1>7
  <2>3. ASSUME NEW t \in Sem
        PROVE  (IF Used(t)' /\ scount'[t] > 0 THEN scount'[t] ELSE 0)
               = (IF Used(t) /\ scount[t] > 0 THEN scount[t] ELSE 0)
    <3>1. CASE t = s
      <4>1. ~(scount'[t] > 0) /\ ~(scount[t] > 0)
        BY <1>4, <1>7, <3>1
      <4> QED BY <4>1
    <3>2. CASE t # s
      BY <1>0, <1>4, <3>2
    <3> QED BY <3>1, <3>2
  <2>4. UNCHANGED Permits
    BY <2>3 DEF Permits
  <2> QED BY <1>1, <1>3, <2>1, <2>2, <2>4 DEF Abs!P, OpenSems, Draining, Permits
<1> QED BY <1>6, <1>7

LEMMA SignalMaps ==
  ASSUME IInv, IInv', NEW s \in Sem, Signal(s)
  PROVE  Abs!V(s)
<1>0. /\ cont[Self] = InUser /\ Used(s) /\ UNCHANGED <<sstate, cont>> /\ Increment(s)
      /\ \A t \in Sem : Used(t)' <=> Used(t)
  BY DEF Signal, Calling, Used
<1>1. /\ Draining = {} /\ Draining' = {} /\ OpenSems' = OpenSems /\ CountRight(s)
  BY <1>0, StillInUser, AllInUser DEF OpenSems
<1>2. \/ /\ squeue[s] = <<>> /\ UNCHANGED squeue
         /\ Permits' = [Permits EXCEPT ![s] = Permits[s] + 1]
      \/ /\ squeue[s] # <<>>
         /\ squeue' = [squeue EXCEPT ![s] = Tail(squeue[s])]
         /\ UNCHANGED Permits
  BY <1>0, <1>1, IncrementMaps
<1>3. Abs!Usable(s)
  BY <1>0, <1>1 DEF Abs!Usable, Draining
<1> QED BY <1>1, <1>2, <1>3 DEF Abs!V, OpenSems, Draining, Permits

LEMMA SemcreateMaps ==
  ASSUME IInv, IInv', NEW c \in Nat, Semcreate(c)
  PROVE  \E s \in Sem : Abs!Open(s)
<1>1. PICK s \in Sem : /\ ~Used(s)
                      /\ sstate' = [sstate EXCEPT ![s] = "S_USED"]
                      /\ scount' = [scount EXCEPT ![s] = c]
  BY DEF Semcreate, NewSem
<1>2. /\ cont[Self] = InUser /\ UNCHANGED <<squeue, cont>>
      /\ sstate \in [Sem -> {"S_FREE", "S_USED"}] /\ scount \in [Sem -> Int]
  BY DEF Semcreate, Calling, IInv, Typed
<1>3. /\ Draining = {} /\ Draining' = {} /\ squeue[s] = <<>>
  BY <1>1, <1>2, StillInUser, AllInUser DEF CountRight
<1>4. /\ Used(s)' /\ scount'[s] = c
      /\ \A t \in Sem \ {s} : (Used(t)' <=> Used(t)) /\ scount'[t] = scount[t]
  BY <1>1, <1>2 DEF Used
<1>5. OpenSems' = OpenSems \cup {s} /\ s \notin OpenSems
  BY <1>1, <1>4 DEF OpenSems
<1>6. Permits'[s] \in Nat
  BY <1>4 DEF Permits
<1>7. Permits' = [Permits EXCEPT ![s] = Permits'[s]]
  <2>1. \A t \in Sem \ {s} : Permits'[t] = Permits[t]
    BY <1>4 DEF Permits
  <2>2. /\ Permits' = [t \in Sem |-> Permits'[t]]
        /\ Permits = [t \in Sem |-> Permits[t]]
    BY DEF Permits
  <2> QED BY <2>1, <2>2
<1>8. Abs!SetsPermits(s)
  BY <1>6, <1>7 DEF Abs!SetsPermits, Permits
<1>9. Abs!Open(s)
  BY <1>2, <1>3, <1>5, <1>8 DEF Abs!Open, OpenSems, Draining
<1> QED BY <1>9

(* A call that begins a loop changes no count and no queue. *)
LEMMA BeginMaps ==
  ASSUME IInv, NEW s \in Sem, NEW n \in Nat,
         Signaln(s, n) \/ Semdelete(s) \/ Semreset(s, n)
  PROVE  [Abs!Next]_(Abs!vars) /\ LoopsMeanUse'
<1>1. /\ cont[Self] = InUser /\ Used(s) /\ UNCHANGED <<scount, squeue>>
      /\ k' = DeferStart(k) /\ Self \in Pid /\ cont \in [Pid -> Cont]
      /\ sstate \in [Sem -> {"S_FREE", "S_USED"}]
  BY CurrentFacts DEF Signaln, Semdelete, Semreset, Calling, semvars, IInv, Typed
<1>2. Self' = Self
  BY <1>1, CurrentFacts, DeferInv DEF Self
<1>3. Draining = {} /\ Abs!Usable(s)
  BY <1>1, NoDraining DEF Abs!Usable, Draining
<1>4. CASE Signaln(s, n)
  <2>1. cont'[Self'] = [op |-> "signaln", sem |-> s, n |-> n] /\ UNCHANGED sstate
    BY <1>1, <1>2, <1>4 DEF Signaln, Goto, semvars
  <2>2. Draining' = {}
    BY <2>1 DEF Draining, Resetting
  <2>3. LoopsMeanUse'
    BY <1>1, <2>1 DEF LoopsMeanUse, Used
  <2> QED BY <1>1, <1>3, <2>1, <2>2, <2>3, MapStays
<1>5. CASE Semdelete(s)
  <2>1. /\ cont'[Self'] = [op |-> "semdelete", sem |-> s, n |-> 0]
        /\ sstate' = [sstate EXCEPT ![s] = "S_FREE"]
    BY <1>1, <1>2, <1>5 DEF Semdelete, Goto
  <2>2. Draining' = {}
    BY <2>1 DEF Draining, Resetting
  <2>3. ~Used(s)' /\ \A t \in Sem \ {s} : Used(t)' <=> Used(t)
    BY <1>1, <2>1 DEF Used
  <2>4. LoopsMeanUse'
    BY <2>1, <2>3 DEF LoopsMeanUse
  <2>5. OpenSems' = OpenSems \ {s}
    BY <2>3 DEF OpenSems
  <2>6. Permits' = [Permits EXCEPT ![s] = 0]
    BY <1>1, <2>3 DEF Permits
  <2>7. Abs!Close(s)
    BY <1>1, <1>3, <2>2, <2>5, <2>6 DEF Abs!Close, OpenSems, Draining, Permits
  <2> QED BY <2>4, <2>7 DEF Abs!Next
<1>6. CASE Semreset(s, n)
  <2>1. cont'[Self'] = [op |-> "semreset", sem |-> s, n |-> n] /\ UNCHANGED sstate
    BY <1>1, <1>2, <1>6 DEF Semreset, Goto, semvars
  <2>2. Draining' = Draining \cup {s}
    BY <1>3, <2>1 DEF Draining, Resetting
  <2>3. LoopsMeanUse'
    BY <1>1, <2>1 DEF LoopsMeanUse, Used
  <2>4. OpenSems' = OpenSems /\ Permits' = Permits
    BY <1>1, <2>1 DEF OpenSems, Permits, Used
  <2>5. Abs!Drain(s)
    BY <1>1, <1>3, <2>2, <2>4 DEF Abs!Drain, OpenSems, Draining, Permits
  <2> QED BY <2>3, <2>5 DEF Abs!Next
<1> QED BY <1>4, <1>5, <1>6

LEMMA LoopKept ==
  ASSUME IInv, cont[Self].op \in Loops, k'.currpid = k.currpid,
         NEW n, cont'[Self] = [op |-> cont[Self].op, sem |-> cont[Self].sem, n |-> n],
         UNCHANGED sstate, LoopsMeanUse
  PROVE  UNCHANGED Draining /\ LoopsMeanUse'
<1>1. Self' = Self
  BY DEF Self
<1> QED BY <1>1 DEF Draining, Resetting, LoopsMeanUse, Used

LEMMA LoopOverMeans ==
  ASSUME cont'[Self'] = InUser PROVE LoopsMeanUse'
BY DEF LoopsMeanUse, InUser

LEMMA SignalnMaps ==
  ASSUME RInv, IInv', SignalnGoesOn
  PROVE  [Abs!Next]_(Abs!vars) /\ LoopsMeanUse'
<1>0. IInv /\ LoopsMeanUse /\ cont[Self].op = "signaln" /\ UNCHANGED <<sstate, prsem>>
  BY DEF RInv, SignalnGoesOn
<1>s. PICK s \in Sem : s = cont[Self].sem
  BY <1>0, InLoop DEF Loops
<1>n. PICK n \in Nat : n = cont[Self].n
  BY <1>0, InLoop DEF Loops
<1>1. /\ Used(s) /\ CountRight(s) /\ cont[Self] # InUser /\ k.ndefers = 1
      /\ cont \in [Pid -> Cont] /\ Self \in Pid
  BY <1>0, <1>s, InLoop DEF Loops, LoopsMeanUse
<1>2. Draining = {} /\ Abs!Usable(s)
  BY <1>0, <1>1 DEF Draining, Resetting, Abs!Usable
<1>3. CASE Increment(s) /\ Goto("signaln", s, n - 1)
  <2>1. k'.currpid = k.currpid
    BY <1>0, <1>1, <1>3, IncrementKeeps
  <2>2. cont'[Self] = [op |-> "signaln", sem |-> s, n |-> n - 1]
    BY <1>1, <1>3 DEF Goto
  <2>3. UNCHANGED Draining /\ LoopsMeanUse'
    BY <1>0, <1>s, <2>1, <2>2, LoopKept DEF Loops
  <2>4. OpenSems' = OpenSems
    BY <1>0 DEF OpenSems, Used
  <2>5. \/ /\ squeue[s] = <<>> /\ UNCHANGED squeue
           /\ Permits' = [Permits EXCEPT ![s] = Permits[s] + 1]
        \/ /\ squeue[s] # <<>>
           /\ squeue' = [squeue EXCEPT ![s] = Tail(squeue[s])]
           /\ UNCHANGED Permits
    BY <1>0, <1>1, <1>3, IncrementMaps
  <2>6. Abs!V(s)
    BY <1>2, <2>3, <2>4, <2>5 DEF Abs!V, OpenSems, Draining, Permits
  <2> QED BY <2>3, <2>6 DEF Abs!Next
<1>4. CASE k' = DeferStop(k) /\ Return /\ UNCHANGED <<scount, squeue>>
  <2>1. Draining' = {} /\ cont'[Self'] = InUser
    BY <1>0, <1>1, <1>4, LoopOver DEF Return
  <2> QED BY <1>0, <1>2, <1>4, <2>1, MapStays, LoopOverMeans
<1> QED BY <1>s, <1>n, <1>3, <1>4 DEF SignalnGoesOn

LEMMA SemdeleteMaps ==
  ASSUME RInv, IInv', SemdeleteGoesOn
  PROVE  [Abs!Next]_(Abs!vars) /\ LoopsMeanUse'
<1>0. IInv /\ LoopsMeanUse /\ cont[Self].op = "semdelete" /\ UNCHANGED <<sstate, prsem>>
  BY DEF RInv, SemdeleteGoesOn
<1>s. PICK s \in Sem : s = cont[Self].sem
  BY <1>0, InLoop DEF Loops
<1>1. /\ ~Used(s) /\ CountRight(s) /\ cont[Self] # InUser /\ k.ndefers = 1
      /\ cont \in [Pid -> Cont] /\ Self \in Pid /\ scount \in [Sem -> Int]
      /\ cont[Self] \in Cont
  BY <1>0, <1>s, InLoop DEF Loops, LoopsMeanUse
<1>2. Draining = {} /\ ~Abs!Usable(s)
  BY <1>0, <1>1 DEF Draining, Resetting, Abs!Usable
<1>3. OpenSems' = OpenSems
  BY <1>0 DEF OpenSems, Used
<1>4. CASE scount[s] < 0 /\ Increment(s) /\ UNCHANGED cont
  <2>1. k'.currpid = k.currpid
    BY <1>0, <1>1, <1>4, IncrementKeeps
  <2>2. UNCHANGED Draining /\ LoopsMeanUse'
    <3>1. Self' = Self /\ cont' = cont
      BY <1>4, <2>1 DEF Self
    <3> QED BY <1>0, <3>1 DEF Draining, Resetting, LoopsMeanUse, Used
  <2>3. Len(squeue[s]) > 0 /\ squeue[s] # <<>>
    <3>1. scount[s] \in Int /\ Len(squeue[s]) = - scount[s]
      BY <1>1, <1>4 DEF CountRight
    <3>2. Len(squeue[s]) > 0
      BY <1>4, <3>1
    <3> QED BY <3>2
  <2>4. squeue' = [squeue EXCEPT ![s] = Tail(squeue[s])] /\ UNCHANGED Permits
    BY <1>0, <1>1, <1>4, <2>3, IncrementMaps
  <2>5. Abs!Release(s)
    BY <1>2, <1>3, <2>2, <2>3, <2>4 DEF Abs!Release, OpenSems, Draining, Permits
  <2> QED BY <2>2, <2>5 DEF Abs!Next
<1>5. CASE /\ scount' = [scount EXCEPT ![s] = scount[s] + 1]
           /\ Return /\ UNCHANGED squeue
  <2>1. Draining' = {} /\ cont'[Self'] = InUser
    BY <1>0, <1>1, <1>5, LoopOver DEF Return
  <2>2. Permits' = Permits
    <3>1. ~Used(s)' /\ ~Used(s) /\ \A t \in Sem : Used(t)' <=> Used(t)
      BY <1>0, <1>1 DEF Used
    <3>2. \A t \in Sem \ {s} : scount'[t] = scount[t]
      BY <1>1, <1>5
    <3>3. ASSUME NEW t \in Sem
          PROVE  (IF Used(t)' /\ scount'[t] > 0 THEN scount'[t] ELSE 0)
                 = (IF Used(t) /\ scount[t] > 0 THEN scount[t] ELSE 0)
      BY <3>1, <3>2
    <3> QED BY <3>3 DEF Permits
  <2>3. UNCHANGED Abs!vars
    BY <1>2, <1>3, <1>5, <2>1, <2>2 DEF Abs!vars, OpenSems, Draining, Permits
  <2> QED BY <2>1, <2>3, LoopOverMeans
<1> QED
  <2>1. /\ scount' = [scount EXCEPT ![s] = scount[s] + 1]
        /\ \/ scount[s] < 0 /\ Shorten(s) /\ k' = Awaken(s, k) /\ UNCHANGED cont
           \/ scount[s] >= 0 /\ k' = DeferStop(k) /\ Return /\ UNCHANGED squeue
    BY <1>s DEF SemdeleteGoesOn
  <2> QED BY <1>4, <1>5, <2>1 DEF Increment

LEMMA SemresetMaps ==
  ASSUME RInv, IInv', SemresetGoesOn
  PROVE  [Abs!Next]_(Abs!vars) /\ LoopsMeanUse'
<1>0. IInv /\ LoopsMeanUse /\ cont[Self].op = "semreset" /\ UNCHANGED <<sstate, prsem>>
  BY DEF RInv, SemresetGoesOn
<1>s. PICK s \in Sem : s = cont[Self].sem
  BY <1>0, InLoop DEF Loops
<1>n. PICK n \in Nat : n = cont[Self].n
  BY <1>0, InLoop DEF Loops
<1>1. /\ Used(s) /\ cont[Self] # InUser /\ k.ndefers = 1
      /\ cont \in [Pid -> Cont] /\ Self \in Pid /\ scount \in [Sem -> Int]
  BY <1>0, <1>s, InLoop DEF Loops, LoopsMeanUse
<1>2. Draining = {s} /\ ~Abs!Usable(s)
  BY <1>0, <1>s DEF Draining, Resetting, Abs!Usable
<1>3. OpenSems' = OpenSems /\ \A t \in Sem : Used(t)' <=> Used(t)
  BY <1>0 DEF OpenSems, Used
<1>4. CASE /\ squeue[s] # <<>>
           /\ Shorten(s) /\ k' = Awaken(s, k) /\ UNCHANGED <<scount, cont>>
  <2>1. k'.currpid = k.currpid
    BY <1>0, <1>1, <1>4, FirstLeaves
  <2>2. UNCHANGED Draining /\ LoopsMeanUse'
    <3>1. Self' = Self /\ cont' = cont
      BY <1>4, <2>1 DEF Self
    <3> QED BY <1>0, <3>1 DEF Draining, Resetting, LoopsMeanUse, Used
  <2>3. squeue' = [squeue EXCEPT ![s] = Tail(squeue[s])] /\ UNCHANGED Permits
    BY <1>3, <1>4 DEF Shorten, Permits
  <2>4. Abs!Release(s)
    BY <1>2, <1>3, <1>4, <2>2, <2>3 DEF Abs!Release, OpenSems, Draining, Permits
  <2> QED BY <2>2, <2>4 DEF Abs!Next
<1>5. CASE /\ squeue[s] = <<>> /\ scount' = [scount EXCEPT ![s] = n]
           /\ k' = DeferStop(k) /\ Return /\ UNCHANGED squeue
  <2>1. Draining' = {} /\ cont'[Self'] = InUser
    BY <1>0, <1>1, <1>5, LoopOver DEF Return
  <2>2. Draining' = Draining \ {s} /\ s \in Draining
    BY <1>2, <2>1
  <2>3. scount'[s] = n /\ \A t \in Sem \ {s} : scount'[t] = scount[t]
    BY <1>1, <1>5
  <2>4. Permits'[s] \in Nat
    BY <2>3 DEF Permits
  <2>5. Permits' = [Permits EXCEPT ![s] = Permits'[s]]
    <3>1. \A t \in Sem \ {s} : Permits'[t] = Permits[t]
      BY <1>3, <2>3 DEF Permits
    <3>2. /\ Permits' = [t \in Sem |-> Permits'[t]]
          /\ Permits = [t \in Sem |-> Permits[t]]
      BY DEF Permits
    <3> QED BY <3>1, <3>2
  <2>6. Abs!SetsPermits(s)
    BY <2>4, <2>5 DEF Abs!SetsPermits, Permits
  <2>7. Abs!Refill(s)
    BY <1>3, <1>5, <2>2, <2>6 DEF Abs!Refill, OpenSems, Draining
  <2> QED BY <2>1, <2>7, LoopOverMeans DEF Abs!Next
<1> QED BY <1>s, <1>n, <1>4, <1>5 DEF SemresetGoesOn

LEMMA KillMaps ==
  ASSUME IInv, IInv', NEW p \in UserPid, Kill(p)
  PROVE  [Abs!Next]_(Abs!vars)
<1>1. /\ p \in Pid /\ Typed /\ cont[Self] = InUser /\ UNCHANGED <<sstate, prsem, cont>>
  BY DEF Kill, UserPid, Calling, IInv
<1>2. Draining = {} /\ Draining' = {} /\ OpenSems' = OpenSems
      /\ \A t \in Sem : CountRight(t) /\ (Used(t)' <=> Used(t))
  BY <1>1, StillInUser, AllInUser DEF OpenSems, Used
<1>3. CASE k.prstate[p] # "WAIT"
  <2>1. UNCHANGED <<scount, squeue>>
    BY <1>3 DEF Kill
  <2> QED BY <1>1, <1>2, <2>1, MapStays
<1>4. CASE k.prstate[p] = "WAIT"
  <2>0. PICK s \in Sem : s = prsem[p]
    BY <1>1 DEF Typed
  <2>1. squeue[s] \in Seq(Pid) /\ InQ(squeue[s], p)
    BY <1>1, <1>4, <2>0 DEF IInv, Typed, WaitersQueued
  <2>2. /\ scount' = [scount EXCEPT ![s] = scount[s] + 1]
        /\ squeue' = [squeue EXCEPT ![s] = Unlink(squeue[s], p)]
    BY <1>4, <2>0 DEF Kill
  <2>3. scount[s] \in Int /\ scount[s] < 0
    <3>1. Len(squeue[s]) \in Nat /\ squeue[s] # <<>>
      BY <2>1 DEF InQ
    <3> QED BY <1>1, <1>2, <3>1 DEF CountRight, Typed
  <2>4. scount'[s] = scount[s] + 1 /\ \A t \in Sem \ {s} : scount'[t] = scount[t]
    BY <1>1, <2>2 DEF Typed
  <2>5. ASSUME NEW t \in Sem
        PROVE  (IF Used(t)' /\ scount'[t] > 0 THEN scount'[t] ELSE 0)
               = (IF Used(t) /\ scount[t] > 0 THEN scount[t] ELSE 0)
    <3>1. CASE t = s
      <4>1. ~(scount'[t] > 0) /\ ~(scount[t] > 0)
        BY <2>3, <2>4, <3>1
      <4> QED BY <4>1
    <3>2. CASE t # s
      BY <1>2, <2>4, <3>2
    <3> QED BY <3>1, <3>2
  <2>6. UNCHANGED Permits
    BY <2>5 DEF Permits
  <2>7. Abs!InQ(squeue[s], p) /\ Abs!Unlink(squeue[s], p) = Unlink(squeue[s], p)
    BY <2>1 DEF InQ, Abs!InQ, Unlink, Abs!Unlink, RemoveAt, Abs!RemoveAt
  <2>8. Abs!Drop(s, p)
    BY <1>2, <2>1, <2>2, <2>6, <2>7 DEF Abs!Drop, OpenSems, Draining, Permits
  <2> QED BY <1>1, <2>8 DEF Abs!Next
<1> QED BY <1>3, <1>4

LEMMA NextMaps == RInv /\ IInv' /\ [Next]_vars => [Abs!Next]_(Abs!vars) /\ LoopsMeanUse'
<1> SUFFICES ASSUME RInv, IInv', [Next]_vars
             PROVE  [Abs!Next]_(Abs!vars) /\ LoopsMeanUse'
  OBVIOUS
<1>0. Counts \subseteq Nat /\ IInv /\ LoopsMeanUse /\ Self \in Pid
  BY SemaphoresAssumption, CurrentFacts DEF RInv
<1>u. ASSUME cont[Self] = InUser, UNCHANGED cont PROVE LoopsMeanUse'
  BY <1>0, <1>u, StillInUser, LoopOverMeans
<1>1. ASSUME NEW s \in Sem, Wait(s) PROVE [Abs!Next]_(Abs!vars) /\ LoopsMeanUse'
  <2>1. PICK p \in Pid : p = Self
    BY <1>0
  <2>3. Abs!P(s, p)
    BY <1>0, <1>1, <2>1, WaitMaps
  <2>2. LoopsMeanUse'
    BY <1>1, <1>u DEF Wait, Calling
  <2> QED BY <2>2, <2>3 DEF Abs!Next
<1>2. ASSUME NEW s \in Sem, Signal(s) PROVE [Abs!Next]_(Abs!vars) /\ LoopsMeanUse'
  BY <1>0, <1>2, <1>u, SignalMaps DEF Signal, Calling, Abs!Next
<1>3. ASSUME NEW s \in Sem, Semdelete(s) PROVE [Abs!Next]_(Abs!vars) /\ LoopsMeanUse'
  <2>1. 0 \in Nat
    OBVIOUS
  <2> QED BY <1>0, <1>3, <2>1, BeginMaps
<1>4. ASSUME NEW s \in Sem, NEW n \in Counts, Signaln(s, n) \/ Semreset(s, n)
      PROVE  [Abs!Next]_(Abs!vars) /\ LoopsMeanUse'
  <2>1. n \in Nat
    BY <1>0
  <2> QED BY <1>0, <1>4, <2>1, BeginMaps
<1>5. ASSUME NEW c \in Counts, Semcreate(c) PROVE [Abs!Next]_(Abs!vars) /\ LoopsMeanUse'
  <2>1. c \in Nat
    BY <1>0
  <2>2. \E s \in Sem : Abs!Open(s)
    BY <1>0, <1>5, <2>1, SemcreateMaps
  <2> QED BY <1>5, <1>u, <2>2 DEF Semcreate, Calling, Abs!Next
<1>6. CASE SignalnGoesOn
  BY <1>6, SignalnMaps
<1>7. CASE SemdeleteGoesOn
  BY <1>7, SemdeleteMaps
<1>8. CASE SemresetGoesOn
  BY <1>8, SemresetMaps
<1>9. ASSUME NEW p \in UserPid, Resume(p) PROVE [Abs!Next]_(Abs!vars) /\ LoopsMeanUse'
  <2>1. /\ cont[Self] = InUser /\ UNCHANGED <<sstate, scount, squeue, cont>>
    BY <1>9 DEF Resume, Calling, semvars
  <2> QED BY <1>0, <1>u, <2>1, StillInUser, MapStays
<1>10. ASSUME NEW p \in UserPid, Kill(p) PROVE [Abs!Next]_(Abs!vars) /\ LoopsMeanUse'
  <2>1. cont[Self] = InUser /\ UNCHANGED cont
    BY <1>10 DEF Kill, Calling
  <2> QED BY <1>0, <1>10, <1>u, <2>1, KillMaps
<1>11. CASE ClockTick
  <2>1. cont[Self] = InUser /\ UNCHANGED <<sstate, scount, squeue, cont>>
    BY <1>11 DEF ClockTick, semvars
  <2> QED BY <1>0, <1>u, <2>1, StillInUser, MapStays
<1>12. CASE UNCHANGED vars
  <2>1. UNCHANGED <<k, sstate, scount, squeue, cont>>
    BY <1>12 DEF vars
  <2>2. UNCHANGED Draining /\ LoopsMeanUse'
    BY <1>0, <2>1 DEF Draining, Resetting, LoopsMeanUse, Used, Self
  <2> QED BY <2>1, <2>2, MapStays
<1> QED BY <1>1, <1>2, <1>3, <1>4, <1>5, <1>6, <1>7, <1>8, <1>9, <1>10, <1>11,
           <1>12 DEF Next

LEMMA InitMaps == Init => Abs!Init /\ LoopsMeanUse
<1> SUFFICES ASSUME Init PROVE Abs!Init /\ LoopsMeanUse
  OBVIOUS
<1>0. IInv
  BY InitIInv
<1>1. /\ sstate = [s \in Sem |-> "S_FREE"] /\ scount = [s \in Sem |-> 0]
      /\ squeue = [s \in Sem |-> <<>>] /\ cont = [p \in Pid |-> InUser]
  BY DEF Init
<1>2. cont[Self] = InUser
  BY <1>0, <1>1, CurrentFacts
<1>3. \A s \in Sem : ~Used(s)
  BY <1>1 DEF Used
<1>4. OpenSems = {} /\ Draining = {} /\ Permits = [s \in Sem |-> 0]
  BY <1>0, <1>2, <1>3, NoDraining DEF OpenSems, Permits
<1>5. Abs!Init
  BY <1>1, <1>4 DEF Abs!Init, OpenSems, Draining, Permits
<1> QED BY <1>2, <1>5 DEF LoopsMeanUse, InUser

(* Every behaviour of the calls on semaphores, their deferred loops and    *)
(* kill() included, is one of the abstract counting semaphores: a semaphore*)
(* has permits or a line, never both, each V gives the first in line what  *)
(* it adds, and nothing else shortens a line but deletion, reset and death.*)
THEOREM CountingSemImplemented == Spec => ImplementsCountingSem
<1>1. Init => RInv /\ Abs!Init
  BY InitIInv, InitMaps DEF RInv
<1>2. RInv /\ [Next]_vars => RInv' /\ [Abs!Next]_(Abs!vars)
  BY NextIInv, NextMaps DEF RInv
<1> QED BY <1>1, <1>2, PTL DEF Spec, ImplementsCountingSem, Abs!Spec
=============================================================================
