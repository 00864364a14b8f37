--------------------------- MODULE ProcMgrProofs ---------------------------
(***************************************************************************)
(* Theorems about ProcMgr, for every number of processes, stacks and       *)
(* priorities, every time slice and every workload.                        *)
(***************************************************************************)
EXTENDS ProcMgr, SchedProofs

(* The inductive invariant.  The null process never makes a call and is    *)
(* never killed; a process that left receive() half-way is waiting, dead,  *)
(* or has a message.                                                       *)
NullPassive == /\ cont[NULLPROC] = InUser
               /\ \A p \in Pid : cont[p].op = "kill" => cont[p].pid # NULLPROC

MessageOrWait ==
  \A p \in Pid :
    /\ k.prstate[p] = "RECV" => ~prhasmsg[p]
    /\ cont[p].op = "receive" => k.prstate[p] \in {"RECV", "FREE"} \/ prhasmsg[p]

Typed == /\ prparent \in [Pid -> Pid]
         /\ prhasmsg \in [Pid -> BOOLEAN]
         /\ cont \in [Pid -> Cont]

IInv == Typed /\ ProcessesListed /\ NullPassive /\ MessageOrWait

LEMMA PidFacts == NULLPROC \in Pid /\ 1 \in Pid /\ 1 # NULLPROC
  BY SchedAssumption DEF Pid, NULLPROC

(* What IInv says of the current process, in the form the steps use. *)
LEMMA CurrentFacts ==
  ASSUME IInv
  PROVE  /\ SchedInv(k) /\ k.ndefers = 0 /\ Self \in Pid /\ k.prstate[Self] = "CURR"
         /\ k.prstate \in [Pid -> PrState]
         /\ \A p \in Pid : k.prstate[p] = "CURR" => p = Self
         /\ k.prstate[NULLPROC] \in {"CURR", "READY"}
  BY DEF IInv, ProcessesListed, SchedInv, SchedPre, SchedType, OnlyCurrentRuns,
         NullEligible, Self

LEMMA InitIInv == Init => IInv
<1> SUFFICES ASSUME Init PROVE IInv
  OBVIOUS
<1>1. PICK prio \in Prios : k = SchedInit(prio)
  BY DEF Init
<1>2. prio \in Nat
  BY ProcMgrAssumption
<1>3. SchedType(k)
  <2>1. QUANTUM \in 1 .. QUANTUM
    BY SchedAssumption
  <2>2. <<NULLPROC>> \in Seq(Pid)
    BY PidFacts
  <2> QED BY <1>1, <1>2, <2>1, <2>2, PidFacts DEF SchedInit, SchedType, PrState
<1>4. /\ k.currpid = 1 /\ k.readylist = <<NULLPROC>> /\ k.ndefers = 0
      /\ k.prstate = [p \in Pid |-> CASE p = NULLPROC -> "READY"
                                      [] p = 1 -> "CURR" [] OTHER -> "FREE"]
  BY <1>1 DEF SchedInit
<1>5. ReadyListExact(k) /\ ReadySorted(k)
  BY <1>4, PidFacts DEF ReadyListExact, ReadySorted
<1>6. OnlyCurrentRuns(k) /\ NullEligible(k) /\ k.prstate[k.currpid] = "CURR"
  BY <1>4, PidFacts DEF OnlyCurrentRuns, NullEligible
<1>7. Typed /\ NullPassive /\ MessageOrWait
  <2>1. /\ prparent = [p \in Pid |-> NULLPROC] /\ prhasmsg = [p \in Pid |-> FALSE]
        /\ cont = [p \in Pid |-> InUser]
    BY DEF Init
  <2> QED BY <2>1, <1>4, PidFacts DEF Typed, NullPassive, MessageOrWait, Cont, InUser
<1> QED BY <1>3, <1>4, <1>5, <1>6, <1>7 DEF IInv, ProcessesListed, SchedInv, SchedPre

(* A step that changes neither messages nor continuations, and processes'  *)
(* states only between current, ready and suspended.                       *)
LEMMA QuietStep ==
  ASSUME IInv, UNCHANGED <<prparent, prhasmsg, cont>>,
         SchedInv(k'), k'.ndefers = 0,
         \A p \in Pid : \/ k'.prstate[p] = k.prstate[p]
                        \/ /\ k.prstate[p] \in {"CURR", "READY", "SUSP"}
                           /\ k'.prstate[p] \in {"CURR", "READY", "SUSP"}
  PROVE  IInv'
  BY DEF IInv, Typed, ProcessesListed, NullPassive, MessageOrWait

LEMMA CreateStep ==
  ASSUME IInv, NEW prio \in Prios, Create(prio) PROVE IInv'
<1>1. PICK s \in stkfree : CreateFails(prio) \/ CreateSucceeds(s, prio)
  BY DEF Create
<1>2. CASE CreateFails(prio)
  BY <1>2 DEF CreateFails, IInv, Typed, ProcessesListed, NullPassive, MessageOrWait
<1>3. CASE CreateSucceeds(s, prio)
  <2>1. PICK p \in FreeSlots :
          /\ k' = [k EXCEPT !.prstate[p] = "SUSP", !.prprio[p] = prio]
          /\ prparent' = [prparent EXCEPT ![p] = Self]
          /\ prhasmsg' = [prhasmsg EXCEPT ![p] = FALSE]
          /\ cont' = [cont EXCEPT ![p] = InUser]
    BY <1>3 DEF CreateSucceeds
  <2>2. p \in Pid /\ k.prstate[p] = "FREE" /\ p # NULLPROC
    BY CurrentFacts DEF FreeSlots, Live
  <2> DEFINE m == [k EXCEPT !.prstate[p] = "SUSP"]
  <2>3. prio \in Nat
    BY ProcMgrAssumption
  <2>4. SchedPre(m) /\ m.prstate = [k.prstate EXCEPT ![p] = "SUSP"]
        /\ m.currpid = k.currpid /\ m.ndefers = k.ndefers
    BY <2>2, SetStatePre, CurrentFacts DEF SchedInv, PrState, SchedPre, SchedType
  <2>5. SchedInv(m) /\ m.ndefers = 0
    BY <2>2, <2>4, CurrentFacts DEF SchedInv, Self
  <2>6. k' = [m EXCEPT !.prprio[p] = prio]
    BY <2>1, CurrentFacts DEF SchedInv, SchedPre, SchedType
  <2> HIDE DEF m
  <2>7. SchedInv(k') /\ k'.prstate = m.prstate /\ k'.ndefers = 0
    BY <2>2, <2>3, <2>5, <2>6, SetPrioInv
  <2>8. k'.prstate = [k.prstate EXCEPT ![p] = "SUSP"]
    BY <2>4, <2>7
  <2>9. Typed'
    BY <2>1, <2>2, CurrentFacts, PidFacts DEF IInv, Typed, Cont, InUser
  <2>10. NullPassive'
    BY <2>1, <2>2 DEF IInv, Typed, NullPassive, InUser
  <2>11. MessageOrWait'
    BY <2>1, <2>2, <2>8, CurrentFacts DEF IInv, Typed, MessageOrWait, InUser
  <2> QED BY <2>7, <2>9, <2>10, <2>11 DEF IInv, ProcessesListed
<1> QED BY <1>1, <1>2, <1>3

LEMMA ResumeStep ==
  ASSUME IInv, NEW p \in UserPid, Resume(p) PROVE IInv'
<1>1. /\ p \in Pid /\ k.prstate[p] = "SUSP" /\ k' = Ready(k, p)
      /\ UNCHANGED <<prparent, prhasmsg, cont>>
  BY DEF Resume, UserPid
<1>2. /\ SchedInv(k') /\ k'.ndefers = k.ndefers
      /\ k'.prstate[p] \in {"CURR", "READY"}
      /\ \A x \in Pid \ {p} :
              IF k.prstate[x] \in {"CURR", "READY"}
              THEN k'.prstate[x] \in {"CURR", "READY"}
              ELSE k'.prstate[x] = k.prstate[x]
  BY <1>1, CurrentFacts, ReadyInv
<1> HIDE DEF SchedInv
<1>3. \A x \in Pid : \/ k'.prstate[x] = k.prstate[x]
                     \/ /\ k.prstate[x] \in {"CURR", "READY", "SUSP"}
                        /\ k'.prstate[x] \in {"CURR", "READY", "SUSP"}
  BY <1>1, <1>2
<1> QED BY <1>1, <1>2, <1>3, CurrentFacts, QuietStep

LEMMA SuspendStep ==
  ASSUME IInv, NEW p \in UserPid, Suspend(p) PROVE IInv'
<1>0. p \in Pid /\ p # NULLPROC /\ "SUSP" \in PrState \ {"CURR", "READY"}
      /\ UNCHANGED <<prparent, prhasmsg, cont>>
  BY DEF UserPid, PrState, Suspend
<1>1. CASE k.prstate[p] = "READY" /\ k' = Withdraw(k, p, "SUSP")
  <2>1. SchedInv(k') /\ k'.ndefers = k.ndefers
        /\ k'.prstate = [k.prstate EXCEPT ![p] = "SUSP"]
    BY <1>0, <1>1, CurrentFacts, WithdrawInv
  <2> HIDE DEF SchedInv
  <2>2. \A x \in Pid : \/ k'.prstate[x] = k.prstate[x]
                       \/ /\ k.prstate[x] \in {"CURR", "READY", "SUSP"}
                          /\ k'.prstate[x] \in {"CURR", "READY", "SUSP"}
    BY <1>0, <1>1, <2>1, CurrentFacts
  <2> QED BY <1>0, <2>1, <2>2, CurrentFacts, QuietStep
<1>2. CASE k.prstate[p] = "CURR" /\ k' = Block(k, "SUSP")
  <2>1. p = k.currpid
    BY <1>0, <1>2, CurrentFacts DEF Self
  <2>2. /\ SchedInv(k') /\ k'.ndefers = k.ndefers
        /\ k'.prstate[p] = "SUSP"
        /\ \A x \in Pid \ {p} :
              IF k.prstate[x] = "READY" THEN k'.prstate[x] \in {"CURR", "READY"}
                                        ELSE k'.prstate[x] = k.prstate[x]
    BY <1>0, <1>2, <2>1, CurrentFacts, BlockInv
  <2> HIDE DEF SchedInv
  <2>3. \A x \in Pid : \/ k'.prstate[x] = k.prstate[x]
                       \/ /\ k.prstate[x] \in {"CURR", "READY", "SUSP"}
                          /\ k'.prstate[x] \in {"CURR", "READY", "SUSP"}
    BY <1>2, <2>2
  <2> QED BY <1>0, <2>2, <2>3, CurrentFacts, QuietStep
<1> QED BY <1>1, <1>2 DEF Suspend

(* resched() by an eligible process, as in yield(), chprio() and the clock.*)
LEMMA ReschedStep ==
  ASSUME IInv, UNCHANGED <<prparent, prhasmsg, cont>>,
         NEW m, SchedInv(m), m.ndefers = 0, m.prstate = k.prstate,
         k' \in {m, Resched(m), Tick(m)}
  PROVE  IInv'
<1>1. /\ SchedInv(Resched(m)) /\ SameButRunning(m, Resched(m))
      /\ SchedInv(Tick(m)) /\ SameButRunning(m, Tick(m))
  BY ReschedInv, TickInv DEF SchedInv
<1> HIDE DEF SchedInv
<1>2. SchedInv(k') /\ k'.ndefers = 0
      /\ \A x \in Pid : \/ k'.prstate[x] = k.prstate[x]
                        \/ /\ k.prstate[x] \in {"CURR", "READY", "SUSP"}
                           /\ k'.prstate[x] \in {"CURR", "READY", "SUSP"}
  BY <1>1 DEF SameButRunning
<1> QED BY <1>2, QuietStep

LEMMA ChprioStep ==
  ASSUME IInv, NEW p \in UserPid, NEW prio \in Prios, Chprio(p, prio) PROVE IInv'
<1> DEFINE c == [k EXCEPT !.prprio[p] = prio]
<1>1. p \in Pid /\ prio \in Nat
  BY ProcMgrAssumption DEF UserPid
<1>2. SchedInv(c) /\ c.prstate = k.prstate /\ c.ndefers = 0
  BY <1>1, CurrentFacts, SetPrioInv
<1>3. k' \in {c, Resched(c)} /\ UNCHANGED <<prparent, prhasmsg, cont>>
  BY DEF Chprio
<1> HIDE DEF c
<1> QED BY <1>2, <1>3, ReschedStep

(* send(): the receiver, if it waits, wakes with the message. *)
LEMMA DeliverKeeps ==
  ASSUME IInv, NEW p \in Pid, Deliver(p)
  PROVE  /\ SchedInv(k') /\ k'.ndefers = 0
         /\ \A x \in Pid : \/ k'.prstate[x] = k.prstate[x]
                           \/ /\ k.prstate[x] \in {"CURR", "READY"}
                              /\ k'.prstate[x] \in {"CURR", "READY"}
                           \/ /\ x = p /\ k.prstate[x] = "RECV"
                              /\ k'.prstate[x] \in {"CURR", "READY"}
         /\ prhasmsg' \in [Pid -> BOOLEAN]
         /\ \A x \in Pid : prhasmsg[x] => prhasmsg'[x]
         /\ \A x \in Pid : k'.prstate[x] = "RECV" => ~prhasmsg'[x]
         /\ k.prstate[p] = "RECV" => prhasmsg'[p]
<1>1. prhasmsg \in [Pid -> BOOLEAN]
      /\ \A x \in Pid : k.prstate[x] = "RECV" => ~prhasmsg[x]
  BY DEF IInv, Typed, MessageOrWait
<1>2. CASE Delivers(p) /\ k.prstate[p] = "RECV"
  <2>1. k' = Ready(k, p) /\ prhasmsg' = [prhasmsg EXCEPT ![p] = TRUE]
    BY <1>2 DEF Deliver
  <2>2. /\ SchedInv(k') /\ k'.ndefers = k.ndefers
        /\ k'.prstate[p] \in {"CURR", "READY"}
        /\ \A x \in Pid \ {p} :
              IF k.prstate[x] \in {"CURR", "READY"}
              THEN k'.prstate[x] \in {"CURR", "READY"}
              ELSE k'.prstate[x] = k.prstate[x]
    BY <1>2, <2>1, CurrentFacts, ReadyInv
  <2> HIDE DEF SchedInv
  <2> QED BY <1>1, <1>2, <2>1, <2>2, CurrentFacts
<1>3. CASE Delivers(p) /\ k.prstate[p] # "RECV"
  BY <1>1, <1>3, CurrentFacts DEF Deliver
<1>4. CASE ~Delivers(p)
  <2>1. k' = k /\ prhasmsg' = prhasmsg
    BY <1>4 DEF Deliver
  <2>2. k.prstate[p] # "RECV"
    BY <1>1, <1>4 DEF Delivers, Live
  <2> QED BY <1>1, <2>1, <2>2, CurrentFacts
<1> QED BY <1>2, <1>3, <1>4

LEMMA DeliverStep ==
  ASSUME IInv, NEW p \in Pid, Deliver(p), UNCHANGED prparent,
         cont' = cont \/ \E v \in Pid \ {NULLPROC} :
                          /\ Self # NULLPROC /\ cont[Self] = InUser
                          /\ cont' = [cont EXCEPT ![Self] = [op |-> "kill", pid |-> v]]
  PROVE  IInv'
<1>1. /\ SchedInv(k') /\ k'.ndefers = 0
      /\ \A x \in Pid : k.prstate[x] # "RECV" => k'.prstate[x] # "RECV"
      /\ \A x \in Pid : k.prstate[x] = "FREE" => k'.prstate[x] = "FREE"
      /\ \A x \in Pid : k.prstate[x] = "RECV" => k'.prstate[x] = "RECV" \/ x = p
      /\ prhasmsg' \in [Pid -> BOOLEAN]
      /\ \A x \in Pid : prhasmsg[x] => prhasmsg'[x]
      /\ \A x \in Pid : k'.prstate[x] = "RECV" => ~prhasmsg'[x]
      /\ k.prstate[p] = "RECV" => prhasmsg'[p]
  BY DeliverKeeps
<1> HIDE DEF SchedInv
<1>2. Self \in Pid
  BY CurrentFacts
<1>3. Typed'
  BY <1>1, <1>2 DEF IInv, Typed, Cont
<1>4. NullPassive'
  BY <1>2, PidFacts DEF IInv, Typed, NullPassive
<1>5. \A x \in Pid : cont'[x].op = "receive" => cont[x].op = "receive"
  BY <1>2 DEF IInv, Typed
<1>6. MessageOrWait'
  <2>1. ASSUME NEW x \in Pid, cont'[x].op = "receive"
        PROVE  k'.prstate[x] \in {"RECV", "FREE"} \/ prhasmsg'[x]
    <3>1. k.prstate[x] \in {"RECV", "FREE"} \/ prhasmsg[x]
      BY <1>5, <2>1 DEF IInv, MessageOrWait
    <3> QED BY <1>1, <3>1
  <2> QED BY <1>1, <2>1 DEF MessageOrWait
<1> QED BY <1>1, <1>3, <1>4, <1>6 DEF IInv, ProcessesListed

LEMMA ReceiveStep ==
  ASSUME IInv, Receive PROVE IInv'
<1>0. /\ Self \in Pid /\ Self # NULLPROC /\ cont[Self] = InUser
      /\ UNCHANGED prparent /\ k.currpid = Self
  BY CurrentFacts DEF Receive, Calling, Self
<1>1. CASE prhasmsg[Self]
  <2>1. prhasmsg' = [prhasmsg EXCEPT ![Self] = FALSE] /\ UNCHANGED <<k, cont>>
    BY <1>1 DEF Receive
  <2> QED BY <1>0, <2>1 DEF IInv, Typed, ProcessesListed, NullPassive, MessageOrWait,
             InUser
<1>2. CASE ~prhasmsg[Self]
  <2>1. /\ k' = Block(k, "RECV") /\ prhasmsg' = prhasmsg
        /\ cont' = [cont EXCEPT ![Self] = [op |-> "receive", pid |-> Self]]
    BY <1>2 DEF Receive
  <2>2. /\ SchedInv(k') /\ k'.ndefers = k.ndefers
        /\ k'.prstate[Self] = "RECV"
        /\ \A x \in Pid \ {Self} :
              IF k.prstate[x] = "READY" THEN k'.prstate[x] \in {"CURR", "READY"}
                                        ELSE k'.prstate[x] = k.prstate[x]
    <3>1. "RECV" \in PrState \ {"CURR", "READY"}
      BY DEF PrState
    <3> QED BY <1>0, <2>1, <3>1, CurrentFacts, BlockInv
  <2> HIDE DEF SchedInv
  <2>3. Typed' /\ NullPassive'
    BY <1>0, <2>1 DEF IInv, Typed, NullPassive, Cont
  <2>4. MessageOrWait'
    BY <1>0, <1>2, <2>1, <2>2 DEF IInv, Typed, MessageOrWait
  <2> QED BY <2>2, <2>3, <2>4, CurrentFacts DEF IInv, ProcessesListed
<1> QED BY <1>1, <1>2

LEMMA ClearStep ==
  ASSUME IInv, ReceiveReturns \/ Recvclr PROVE IInv'
<1>1. /\ Self \in Pid /\ k.prstate[Self] = "CURR" /\ UNCHANGED <<k, prparent>>
      /\ prhasmsg' = [prhasmsg EXCEPT ![Self] = FALSE]
      /\ cont' = [cont EXCEPT ![Self] = InUser]
  <2>1. CASE ReceiveReturns
    BY <2>1, CurrentFacts DEF ReceiveReturns
  <2>2. CASE Recvclr
    BY <2>2, CurrentFacts DEF Recvclr, Calling, IInv, Typed
  <2> QED BY <2>1, <2>2
<1>2. ProcessesListed'
  BY <1>1 DEF IInv, ProcessesListed
<1>3. Typed' /\ NullPassive' /\ MessageOrWait'
  BY <1>1, PidFacts DEF IInv, Typed, NullPassive, MessageOrWait, Cont, InUser
<1> QED BY <1>2, <1>3 DEF IInv

LEMMA KillBeginsStep ==
  ASSUME IInv, NEW p \in UserPid, Self # NULLPROC, cont[Self] = InUser, KillBegins(p)
  PROVE  IInv'
<1>0. p \in Pid \ {NULLPROC} /\ prparent[p] \in Pid /\ UNCHANGED prparent
  BY DEF UserPid, IInv, Typed, KillBegins
<1>1. CASE prcount - 1 <= 1
  <2>1. UNCHANGED <<k, prhasmsg, cont, prparent>>
    BY <1>1 DEF KillBegins
  <2> QED BY <2>1 DEF IInv, Typed, ProcessesListed, NullPassive, MessageOrWait
<1>2. CASE ~(prcount - 1 <= 1)
  <2>1. /\ Deliver(prparent[p])
        /\ cont' = [cont EXCEPT ![Self] = [op |-> "kill", pid |-> p]]
    BY <1>2 DEF KillBegins
  <2> QED BY <1>0, <2>1, DeliverStep
<1> QED BY <1>1, <1>2

LEMMA KillEndsStep ==
  ASSUME IInv, KillEnds PROVE IInv'
<1> DEFINE p == cont[Self].pid
<1>0. /\ Self \in Pid /\ cont[Self].op = "kill"
      /\ p \in Pid /\ p # NULLPROC
      /\ UNCHANGED <<prparent, prhasmsg>>
      /\ cont' = [cont EXCEPT ![Self] = InUser]
      /\ "FREE" \in PrState \ {"CURR", "READY"}
  BY CurrentFacts DEF KillEnds, IInv, Typed, NullPassive, Cont, PrState
<1>1. k' = Dies(k, p)
  BY DEF KillEnds
<1> HIDE DEF p
<1>2. /\ SchedInv(k') /\ k'.ndefers = 0
      /\ k'.prstate[p] = "FREE"
      /\ \A x \in Pid \ {p} :
           IF k.prstate[x] \in {"CURR", "READY"}
           THEN k'.prstate[x] \in {"CURR", "READY"} ELSE k'.prstate[x] = k.prstate[x]
  BY <1>0, <1>1, CurrentFacts, DiesInv
<1> HIDE DEF SchedInv
<1>3. Typed' /\ NullPassive'
  BY <1>0, PidFacts DEF IInv, Typed, NullPassive, Cont, InUser
<1>4. MessageOrWait'
  BY <1>0, <1>2 DEF IInv, Typed, MessageOrWait, InUser
<1> QED BY <1>2, <1>3, <1>4 DEF IInv, ProcessesListed

LEMMA NextIInv == IInv /\ [Next]_vars => IInv'
<1> SUFFICES ASSUME IInv, [Next]_vars PROVE IInv'
  OBVIOUS
<1>1. ASSUME NEW prio \in Prios, Create(prio) PROVE IInv'
  BY <1>1, CreateStep
<1>2. ASSUME NEW p \in UserPid, Resume(p) PROVE IInv'
  BY <1>2, ResumeStep
<1>3. ASSUME NEW p \in UserPid, Suspend(p) PROVE IInv'
  BY <1>3, SuspendStep
<1>4. ASSUME NEW p \in UserPid, Send(p) PROVE IInv'
  BY <1>4, DeliverStep DEF Send, UserPid
<1>5. ASSUME NEW p \in UserPid, Kill(p) PROVE IInv'
  BY <1>5, KillBeginsStep DEF Kill, Calling
<1>6. ASSUME NEW p \in UserPid, NEW prio \in Prios, Chprio(p, prio) PROVE IInv'
  BY <1>6, ChprioStep
<1>7. CASE Yield
  BY <1>7, CurrentFacts, ReschedStep DEF Yield
<1>8. CASE Receive
  BY <1>8, ReceiveStep
<1>9. CASE ReceiveReturns \/ Recvclr
  BY <1>9, ClearStep
<1>10. CASE Exit
  BY <1>10, KillBeginsStep, CurrentFacts DEF Exit, Calling, UserPid
<1>11. CASE KillEnds
  BY <1>11, KillEndsStep
<1>12. CASE ClockTick
  BY <1>12, CurrentFacts, ReschedStep DEF ClockTick
<1>13. CASE Halted \/ UNCHANGED vars
  BY <1>13 DEF Halted, vars, IInv, Typed, ProcessesListed, NullPassive, MessageOrWait
<1> QED BY <1>1, <1>2, <1>3, <1>4, <1>5, <1>6, <1>7, <1>8, <1>9, <1>10, <1>11,
           <1>12, <1>13 DEF Next

LEMMA SpecIInv == Spec => []IInv
  BY InitIInv, NextIInv, PTL DEF Spec

(* Whatever processes create, resume, suspend, kill, re-prioritise and     *)
(* message each other, and whenever the clock ticks, one process runs and  *)
(* the ready list holds exactly the ready ones in priority order.          *)
THEOREM ProcessesListedAlways == Spec => []ProcessesListed
<1>1. IInv => ProcessesListed
  BY DEF IInv
<1> QED BY <1>1, SpecIInv, PTL

(* No process stays blocked in receive() over a message, and none returns  *)
(* from receive() without one.                                             *)
THEOREM NoMessageSleptOnAlways == Spec => []NoMessageSleptOn
<1>1. IInv => NoMessageSleptOn
  <2> SUFFICES ASSUME IInv PROVE NoMessageSleptOn
    OBVIOUS
  <2> QED BY CurrentFacts DEF IInv, MessageOrWait, NoMessageSleptOn
<1> QED BY <1>1, SpecIInv, PTL
-----------------------------------------------------------------------------
(* Stacks.  A kill() under way has a live victim, and no two have the same *)
(* one: they would both give back its stack.                               *)
OneKill ==
  /\ \A p \in InKill : cont[p].pid \in UserPid /\ Live(cont[p].pid)
  /\ \A p, q \in InKill : cont[p].pid = cont[q].pid => p = q
StkInv == /\ prstkbase \in [Pid -> Nat] /\ stkfree \subseteq Nat
          /\ OneKill /\ StacksOwned

LEMMA InitStkInv == Init => StkInv
<1> SUFFICES ASSUME Init PROVE StkInv
  OBVIOUS
<1>1. \A p \in UserPid : Live(p) => p = 1
  BY DEF Init, SchedInit, Live, UserPid
<1>2. prstkbase = [p \in Pid |-> 1] /\ stkfree = Stacks \ {1} /\ InKill = {}
  BY DEF Init, InKill, InUser
<1> QED BY <1>1, <1>2, PidFacts DEF StkInv, OneKill, StacksOwned, UserPid, Stacks

(* A step in which nobody is created or dies, and no kill() begins.        *)
LEMMA SameLives ==
  ASSUME IInv, StkInv, UNCHANGED <<prstkbase, stkfree>>,
         \A x \in Pid : Live(x)' <=> Live(x),
         \A x \in Pid : cont'[x].op = "kill" => cont'[x] = cont[x]
  PROVE  StkInv'
<1>1. InKill' \subseteq InKill /\ \A p \in InKill' : cont'[p] = cont[p]
  BY DEF InKill
<1>2. OneKill'
  BY <1>1 DEF StkInv, OneKill, UserPid
<1>3. StacksOwned'
  BY DEF StkInv, StacksOwned, UserPid
<1> QED BY <1>2, <1>3 DEF StkInv

(* What the operations of the scheduler do to lives, in one statement.     *)
LEMMA SchedLives ==
  ASSUME IInv, NEW p \in Pid, NEW m, SchedInv(m), m.ndefers = 0, m.prstate = k.prstate,
         \/ k' \in {m, Resched(m), Tick(m)}
         \/ k.prstate[p] \notin {"CURR", "READY", "FREE"} /\ k' = Ready(k, p)
         \/ k.prstate[p] = "READY" /\ p # NULLPROC /\ k' = Withdraw(k, p, "SUSP")
         \/ p # NULLPROC /\ p = Self /\ \E s \in {"SUSP", "RECV"} : k' = Block(k, s)
  PROVE  \A x \in Pid : Live(x)' <=> Live(x)
<1>1. CASE k' \in {m, Resched(m), Tick(m)}
  <2>1. SameButRunning(m, Resched(m)) /\ SameButRunning(m, Tick(m))
    BY ReschedInv, TickInv DEF SchedInv
  <2> QED BY <1>1, <2>1 DEF SameButRunning, Live
<1>2. CASE k.prstate[p] \notin {"CURR", "READY", "FREE"} /\ k' = Ready(k, p)
  <2>1. /\ k'.prstate[p] \in {"CURR", "READY"}
        /\ \A x \in Pid \ {p} :
             IF k.prstate[x] \in {"CURR", "READY"} THEN k'.prstate[x] \in {"CURR", "READY"}
                                                  ELSE k'.prstate[x] = k.prstate[x]
    BY <1>2, CurrentFacts, ReadyInv
  <2> QED BY <1>2, <2>1 DEF Live
<1>3. CASE k.prstate[p] = "READY" /\ p # NULLPROC /\ k' = Withdraw(k, p, "SUSP")
  <2>1. "SUSP" \in PrState \ {"CURR", "READY"}
    BY DEF PrState
  <2>2. k'.prstate = [k.prstate EXCEPT ![p] = "SUSP"]
    BY <1>3, <2>1, CurrentFacts, WithdrawInv
  <2> QED BY <1>3, <2>2, CurrentFacts DEF Live
<1>4. ASSUME p # NULLPROC, p = Self, NEW s \in {"SUSP", "RECV"}, k' = Block(k, s)
      PROVE  \A x \in Pid : Live(x)' <=> Live(x)
  <2>1. s \in PrState \ {"CURR", "READY"} /\ p = k.currpid /\ k.prstate[p] = "CURR"
    BY <1>4, CurrentFacts DEF PrState, Self
  <2>2. /\ k'.prstate[p] = s
        /\ \A x \in Pid \ {p} :
             IF k.prstate[x] = "READY" THEN k'.prstate[x] \in {"CURR", "READY"}
                                       ELSE k'.prstate[x] = k.prstate[x]
    BY <1>4, <2>1, CurrentFacts, BlockInv
  <2> QED BY <2>1, <2>2 DEF Live
<1> QED BY <1>1, <1>2, <1>3, <1>4

LEMMA DeliverLives ==
  ASSUME IInv, NEW p \in Pid, Deliver(p) PROVE \A x \in Pid : Live(x)' <=> Live(x)
  BY DeliverKeeps DEF Live

LEMMA CreateStacks ==
  ASSUME IInv, StkInv, NEW prio \in Prios, Create(prio) PROVE StkInv'
<1>1. PICK s \in stkfree : /\ stkfree' = stkfree \ {s}
                           /\ CreateFails(prio) \/ CreateSucceeds(s, prio)
  BY DEF Create
<1>2. s \in Nat /\ stkfree' \subseteq Nat
  BY <1>1 DEF StkInv
<1>3. CASE CreateFails(prio)
  BY <1>1, <1>2, <1>3 DEF CreateFails, StkInv, OneKill, StacksOwned, Live, InKill
<1>4. CASE CreateSucceeds(s, prio)
  <2>1. PICK p \in FreeSlots :
          /\ k' = [k EXCEPT !.prstate[p] = "SUSP", !.prprio[p] = prio]
          /\ prstkbase' = [prstkbase EXCEPT ![p] = s]
          /\ cont' = [cont EXCEPT ![p] = InUser]
    BY <1>4 DEF CreateSucceeds
  <2>2. p \in Pid /\ ~Live(p)
    BY DEF FreeSlots
  <2>3. \A x \in Pid : IF x = p THEN Live(x)' ELSE Live(x)' <=> Live(x)
    BY <2>1, <2>2, CurrentFacts DEF Live, SchedInv, SchedPre, SchedType
  <2>4. \A x \in Pid \ {p} : cont'[x] = cont[x] /\ prstkbase'[x] = prstkbase[x]
    BY <2>1
  <2>5. cont'[p] = InUser /\ prstkbase'[p] = s
    BY <2>1, <2>2 DEF IInv, Typed, StkInv
  <2>6. p \notin InKill' /\ \A x \in InKill' : x \in InKill /\ x # p
    BY <2>2, <2>3, <2>4, <2>5 DEF InKill, InUser
  <2>7. OneKill'
    <3>1. \A x \in InKill' : cont'[x] = cont[x] /\ cont[x].pid \in UserPid /\ Live(cont[x].pid)
      BY <2>4, <2>6 DEF StkInv, OneKill, InKill
    <3>2. \A y \in UserPid : Live(y) => Live(y)'
      BY <2>2, <2>3 DEF UserPid
    <3>3. \A x \in InKill' : cont'[x].pid \in UserPid /\ k'.prstate[cont'[x].pid] # "FREE"
      BY <3>1, <3>2 DEF Live
    <3>4. \A x, y \in InKill' : cont'[x].pid = cont'[y].pid => x = y
      BY <2>6, <3>1 DEF StkInv, OneKill
    <3> QED BY <3>3, <3>4 DEF OneKill, Live
  <2>8. StacksOwned'
    BY <1>1, <2>3, <2>4, <2>5 DEF StkInv, StacksOwned, UserPid
  <2> QED BY <1>2, <2>1, <2>7, <2>8 DEF StkInv
<1> QED BY <1>1, <1>3, <1>4

LEMMA KillBeginsStacks ==
  ASSUME IInv, StkInv, NEW p \in UserPid, \A q \in InKill : cont[q].pid # p, KillBegins(p)
  PROVE  StkInv'
<1>0. p \in Pid /\ Live(p) /\ UNCHANGED <<prstkbase, stkfree>> /\ prparent[p] \in Pid
  BY DEF UserPid, KillBegins, IInv, Typed
<1>1. CASE UNCHANGED <<k, cont>>
  BY <1>0, <1>1, SameLives DEF Live
<1>2. CASE Deliver(prparent[p]) /\ cont' = [cont EXCEPT ![Self] = [op |-> "kill", pid |-> p]]
  <2>1. \A x \in Pid : Live(x)' <=> Live(x)
    BY <1>0, <1>2, DeliverLives
  <2>2. \A x \in InKill' : (x = Self /\ cont'[x].pid = p)
                            \/ (x # Self /\ x \in InKill /\ cont'[x] = cont[x])
    BY <1>2, <2>1 DEF InKill, IInv, Typed
  <2>3. OneKill'
    <3>1. \A x \in InKill' : cont'[x].pid \in UserPid /\ Live(cont'[x].pid)
      BY <1>0, <2>2 DEF StkInv, OneKill
    <3>2. \A x \in InKill' : k'.prstate[cont'[x].pid] # "FREE"
      BY <2>1, <3>1 DEF Live, UserPid
    <3>3. \A x, y \in InKill' : cont'[x].pid = cont'[y].pid => x = y
      BY <2>2 DEF StkInv, OneKill
    <3> QED BY <3>1, <3>2, <3>3 DEF OneKill, Live
  <2>4. StacksOwned'
    BY <1>0, <2>1 DEF StkInv, StacksOwned, UserPid
  <2> QED BY <1>0, <2>3, <2>4 DEF StkInv
<1> QED BY <1>1, <1>2 DEF KillBegins

(* The stack of the victim is free, and its owner is no more.              *)
LEMMA KillEndsStacks ==
  ASSUME IInv, StkInv, KillEnds PROVE StkInv'
<1> PICK p \in Pid : p = cont[Self].pid
  BY CurrentFacts DEF KillEnds, IInv, Typed, Cont
<1>1. /\ Self \in InKill /\ p \in Pid /\ p # NULLPROC /\ p \in UserPid /\ Live(p)
      /\ \A q \in InKill : q # Self => cont[q].pid # p
  BY CurrentFacts DEF KillEnds, InKill, StkInv, OneKill, Live, UserPid
<1>2. /\ stkfree' = stkfree \cup {prstkbase[p]} /\ k' = Dies(k, p)
      /\ prstkbase' = prstkbase /\ cont' = [cont EXCEPT ![Self] = InUser]
  BY DEF KillEnds
<1>3. /\ ~Live(p)'
      /\ \A x \in Pid \ {p} : Live(x)' <=> Live(x)
  <2>1. /\ k'.prstate[p] = "FREE"
        /\ \A x \in Pid \ {p} :
             IF k.prstate[x] \in {"CURR", "READY"} THEN k'.prstate[x] \in {"CURR", "READY"}
                                                  ELSE k'.prstate[x] = k.prstate[x]
    BY <1>1, <1>2, CurrentFacts, DiesInv
  <2> QED BY <2>1 DEF Live
<1>4. OneKill'
  <2>1. \A x \in InKill' : x \in InKill /\ x # Self /\ cont'[x] = cont[x]
    BY <1>1, <1>2, <1>3 DEF InKill, InUser, IInv, Typed
  <2>2. \A x \in InKill' : cont[x].pid \in UserPid /\ cont[x].pid # p /\ Live(cont[x].pid)
    BY <1>1, <2>1 DEF StkInv, OneKill
  <2>3. \A x \in InKill' : k'.prstate[cont'[x].pid] # "FREE"
    BY <1>3, <2>1, <2>2 DEF Live, UserPid
  <2>4. \A x, y \in InKill' : cont'[x].pid = cont'[y].pid => x = y
    BY <2>1 DEF StkInv, OneKill
  <2> QED BY <2>1, <2>2, <2>3, <2>4 DEF OneKill, Live
<1>5. StacksOwned'
  BY <1>1, <1>2, <1>3 DEF StkInv, StacksOwned, UserPid
<1>6. prstkbase[p] \in Nat
  BY <1>1 DEF StkInv
<1> QED BY <1>2, <1>4, <1>5, <1>6 DEF StkInv

LEMMA NextStkInv == "overlap" \notin Workload => (IInv /\ StkInv /\ [Next]_vars => StkInv')
<1> SUFFICES ASSUME "overlap" \notin Workload, IInv, StkInv, [Next]_vars PROVE StkInv'
  OBVIOUS
<1>0. UserPid \subseteq Pid \ {NULLPROC} /\ SchedInv(k) /\ k.ndefers = 0
  BY CurrentFacts DEF UserPid
<1> HIDE DEF SchedInv
<1>1. ASSUME NEW prio \in Prios, Create(prio) PROVE StkInv'
  BY <1>1, CreateStacks
<1>2. ASSUME NEW p \in UserPid, Resume(p) PROVE StkInv'
  <2>1. k' = Ready(k, p) /\ k.prstate[p] = "SUSP" /\ UNCHANGED <<prstkbase, stkfree, cont>>
    BY <1>2 DEF Resume
  <2> QED BY <1>0, <2>1, SchedLives, SameLives
<1>3. ASSUME NEW p \in UserPid, Suspend(p) PROVE StkInv'
  <2>1. /\ UNCHANGED <<prstkbase, stkfree, cont>>
        /\ \/ k.prstate[p] = "READY" /\ k' = Withdraw(k, p, "SUSP")
           \/ p = Self /\ k' = Block(k, "SUSP")
    BY <1>0, <1>3, CurrentFacts DEF Suspend
  <2> QED BY <1>0, <2>1, SchedLives, SameLives
<1>4. ASSUME NEW p \in UserPid, Send(p) PROVE StkInv'
  BY <1>0, <1>4, DeliverLives, SameLives DEF Send
<1>5. ASSUME NEW p \in UserPid, Kill(p) PROVE StkInv'
  BY <1>0, <1>5, KillBeginsStacks DEF Kill, MayKill
<1>6. ASSUME NEW p \in UserPid, NEW prio \in Prios, Chprio(p, prio) PROVE StkInv'
  <2> DEFINE c == [k EXCEPT !.prprio[p] = prio]
  <2>1. SchedInv(c) /\ c.prstate = k.prstate /\ c.ndefers = 0
    BY <1>0, SetPrioInv, ProcMgrAssumption
  <2>2. k' \in {c, Resched(c)} /\ UNCHANGED <<prstkbase, stkfree, cont>>
    BY <1>6 DEF Chprio
  <2> HIDE DEF c
  <2> QED BY <1>0, <2>1, <2>2, SchedLives, SameLives
<1>7. CASE Yield \/ ClockTick
  <2>1. k' \in {k, Resched(k), Tick(k)} /\ UNCHANGED <<prstkbase, stkfree, cont>>
    BY <1>7 DEF Yield, ClockTick
  <2> QED BY <1>0, <2>1, PidFacts, SchedLives, SameLives
<1>8. CASE Receive
  <2>1. /\ UNCHANGED <<prstkbase, stkfree>> /\ Self \in Pid \ {NULLPROC}
        /\ \/ UNCHANGED <<k, cont>>
           \/ /\ k' = Block(k, "RECV")
              /\ cont' = [cont EXCEPT ![Self] = [op |-> "receive", pid |-> Self]]
    BY <1>8, CurrentFacts DEF Receive, Calling
  <2>2. \A x \in Pid : cont'[x].op = "kill" => cont'[x] = cont[x]
    BY <2>1 DEF IInv, Typed
  <2> QED BY <1>0, <2>1, <2>2, SchedLives, SameLives
<1>9. CASE ReceiveReturns \/ Recvclr
  <2>1. /\ UNCHANGED <<k, prstkbase, stkfree>>
        /\ cont' = cont \/ cont' = [cont EXCEPT ![Self] = InUser]
    BY <1>9 DEF ReceiveReturns, Recvclr
  <2>2. \A x \in Pid : cont'[x].op = "kill" => cont'[x] = cont[x]
    BY <2>1 DEF IInv, Typed, InUser
  <2> QED BY <2>1, <2>2, SameLives DEF Live
<1>10. CASE Exit
  BY <1>10, KillBeginsStacks, CurrentFacts DEF Exit, MayKill, Calling, UserPid
<1>11. CASE KillEnds
  BY <1>11, KillEndsStacks
<1>12. CASE Halted \/ UNCHANGED vars
  BY <1>12, SameLives DEF Halted, vars, Live
<1> QED BY <1>1, <1>2, <1>3, <1>4, <1>5, <1>6, <1>7, <1>8, <1>9, <1>10, <1>11, <1>12 DEF Next

(* As long as no process is killed again in the middle of its kill(), no   *)
(* live process has its stack freed or given to another (system/kill.c:37),*)
(* although calls of kill() overlap, and killers are killed.               *)
THEOREM StacksOwnedAlways == "overlap" \notin Workload => (Spec => []StacksOwned)
<1> SUFFICES ASSUME "overlap" \notin Workload PROVE Spec => []StacksOwned
  OBVIOUS
<1>1. StkInv => StacksOwned
  BY DEF StkInv
<1>2. IInv /\ StkInv /\ [Next]_vars => StkInv'
  BY NextStkInv
<1> QED BY <1>1, <1>2, InitStkInv, SpecIInv, PTL DEF Spec
=============================================================================
