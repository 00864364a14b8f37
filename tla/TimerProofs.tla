------------------------------ MODULE TimerProofs ------------------------------
(***************************************************************************)
(* Theorems about Timer, for every number of processes, all priorities,    *)
(* delays and waits, and every workload.  The keys of the delta list take  *)
(* no part in the first three: a process leaves the list when it wakes,    *)
(* whatever the keys made the clock believe.  The last is about the keys.  *)
(***************************************************************************)
EXTENDS Timer, SchedProofs

Typed == /\ sleepq \in Seq(Pid)
         /\ prhasmsg \in [Pid -> BOOLEAN]
         /\ cont \in [Pid -> Cont]

(* Only the current process is in the loop of wakeup(), and rescheduling   *)
(* is deferred exactly then.  Nobody kills the null process.               *)
LoopDeferred ==
  /\ \A p \in Pid : cont[p].op = "wakeup" => p = Self
  /\ \A p \in Pid : cont[p].op = "kill" => cont[p].pid # NULLPROC
  /\ k.ndefers = IF cont[Self].op = "wakeup" THEN 1 ELSE 0

(* A process inside receive() waits, has been killed, or has a message.    *)
ReceiverServed ==
  /\ \A p \in Pid : cont[p].op = "receive"
                      => k.prstate[p] \in {"RECV", "FREE"} \/ prhasmsg[p]
  /\ \A p \in Pid : k.prstate[p] \in {"RECV", "RECTIM"} => ~prhasmsg[p]

(* The inductive invariant. *)
IInv == /\ Typed /\ SchedInv(k) /\ LoopDeferred
        /\ SleepersListed /\ ReceiverServed

LEMMA TimerFacts == /\ NULLPROC \in Pid /\ 1 \in Pid /\ 1 # NULLPROC
                    /\ InUser \in Cont /\ InUser.op = "user"
                    /\ \A op \in {"receive", "recvtime", "kill", "wakeup", "tick"}, p \in Pid :
                         [op |-> op, pid |-> p] \in Cont
  BY SchedAssumption, TimerAssumption DEF Pid, NULLPROC, InUser, Cont

LEMMA CurrentFacts ==
  ASSUME IInv
  PROVE  /\ SchedInv(k) /\ Self \in Pid /\ Self = k.currpid /\ k.prstate[Self] = "CURR"
         /\ k.prstate \in [Pid -> PrState]
         /\ \A p \in Pid : k.prstate[p] = "CURR" => p = Self
         /\ k.prstate[NULLPROC] \in {"CURR", "READY"}
  BY DEF IInv, SchedInv, SchedPre, SchedType, OnlyCurrentRuns, NullEligible, Self

LEMMA InitIInv == Init => IInv
<1> SUFFICES ASSUME Init PROVE IInv
  OBVIOUS
<1>1. k = SchedCreated(Prio) /\ Prio \in [Pid -> Nat]
  BY TimerAssumption DEF Init
<1>2. /\ SchedInv(k) /\ k.currpid = 1 /\ k.ndefers = 0
      /\ k.prstate = [p \in Pid |-> CASE p = NULLPROC -> "READY" [] p = 1 -> "CURR"
                                      [] OTHER -> "SUSP"]
  BY <1>1, SchedCreatedInv
<1> HIDE DEF SchedInv
<1>3. /\ sleepq = <<>> /\ prhasmsg = [p \in Pid |-> FALSE]
      /\ cont = [p \in Pid |-> InUser]
  BY DEF Init
<1>4. Typed /\ LoopDeferred
  BY <1>2, <1>3, TimerFacts DEF Typed, LoopDeferred, Self
<1>5. SleepersListed /\ ReceiverServed
  BY <1>2, <1>3, TimerFacts DEF SleepersListed, ReceiverServed, Asleep, InQ, Once
<1> QED BY <1>2, <1>4, <1>5 DEF IInv

-----------------------------------------------------------------------------
(* What a step does to the delta list. *)

(* x is still ready or running, or in the state it was in. *)
Kept(x) == IF k.prstate[x] \in {"CURR", "READY"}
           THEN k'.prstate[x] \in {"CURR", "READY"}
           ELSE k'.prstate[x] = k.prstate[x]

(* p, awake, goes from one state in which it is awake to another. *)
LEMMA SameSleepers ==
  ASSUME IInv, UNCHANGED sleepq, NEW p \in Pid, ~Asleep(p), ~Asleep(p)',
         \A x \in Pid \ {p} : Kept(x)
  PROVE  SleepersListed'
  BY DEF IInv, SleepersListed, Asleep, Kept

(* p wakes and leaves the list. *)
LEMMA SleeperLeaves ==
  ASSUME IInv, NEW p \in Pid, InQ(sleepq, p), ~Asleep(p)',
         Once(sleepq'), \A y : InQ(sleepq', y) <=> InQ(sleepq, y) /\ y # p,
         \A x \in Pid \ {p} : Kept(x)
  PROVE  SleepersListed'
  BY DEF IInv, SleepersListed, Asleep, Kept

(* The current process goes to sleep, at some place of the list. *)
LEMMA SleeperEnters ==
  ASSUME IInv, Self # NULLPROC, k.ndefers = 0, NEW s \in {"SLEEP", "RECTIM"},
         k' = Block(k, s), NEW i \in 1 .. Len(sleepq) + 1,
         sleepq' = InsertAt(sleepq, i, Self)
  PROVE  /\ SchedInv(k') /\ k'.ndefers = 0 /\ k'.prstate[Self] = s
         /\ \A x \in Pid \ {Self} : Kept(x)
         /\ sleepq' \in Seq(Pid) /\ SleepersListed'
<1>1. /\ SchedInv(k) /\ k.currpid = Self /\ Self \in Pid /\ k.currpid # NULLPROC
      /\ s \in PrState \ {"CURR", "READY"}
      /\ \A x \in Pid : k.prstate[x] = "CURR" => x = Self
  BY CurrentFacts DEF PrState
<1>2. /\ SchedInv(k') /\ k'.ndefers = 0 /\ k'.prstate[Self] = s
      /\ \A x \in Pid \ {Self} :
           IF k.prstate[x] = "READY" THEN k'.prstate[x] \in {"CURR", "READY"}
                                     ELSE k'.prstate[x] = k.prstate[x]
  BY <1>1, BlockInv
<1> HIDE DEF SchedInv
<1>3. \A x \in Pid \ {Self} : Kept(x)
  BY <1>1, <1>2 DEF Kept
<1>4. /\ sleepq \in Seq(Pid) /\ Once(sleepq) /\ ~InQ(sleepq, Self)
      /\ \A x \in Pid : InQ(sleepq, x) <=> Asleep(x)
  BY CurrentFacts DEF IInv, Typed, SleepersListed, Asleep
<1>5. /\ sleepq' \in Seq(Pid) /\ Once(sleepq')
      /\ \A y : InQ(sleepq', y) <=> InQ(sleepq, y) \/ y = Self
  <2>1. /\ InsertAt(sleepq, i, Self) \in Seq(Pid) /\ Once(InsertAt(sleepq, i, Self))
        /\ \A y : InQ(InsertAt(sleepq, i, Self), y) <=> InQ(sleepq, y) \/ y = Self
    BY <1>1, <1>4, InsertAtQ
  <2> QED BY <2>1
<1>p. PICK me \in Pid : me = Self
  BY <1>1
<1>6. Asleep(me)' /\ \A x \in Pid \ {me} : (Asleep(x)' <=> Asleep(x))
  BY <1>p, <1>2, <1>3 DEF Asleep, Kept
<1>7. SleepersListed'
  BY <1>p, <1>4, <1>5, <1>6 DEF SleepersListed
<1> QED BY <1>2, <1>3, <1>5, <1>7

(* unsleep() of a sleeper. *)
LEMMA UnsleepLeaves ==
  ASSUME IInv, NEW p \in Pid, Asleep(p), Unsleep(p)
  PROVE  /\ sleepq' \in Seq(Pid) /\ Once(sleepq') /\ InQ(sleepq, p)
         /\ \A y : InQ(sleepq', y) <=> InQ(sleepq, y) /\ y # p
<1>1. sleepq \in Seq(Pid) /\ Once(sleepq) /\ InQ(sleepq, p)
  BY DEF IInv, Typed, SleepersListed
<1>2. sleepq' = Unlink(sleepq, p)
  BY DEF Unsleep
<1>3. /\ Unlink(sleepq, p) \in Seq(Pid) /\ Once(Unlink(sleepq, p))
      /\ \A y : InQ(Unlink(sleepq, p), y) <=> InQ(sleepq, y) /\ y # p
  BY <1>1, UnlinkQ
<1> QED BY <1>1, <1>2, <1>3

(* What send() does for its receiver: if p waited, it waits no longer.     *)
LEMMA DeliverFacts ==
  ASSUME IInv, NEW p \in Pid, Deliver(p), k.ndefers = 0
  PROVE  /\ SchedInv(k') /\ k'.ndefers = 0
         /\ sleepq' \in Seq(Pid) /\ prhasmsg' \in [Pid -> BOOLEAN]
         /\ SleepersListed'
         /\ \A x \in Pid : prhasmsg[x] => prhasmsg'[x]
         /\ \A x \in Pid : k'.prstate[x] \in {"RECV", "RECTIM"} => ~prhasmsg'[x]
         /\ \A x \in Pid : k.prstate[x] = "FREE" => k'.prstate[x] = "FREE"
         /\ \A x \in Pid : k.prstate[x] = "RECV"
                             => k'.prstate[x] = "RECV" \/ prhasmsg'[x]
<1>0. /\ sleepq \in Seq(Pid) /\ prhasmsg \in [Pid -> BOOLEAN] /\ SchedInv(k)
      /\ SleepersListed
      /\ \A x \in Pid : k.prstate[x] \in {"RECV", "RECTIM"} => ~prhasmsg[x]
  BY DEF IInv, Typed, ReceiverServed
<1>1. CASE ~Live(p) \/ prhasmsg[p]
  <2>1. UNCHANGED <<k, prhasmsg, sleepq>>
    BY <1>1 DEF Deliver, sleepvars
  <2> HIDE DEF SchedInv
  <2> QED BY <1>0, <2>1 DEF SleepersListed, Asleep
<1>2. CASE ~(~Live(p) \/ prhasmsg[p]) /\ k.prstate[p] \notin {"RECV", "RECTIM"}
  <2>1. UNCHANGED <<k, sleepq>> /\ prhasmsg' = [prhasmsg EXCEPT ![p] = TRUE]
    BY <1>2 DEF Deliver, sleepvars
  <2> HIDE DEF SchedInv
  <2> QED BY <1>0, <1>2, <2>1 DEF SleepersListed, Asleep
<1>3. CASE ~(~Live(p) \/ prhasmsg[p]) /\ k.prstate[p] \in {"RECV", "RECTIM"}
  <2>1. k' = Ready(k, p) /\ prhasmsg' = [prhasmsg EXCEPT ![p] = TRUE]
    BY <1>3 DEF Deliver
  <2>2. /\ SchedInv(k') /\ k'.ndefers = 0 /\ k'.prstate[p] \in {"CURR", "READY"}
        /\ \A x \in Pid \ {p} : Kept(x)
    <3>1. /\ SchedInv(Ready(k, p)) /\ Ready(k, p).ndefers = k.ndefers
          /\ Ready(k, p).prstate[p] \in {"CURR", "READY"}
          /\ \A x \in Pid \ {p} :
               IF k.prstate[x] \in {"CURR", "READY"}
               THEN Ready(k, p).prstate[x] \in {"CURR", "READY"}
               ELSE Ready(k, p).prstate[x] = k.prstate[x]
      BY <1>0, <1>3, ReadyInv
    <3> QED BY <2>1, <3>1 DEF Kept
  <2> HIDE DEF SchedInv
  <2>3. sleepq' \in Seq(Pid) /\ SleepersListed'
    <3>1. CASE k.prstate[p] = "RECTIM"
      <4>1. Unsleep(p) /\ Asleep(p) /\ ~Asleep(p)'
        BY <1>3, <2>2, <3>1 DEF Deliver, Asleep
      <4> QED BY <2>2, <4>1, UnsleepLeaves, SleeperLeaves
    <3>2. CASE k.prstate[p] = "RECV"
      <4>1. UNCHANGED sleepq /\ ~Asleep(p) /\ ~Asleep(p)'
        BY <1>3, <2>2, <3>2 DEF Deliver, Asleep, sleepvars
      <4> QED BY <1>0, <2>2, <4>1, SameSleepers
    <3> QED BY <1>3, <3>1, <3>2
  <2>4. \A x \in Pid : prhasmsg'[x] = IF x = p THEN TRUE ELSE prhasmsg[x]
    BY <1>0, <2>1
  <2>5. prhasmsg' \in [Pid -> BOOLEAN]
    BY <1>0, <2>1
  <2> QED BY <1>0, <1>3, <2>2, <2>3, <2>4, <2>5 DEF Kept
<1> QED BY <1>1, <1>2, <1>3

-----------------------------------------------------------------------------
(* A step that leaves the continuations alone. *)
LEMMA UserStep ==
  ASSUME IInv, cont[Self] = InUser, UNCHANGED cont,
         SchedInv(k'), k'.ndefers = 0, sleepq' \in Seq(Pid),
         prhasmsg' \in [Pid -> BOOLEAN], SleepersListed', ReceiverServed'
  PROVE  IInv'
<1>1. k'.currpid \in Pid
  BY DEF SchedInv, SchedPre, SchedType
<1>2. \A p \in Pid : cont[p].op # "wakeup"
  BY TimerFacts DEF IInv, LoopDeferred
<1>3. LoopDeferred' /\ Typed'
  BY <1>1, <1>2 DEF IInv, Typed, LoopDeferred, Self
<1> QED BY <1>3 DEF IInv

(* A step after which the current process continues with c. *)
LEMMA GotoStep ==
  ASSUME IInv, NEW c \in Cont,
         c.op # "wakeup", c.op = "kill" => c.pid # NULLPROC,
         cont' = [cont EXCEPT ![Self] = c],
         SchedInv(k'), k'.ndefers = 0, sleepq' \in Seq(Pid),
         prhasmsg' \in [Pid -> BOOLEAN], SleepersListed', ReceiverServed'
  PROVE  IInv'
<1>1. k'.currpid \in Pid /\ Self \in Pid /\ cont \in [Pid -> Cont]
  BY CurrentFacts DEF IInv, Typed, SchedInv, SchedPre, SchedType
<1>2. \A p \in Pid : /\ cont'[p].op # "wakeup"
                     /\ cont'[p].op = "kill" => cont'[p].pid # NULLPROC
  BY <1>1 DEF IInv, LoopDeferred
<1>3. LoopDeferred' /\ Typed'
  BY <1>1, <1>2 DEF Typed, LoopDeferred, Self
<1> QED BY <1>3 DEF IInv

(* Outside wakeup() nothing is deferred. *)
LEMMA NotDeferred ==
  ASSUME IInv, cont[Self].op # "wakeup"
  PROVE  k.ndefers = 0
  BY DEF IInv, LoopDeferred

(* Messages stay as they are and nobody starts to wait for one. *)
LEMMA SameMessages ==
  ASSUME IInv, UNCHANGED prhasmsg,
         \A x \in Pid : cont'[x].op = "receive" => cont[x].op = "receive",
         \A x \in Pid : k'.prstate[x] \in {"RECV", "RECTIM"} => k'.prstate[x] = k.prstate[x],
         \A x \in Pid : k.prstate[x] \in {"RECV", "FREE"}
                            => k'.prstate[x] \in {"RECV", "FREE"}
  PROVE  ReceiverServed'
  BY DEF IInv, ReceiverServed

LEMMA ResumeStep ==
  ASSUME IInv, NEW p \in UserPid, Resume(p) PROVE IInv'
<1>1. /\ cont[Self] = InUser /\ UNCHANGED <<sleepq, prhasmsg, cont>> /\ p \in Pid
      /\ k' = Ready(k, p) /\ k.prstate[p] = "SUSP" /\ SchedInv(k) /\ k.ndefers = 0
      /\ sleepq \in Seq(Pid) /\ prhasmsg \in [Pid -> BOOLEAN]
  BY NotDeferred, CurrentFacts, TimerFacts
     DEF Resume, Calling, UserPid, IInv, Typed, sleepvars
<1>2. /\ SchedInv(k') /\ k'.ndefers = 0 /\ k'.prstate[p] \in {"CURR", "READY"}
      /\ \A x \in Pid \ {p} : Kept(x)
  BY <1>1, ReadyInv DEF Kept
<1> HIDE DEF SchedInv
<1>3. ~Asleep(p) /\ ~Asleep(p)'
  BY <1>1, <1>2 DEF Asleep
<1>4. SleepersListed'
  BY <1>1, <1>2, <1>3, SameSleepers
<1>5. ReceiverServed'
  BY <1>1, <1>2, SameMessages DEF Kept
<1> QED BY <1>1, <1>2, <1>4, <1>5, UserStep

LEMMA SleepStep ==
  ASSUME IInv, NEW d, Sleep(d) PROVE IInv'
<1>1. /\ cont[Self] = InUser /\ UNCHANGED <<prhasmsg, cont>> /\ Self # NULLPROC
      /\ SchedInv(k) /\ k.ndefers = 0
      /\ sleepq \in Seq(Pid) /\ prhasmsg \in [Pid -> BOOLEAN]
  BY NotDeferred, CurrentFacts, TimerFacts DEF Sleep, Calling, IInv, Typed
<1>2. CASE k' = Resched(k) /\ UNCHANGED sleepvars
  <2>1. SchedInv(k') /\ SameButRunning(k, k')
    <3>1. SchedPre(k) /\ ~(k.ndefers > 0)
      BY <1>1 DEF SchedInv
    <3> QED BY <1>2, <3>1, ReschedInv
  <2> HIDE DEF SchedInv
  <2>2. k'.ndefers = 0 /\ \A x \in Pid : Kept(x)
    BY <1>1, <2>1 DEF SameButRunning, Kept
  <2>3. SleepersListed'
    BY <1>2, <2>2 DEF IInv, SleepersListed, Asleep, Kept, sleepvars
  <2>4. ReceiverServed'
    BY <1>1, <2>2, SameMessages DEF Kept
  <2>5. sleepq' \in Seq(Pid) /\ prhasmsg' \in [Pid -> BOOLEAN]
    BY <1>1, <1>2 DEF sleepvars
  <2> QED BY <1>1, <2>1, <2>2, <2>3, <2>4, <2>5, UserStep
<1>3. CASE Insertd(Self, Int32(d)) /\ k' = Block(k, "SLEEP")
  <2>1. PICK i \in 1 .. Len(sleepq) + 1 : sleepq' = InsertAt(sleepq, i, Self)
    BY <1>3 DEF Insertd
  <2>2. /\ SchedInv(k') /\ k'.ndefers = 0 /\ k'.prstate[Self] = "SLEEP"
        /\ \A x \in Pid \ {Self} : Kept(x)
        /\ sleepq' \in Seq(Pid) /\ SleepersListed'
    BY <1>1, <1>3, <2>1, SleeperEnters
  <2> HIDE DEF SchedInv
  <2>3. ReceiverServed'
    BY <1>1, <2>2, CurrentFacts, SameMessages DEF Kept
  <2> QED BY <1>1, <2>2, <2>3, UserStep
<1> QED BY <1>2, <1>3 DEF Sleep

LEMMA RecvtimeStep ==
  ASSUME IInv, NEW w, Recvtime(w) PROVE IInv'
<1>1. /\ cont[Self] = InUser /\ Self # NULLPROC /\ Self \in Pid
      /\ SchedInv(k) /\ k.ndefers = 0 /\ k.prstate[Self] = "CURR"
      /\ sleepq \in Seq(Pid) /\ prhasmsg \in [Pid -> BOOLEAN]
      /\ cont \in [Pid -> Cont]
  BY NotDeferred, CurrentFacts, TimerFacts DEF Recvtime, Calling, IInv, Typed
<1>2. CASE prhasmsg' = [prhasmsg EXCEPT ![Self] = FALSE] /\ UNCHANGED <<k, sleepvars, cont>>
  <2>1. UNCHANGED <<k, sleepq, cont>>
    BY <1>2 DEF sleepvars
  <2> HIDE DEF SchedInv
  <2>2. SleepersListed'
    BY <2>1 DEF IInv, SleepersListed, Asleep
  <2>3. ReceiverServed' /\ prhasmsg' \in [Pid -> BOOLEAN]
    BY <1>1, <1>2, <2>1, TimerFacts DEF IInv, ReceiverServed
  <2> QED BY <1>1, <2>1, <2>2, <2>3, UserStep
<1>3. CASE /\ ~prhasmsg[Self] /\ Insertd(Self, w) /\ k' = Block(k, "RECTIM")
           /\ Goto("recvtime", Self) /\ UNCHANGED prhasmsg
  <2>1. PICK i \in 1 .. Len(sleepq) + 1 : sleepq' = InsertAt(sleepq, i, Self)
    BY <1>3 DEF Insertd
  <2>2. /\ SchedInv(k') /\ k'.ndefers = 0 /\ k'.prstate[Self] = "RECTIM"
        /\ \A x \in Pid \ {Self} : Kept(x)
        /\ sleepq' \in Seq(Pid) /\ SleepersListed'
    BY <1>1, <1>3, <2>1, SleeperEnters
  <2> HIDE DEF SchedInv
  <2>c. PICK c : c = [op |-> "recvtime", pid |-> Self]
    OBVIOUS
  <2>3. /\ c \in Cont /\ c.op = "recvtime" /\ cont' = [cont EXCEPT ![Self] = c]
    BY <1>1, <1>3, <2>c, TimerFacts DEF Goto
  <2>4. ReceiverServed'
    BY <1>1, <1>3, <2>2, <2>3 DEF IInv, ReceiverServed, Kept
  <2>5. prhasmsg' \in [Pid -> BOOLEAN]
    BY <1>1, <1>3
  <2> QED BY <2>2, <2>3, <2>4, <2>5, GotoStep
<1> QED BY <1>2, <1>3 DEF Recvtime

LEMMA ReceiveStep ==
  ASSUME IInv, Receive PROVE IInv'
<1>1. /\ cont[Self] = InUser /\ Self # NULLPROC /\ Self \in Pid /\ k.currpid = Self
      /\ SchedInv(k) /\ k.ndefers = 0 /\ k.prstate[Self] = "CURR"
      /\ \A x \in Pid : k.prstate[x] = "CURR" => x = Self
      /\ sleepq \in Seq(Pid) /\ prhasmsg \in [Pid -> BOOLEAN]
      /\ cont \in [Pid -> Cont] /\ UNCHANGED sleepq
  BY NotDeferred, CurrentFacts, TimerFacts DEF Receive, Calling, IInv, Typed, sleepvars
<1>2. CASE prhasmsg' = [prhasmsg EXCEPT ![Self] = FALSE] /\ UNCHANGED <<k, cont>>
  <2> HIDE DEF SchedInv
  <2>1. SleepersListed'
    BY <1>1, <1>2 DEF IInv, SleepersListed, Asleep
  <2>2. ReceiverServed' /\ prhasmsg' \in [Pid -> BOOLEAN]
    BY <1>1, <1>2, TimerFacts DEF IInv, ReceiverServed
  <2> QED BY <1>1, <1>2, <2>1, <2>2, UserStep
<1>3. CASE /\ ~prhasmsg[Self] /\ k' = Block(k, "RECV") /\ Goto("receive", Self)
           /\ UNCHANGED prhasmsg
  <2>1. "RECV" \in PrState \ {"CURR", "READY"}
    BY DEF PrState
  <2>2. /\ SchedInv(k') /\ k'.ndefers = 0 /\ k'.prstate[Self] = "RECV"
        /\ \A x \in Pid \ {Self} :
             IF k.prstate[x] = "READY" THEN k'.prstate[x] \in {"CURR", "READY"}
                                       ELSE k'.prstate[x] = k.prstate[x]
    BY <1>1, <1>3, <2>1, BlockInv
  <2> HIDE DEF SchedInv
  <2>3. \A x \in Pid \ {Self} : Kept(x)
    BY <1>1, <2>2 DEF Kept
  <2>p. PICK me \in Pid : me = Self
    BY <1>1
  <2>4. ~Asleep(me) /\ ~Asleep(me)'
    BY <1>1, <2>p, <2>2 DEF Asleep
  <2>5. SleepersListed'
    BY <1>1, <2>p, <2>3, <2>4, SameSleepers
  <2>c. PICK c : c = [op |-> "receive", pid |-> Self]
    OBVIOUS
  <2>6. /\ c \in Cont /\ c.op = "receive" /\ cont' = [cont EXCEPT ![Self] = c]
    BY <1>1, <1>3, <2>c, TimerFacts DEF Goto
  <2>7. ReceiverServed'
    BY <1>1, <1>3, <2>2, <2>3, <2>6 DEF IInv, ReceiverServed, Kept
  <2> QED BY <1>1, <1>3, <2>2, <2>5, <2>6, <2>7, GotoStep
<1> QED BY <1>2, <1>3 DEF Receive

(* The current process is back in its own code, its message, if any, taken. *)
LEMMA TakenStep ==
  ASSUME IInv, cont[Self].op # "wakeup", UNCHANGED <<k, sleepq>>,
         prhasmsg' = [prhasmsg EXCEPT ![Self] = FALSE],
         cont' = [cont EXCEPT ![Self] = InUser]
  PROVE  IInv'
<1>1. /\ Self \in Pid /\ SchedInv(k) /\ k.ndefers = 0 /\ k.prstate[Self] = "CURR"
      /\ sleepq \in Seq(Pid) /\ prhasmsg \in [Pid -> BOOLEAN] /\ cont \in [Pid -> Cont]
  BY NotDeferred, CurrentFacts DEF IInv, Typed
<1> HIDE DEF SchedInv
<1>2. SleepersListed'
  BY DEF IInv, SleepersListed, Asleep
<1>3. ReceiverServed' /\ prhasmsg' \in [Pid -> BOOLEAN]
  BY <1>1, TimerFacts DEF IInv, ReceiverServed
<1> QED BY <1>1, <1>2, <1>3, TimerFacts, GotoStep

LEMMA RecvclrStep ==
  ASSUME IInv, Recvclr \/ ReceiveReturns PROVE IInv'
<1>1. CASE Recvclr
  <2>1. /\ cont[Self] = InUser /\ UNCHANGED <<k, sleepq, cont>>
        /\ prhasmsg' = [prhasmsg EXCEPT ![Self] = FALSE]
    BY <1>1 DEF Recvclr, Calling, sleepvars
  <2>2. Self \in Pid /\ cont \in [Pid -> Cont]
    BY CurrentFacts DEF IInv, Typed
  <2>3. cont' = [cont EXCEPT ![Self] = InUser]
    BY <2>1, <2>2
  <2> QED BY <2>1, <2>3, TimerFacts, TakenStep
<1>2. CASE ReceiveReturns
  BY <1>2, TakenStep DEF ReceiveReturns, sleepvars
<1> QED BY <1>1, <1>2

LEMMA SendStep ==
  ASSUME IInv, NEW p \in UserPid, Send(p) PROVE IInv'
<1>1. cont[Self] = InUser /\ Deliver(p) /\ UNCHANGED cont /\ p \in Pid
  BY DEF Send, Calling, UserPid
<1>2. k.ndefers = 0
  BY <1>1, NotDeferred, TimerFacts
<1>3. /\ SchedInv(k') /\ k'.ndefers = 0
      /\ sleepq' \in Seq(Pid) /\ prhasmsg' \in [Pid -> BOOLEAN]
      /\ SleepersListed'
      /\ \A x \in Pid : prhasmsg[x] => prhasmsg'[x]
      /\ \A x \in Pid : k'.prstate[x] \in {"RECV", "RECTIM"} => ~prhasmsg'[x]
      /\ \A x \in Pid : k.prstate[x] = "FREE" => k'.prstate[x] = "FREE"
      /\ \A x \in Pid : k.prstate[x] = "RECV" => k'.prstate[x] = "RECV" \/ prhasmsg'[x]
  BY <1>1, <1>2, DeliverFacts
<1> HIDE DEF SchedInv
<1>4. ReceiverServed'
  BY <1>1, <1>3 DEF IInv, ReceiverServed
<1> QED BY <1>1, <1>3, <1>4, UserStep

LEMMA KillStep ==
  ASSUME IInv, NEW p \in UserPid, Kill(p) PROVE IInv'
<1>1. PICK r \in Pid : Deliver(r)
  BY TimerFacts DEF Kill
<1>2. cont[Self] = InUser /\ Goto("kill", p) /\ p \in Pid /\ p # NULLPROC
  BY DEF Kill, Calling, UserPid
<1>3. k.ndefers = 0
  BY <1>2, NotDeferred, TimerFacts
<1>4. /\ SchedInv(k') /\ k'.ndefers = 0
      /\ sleepq' \in Seq(Pid) /\ prhasmsg' \in [Pid -> BOOLEAN]
      /\ SleepersListed'
      /\ \A x \in Pid : prhasmsg[x] => prhasmsg'[x]
      /\ \A x \in Pid : k'.prstate[x] \in {"RECV", "RECTIM"} => ~prhasmsg'[x]
      /\ \A x \in Pid : k.prstate[x] = "FREE" => k'.prstate[x] = "FREE"
      /\ \A x \in Pid : k.prstate[x] = "RECV" => k'.prstate[x] = "RECV" \/ prhasmsg'[x]
  BY <1>1, <1>3, DeliverFacts
<1> HIDE DEF SchedInv
<1>5. PICK c \in Cont : c.op = "kill" /\ c.pid = p /\ cont' = [cont EXCEPT ![Self] = c]
  <2>c. PICK c : c = [op |-> "kill", pid |-> p]
    OBVIOUS
  <2> QED BY <2>c, <1>2, TimerFacts DEF Goto
<1>6. \A x \in Pid : cont'[x].op = "receive" => cont[x].op = "receive"
  BY <1>5 DEF IInv, Typed
<1>7. ReceiverServed'
  BY <1>4, <1>6 DEF IInv, ReceiverServed
<1> QED BY <1>2, <1>4, <1>5, <1>7, GotoStep

LEMMA KillEndsStep ==
  ASSUME IInv, KillEnds PROVE IInv'
<1>1. PICK p : p = cont[Self].pid
  OBVIOUS
<1>2. /\ Self \in Pid /\ SchedInv(k) /\ k.ndefers = 0
      /\ k.prstate[Self] = "CURR" /\ k.currpid = Self
      /\ sleepq \in Seq(Pid) /\ prhasmsg \in [Pid -> BOOLEAN] /\ cont \in [Pid -> Cont]
      /\ p \in Pid /\ p # NULLPROC /\ cont[Self].op = "kill"
      /\ k' = Dies(k, p) /\ Unsleep(p) /\ UNCHANGED prhasmsg
      /\ cont' = [cont EXCEPT ![Self] = InUser]
  <2>1. Self \in Pid /\ cont \in [Pid -> Cont] /\ cont[Self].op = "kill"
    BY CurrentFacts DEF IInv, Typed, KillEnds
  <2>2. p \in Pid /\ p # NULLPROC
    BY <1>1, <2>1 DEF Cont, IInv, LoopDeferred
  <2> QED BY <1>1, <2>1, <2>2, NotDeferred, CurrentFacts DEF IInv, Typed, KillEnds
<1>3. /\ SchedInv(k') /\ k'.ndefers = 0 /\ k'.prstate[p] = "FREE"
      /\ \A x \in Pid \ {p} : Kept(x)
  <2>1. /\ SchedInv(Dies(k, p)) /\ Dies(k, p).ndefers = 0 /\ Dies(k, p).prstate[p] = "FREE"
        /\ \A x \in Pid \ {p} :
             IF k.prstate[x] \in {"CURR", "READY"}
             THEN Dies(k, p).prstate[x] \in {"CURR", "READY"}
             ELSE Dies(k, p).prstate[x] = k.prstate[x]
    BY <1>2, DiesInv
  <2> QED BY <1>2, <2>1 DEF Kept
<1> HIDE DEF SchedInv
<1>4. sleepq' \in Seq(Pid) /\ SleepersListed'
  <2>1. ~Asleep(p)'
    BY <1>3 DEF Asleep
  <2>2. CASE Asleep(p)
    BY <1>2, <1>3, <2>1, <2>2, UnsleepLeaves, SleeperLeaves
  <2>3. CASE ~Asleep(p)
    <3>1. UNCHANGED sleepq
      BY <1>2, <2>3 DEF Unsleep, sleepvars
    <3> QED BY <1>2, <1>3, <2>1, <2>3, <3>1, SameSleepers
  <2> QED BY <2>2, <2>3
<1>5. \A x \in Pid : cont'[x].op = "receive" => cont[x].op = "receive"
  BY <1>2, TimerFacts
<1>6. ReceiverServed'
  BY <1>2, <1>3, <1>5, SameMessages DEF Kept
<1> QED BY <1>2, <1>3, <1>4, <1>6, TimerFacts, GotoStep

-----------------------------------------------------------------------------
(* The clock.  A switch that keeps everybody's state keeps the lists. *)
LEMMA TickStep ==
  ASSUME IInv, cont[Self].op # "wakeup", k' = Tick(k), UNCHANGED <<sleepq, prhasmsg>>,
         UNCHANGED cont \/ cont' = [cont EXCEPT ![Self] = InUser]
  PROVE  IInv'
<1>1. /\ Self \in Pid /\ SchedInv(k) /\ k.ndefers = 0
      /\ sleepq \in Seq(Pid) /\ prhasmsg \in [Pid -> BOOLEAN] /\ cont \in [Pid -> Cont]
  BY NotDeferred, CurrentFacts DEF IInv, Typed
<1>2. SchedInv(k') /\ SameButRunning(k, k')
  BY <1>1, TickInv
<1> HIDE DEF SchedInv
<1>3. k'.ndefers = 0 /\ \A x \in Pid : Kept(x)
  BY <1>1, <1>2 DEF SameButRunning, Kept
<1>4. SleepersListed'
  BY <1>3 DEF IInv, SleepersListed, Asleep, Kept
<1>5. \A x \in Pid : cont'[x].op = "receive" => cont[x].op = "receive"
  BY <1>1, TimerFacts
<1>6. ReceiverServed'
  BY <1>3, <1>5, SameMessages DEF Kept
<1>7. PICK c \in Cont : c \in {InUser, cont[Self]} /\ cont' = [cont EXCEPT ![Self] = c]
  <2>1. CASE UNCHANGED cont
    <3>1. cont' = [cont EXCEPT ![Self] = cont[Self]] /\ cont[Self] \in Cont
      BY <1>1, <2>1
    <3> QED BY <3>1
  <2> QED BY <2>1, TimerFacts
<1>8. c.op # "wakeup" /\ (c.op = "kill" => c.pid # NULLPROC)
  BY <1>1, <1>7, TimerFacts DEF IInv, LoopDeferred
<1> QED BY <1>1, <1>2, <1>3, <1>4, <1>6, <1>7, <1>8, GotoStep

LEMMA ClockStep ==
  ASSUME IInv, ClockTick PROVE IInv'
<1>1. /\ cont[Self] = InUser /\ cont[Self].op # "wakeup" /\ k.ndefers = 0
      /\ UNCHANGED <<sleepq, prhasmsg>>
      /\ Self \in Pid /\ SchedInv(k) /\ k.currpid = Self /\ cont \in [Pid -> Cont]
  BY NotDeferred, CurrentFacts, TimerFacts DEF ClockTick, sleepvars, IInv, Typed
<1>2. CASE k' = Tick(k) /\ UNCHANGED cont
  BY <1>1, <1>2, TickStep
<1>3. CASE k' = DeferStart(k) /\ Goto("wakeup", Self)
  <2>1. /\ SchedInv(k') /\ k'.prstate = k.prstate /\ k'.ndefers = 1
        /\ k'.currpid = k.currpid
    BY <1>1, <1>3, DeferInv
  <2> HIDE DEF SchedInv
  <2>c. PICK c : c = [op |-> "wakeup", pid |-> Self]
    OBVIOUS
  <2>2. c \in Cont /\ c.op = "wakeup" /\ cont' = [cont EXCEPT ![Self] = c]
    BY <1>1, <1>3, <2>c, TimerFacts DEF Goto
  <2>3. Self' = Self
    BY <2>1 DEF Self
  <2>4. Typed' /\ LoopDeferred'
    BY <1>1, <2>1, <2>2, <2>3 DEF IInv, Typed, LoopDeferred
  <2>5. SleepersListed'
    BY <1>1, <2>1 DEF IInv, SleepersListed, Asleep
  <2>6. \A x \in Pid : cont'[x].op = "receive" => cont[x].op = "receive"
    BY <1>1, <2>2
  <2>7. ReceiverServed'
    BY <1>1, <2>1, <2>6, SameMessages
  <2> QED BY <2>1, <2>4, <2>5, <2>7 DEF IInv
<1> QED BY <1>2, <1>3 DEF ClockTick

LEMMA WakeupStep ==
  ASSUME IInv, WakeupGoesOn PROVE IInv'
<1>1. /\ cont[Self].op = "wakeup" /\ k.ndefers = 1 /\ UNCHANGED prhasmsg
      /\ Self \in Pid /\ SchedInv(k) /\ k.currpid = Self /\ cont \in [Pid -> Cont]
      /\ sleepq \in Seq(Pid) /\ Once(sleepq) /\ prhasmsg \in [Pid -> BOOLEAN]
  BY CurrentFacts DEF WakeupGoesOn, IInv, Typed, LoopDeferred, SleepersListed
<1>2. CASE sleepq # <<>> /\ delta[Head(sleepq)] <= 0
  <2>p. PICK p : p = Head(sleepq)
    OBVIOUS
  <2>1. k' = Ready(k, p) /\ sleepq' = Tail(sleepq) /\ UNCHANGED cont
    BY <1>2, <2>p DEF WakeupGoesOn
  <2>2. /\ p \in Pid /\ InQ(sleepq, p) /\ Tail(sleepq) \in Seq(Pid) /\ Once(Tail(sleepq))
        /\ \A y : InQ(Tail(sleepq), y) <=> InQ(sleepq, y) /\ y # p
    BY <1>1, <1>2, <2>p, TailQ
  <2>3. k.prstate[p] \in {"SLEEP", "RECTIM"}
    BY <2>2 DEF IInv, SleepersListed, Asleep
  <2>4. /\ SchedInv(k') /\ k'.ndefers = 1 /\ k'.prstate[p] \in {"CURR", "READY"}
        /\ \A x \in Pid \ {p} : Kept(x)
    BY <1>1, <2>1, <2>2, <2>3, ReadyInv DEF Kept
  <2>5. k'.currpid = k.currpid
    <3>1. k.ndefers > 0
      BY <1>1
    <3> QED BY <2>1, <3>1, CurrentFacts DEF Ready, Resched, MakeReady, SchedInv, SchedPre,
                                         SchedType
  <2> HIDE DEF SchedInv
  <2>6. ~Asleep(p)'
    BY <2>4 DEF Asleep
  <2>7. SleepersListed'
    BY <2>1, <2>2, <2>4, <2>6, SleeperLeaves
  <2>8. ReceiverServed'
    BY <1>1, <2>1, <2>3, <2>4, SameMessages DEF Kept
  <2>9. Typed' /\ LoopDeferred'
    BY <1>1, <2>1, <2>2, <2>4, <2>5 DEF IInv, Typed, LoopDeferred, Self
  <2> QED BY <2>4, <2>7, <2>8, <2>9 DEF IInv
<1>3. CASE ~(sleepq # <<>> /\ delta[Head(sleepq)] <= 0)
  <2>1. k' = DeferStop(k) /\ Goto("tick", Self) /\ UNCHANGED sleepq
    BY <1>3 DEF WakeupGoesOn, sleepvars
  <2>2. SchedInv(k') /\ k'.ndefers = 0 /\ \A x \in Pid : Kept(x)
    BY <1>1, <2>1, DeferInv DEF Kept
  <2> HIDE DEF SchedInv
  <2>c. PICK c : c = [op |-> "tick", pid |-> Self]
    OBVIOUS
  <2>3. c \in Cont /\ c.op = "tick" /\ cont' = [cont EXCEPT ![Self] = c]
    BY <1>1, <2>1, <2>c, TimerFacts DEF Goto
  <2>4. SleepersListed'
    BY <2>1, <2>2 DEF IInv, SleepersListed, Asleep, Kept
  <2>5. \A x \in Pid : cont'[x].op = "receive" => cont[x].op = "receive"
    BY <1>1, <2>3
  <2>6. ReceiverServed'
    BY <1>1, <2>2, <2>5, SameMessages DEF Kept
  <2> QED BY <1>1, <2>1, <2>2, <2>3, <2>4, <2>6, GotoStep
<1> QED BY <1>2, <1>3

LEMMA NextIInv == IInv /\ [Next]_vars => IInv'
<1> SUFFICES ASSUME IInv, [Next]_vars PROVE IInv'
  OBVIOUS
<1>1. ASSUME NEW p \in UserPid, Resume(p) \/ Send(p) \/ Kill(p) PROVE IInv'
  BY <1>1, ResumeStep, SendStep, KillStep
<1>2. ASSUME NEW d \in Delays, Sleep(d) PROVE IInv'
  BY <1>2, SleepStep
<1>3. ASSUME NEW w \in Waits, Recvtime(w) PROVE IInv'
  BY <1>3, RecvtimeStep
<1>4. CASE Receive \/ ReceiveReturns \/ Recvclr
  BY <1>4, ReceiveStep, RecvclrStep
<1>5. CASE KillEnds
  BY <1>5, KillEndsStep
<1>6. CASE ClockTick \/ WakeupGoesOn
  BY <1>6, ClockStep, WakeupStep
<1>7. CASE ClockReturns
  BY <1>7, TickStep DEF ClockReturns, sleepvars
<1>8. CASE UNCHANGED vars
  BY <1>8 DEF vars, IInv, Typed, LoopDeferred, SleepersListed, ReceiverServed, Asleep, Self
<1> QED BY <1>1, <1>2, <1>3, <1>4, <1>5, <1>6, <1>7, <1>8 DEF Next

LEMMA SpecIInv == Spec => []IInv
  BY InitIInv, NextIInv, PTL DEF Spec

(* Whatever the delays and the workload: a process is on the delta list,   *)
(* once, exactly while it sleeps or waits in recvtime() (insertd.c,        *)
(* unsleep.c, wakeup.c, kill.c).                                           *)
THEOREM SleepersListedAlways == Spec => []SleepersListed
<1>1. IInv => SleepersListed
  BY DEF IInv
<1> QED BY <1>1, SpecIInv, PTL

(* Nobody waits for a message that is there, and receive() never returns   *)
(* without one (send.c, receive.c, recvtime.c).                            *)
THEOREM NoMessageSleptOnAlways == Spec => []NoMessageSleptOn
<1>1. IInv => NoMessageSleptOn
  BY CurrentFacts DEF IInv, ReceiverServed, NoMessageSleptOn
<1> QED BY <1>1, SpecIInv, PTL

(* The scheduler's own state stays right under the clock, whose handler    *)
(* may switch processes half way (clkhandler.c, wakeup.c, resched.c).      *)
THEOREM SchedulerSound == Spec => []SchedInv(k)
<1>1. IInv => SchedInv(k)
  BY DEF IInv
<1> QED BY <1>1, SpecIInv, PTL

-----------------------------------------------------------------------------
(* The keys of the delta list.  q is the list, dl the keys and du the time *)
(* each process still has to wait.  From the second entry on a key is what *)
(* the time grows by; the first key is the time of the first, but while    *)
(* wakeup() is about to remove an entry whose time was already up.         *)
Consistent(q, dl, du) ==
  /\ dl \in [Pid -> Int] /\ du \in [Pid -> 0 .. MSB - 1]
  /\ \A i \in 2 .. Len(q) : /\ dl[q[i]] \in 0 .. MSB - 1
                            /\ du[q[i]] = du[q[i - 1]] + dl[q[i]]
  /\ \A i, j \in 1 .. Len(q) : i < j => du[q[i]] <= du[q[j]]

HeadExact(q, dl, du) == q # <<>> => dl[q[1]] = du[q[1]]
HeadLate(q, dl, du)  == q # <<>> /\ dl[q[1]] = -1 /\ du[q[1]] = 0

SleepersDue == \A p \in Pid : k.prstate[p] = "SLEEP" => due[p] > 0

DelayInv ==
  /\ Consistent(sleepq, delta, due)
  /\ cont[Self].op = "wakeup" => \/ HeadExact(sleepq, delta, due)
                                 \/ HeadLate(sleepq, delta, due)
  /\ cont[Self].op # "wakeup" => HeadExact(sleepq, delta, due) /\ SleepersDue

LEMMA ModSmall ==
  ASSUME NEW m \in Nat \ {0}, NEW x \in 0 .. m - 1
  PROVE  x % m = x
  OBVIOUS

(* No overflow: what fits is kept. *)
LEMMA Int32Fits ==
  ASSUME NEW n \in -MSB .. MSB - 1 PROVE Int32(n) = n
<1>0. MSB \in Nat \ {0}
  BY TimerAssumption
<1>1. PICK m \in Nat \ {0} : m = 2 * MSB
  BY <1>0
<1>2. PICK x \in 0 .. m - 1 : x = n + MSB
  BY <1>0, <1>1
<1>3. x % m = x
  BY ModSmall
<1> QED BY <1>0, <1>1, <1>2, <1>3 DEF Int32

(* What insertd() has left of a key in front of each entry: the key less   *)
(* the time of the entry before.                                           *)
LEMMA LeftIs ==
  ASSUME sleepq \in Seq(Pid), Consistent(sleepq, delta, due),
         HeadExact(sleepq, delta, due), NEW key \in 0 .. MSB - 1
  PROVE  \A i \in 0 .. Len(sleepq) :
            Left(key)[i] = IF i = 0 THEN key ELSE key - due[sleepq[i]]
<1>n. PICK n \in Nat : n = Len(sleepq)
  OBVIOUS
<1>w. PICK w : w = [i \in 0 .. n |-> IF i = 0 THEN key ELSE key - due[sleepq[i]]]
  OBVIOUS
<1>0. MSB \in Nat \ {0} /\ \A i \in 1 .. n : sleepq[i] \in Pid
  BY <1>n, TimerAssumption
<1>1. \A i \in 0 .. n : w[i] \in -MSB .. MSB - 1
  <2>1. \A i \in 1 .. n : due[sleepq[i]] \in 0 .. MSB - 1
    BY <1>0 DEF Consistent
  <2> QED BY <1>0, <1>w, <2>1
<1>2. ASSUME NEW i \in 1 .. n
      PROVE  Int32(w[i - 1] - delta[sleepq[i]]) = w[i]
  <2>1. w[i - 1] - delta[sleepq[i]] = w[i]
    <3>1. CASE i = 1
      <4>1. 1 \in 0 .. n /\ 0 \in 0 .. n /\ n >= 1
        BY <1>2, <3>1
      <4>2. w[1] = key - due[sleepq[1]] /\ w[0] = key
        BY <1>w, <4>1
      <4>3. sleepq # <<>>
        BY <1>n, <4>1
      <4>4. delta[sleepq[1]] = due[sleepq[1]]
        BY <4>3 DEF HeadExact
      <4> QED BY <3>1, <4>2, <4>4
    <3>2. CASE i # 1
      <4>1. i - 1 \in 1 .. n /\ i \in 2 .. n /\ i \in 0 .. n /\ i - 1 \in 0 .. n
            /\ i - 1 # 0 /\ i # 0
        BY <1>2, <3>2
      <4>2. w[i] = key - due[sleepq[i]] /\ w[i - 1] = key - due[sleepq[i - 1]]
        BY <1>w, <4>1
      <4>3. /\ due[sleepq[i]] = due[sleepq[i - 1]] + delta[sleepq[i]]
            /\ delta[sleepq[i]] \in Int
        BY <1>n, <4>1 DEF Consistent
      <4>4. due[sleepq[i]] \in Int /\ due[sleepq[i - 1]] \in Int
        BY <1>0, <4>1 DEF Consistent
      <4> QED BY <4>2, <4>3, <4>4
    <3> QED BY <3>1, <3>2
  <2> QED BY <1>1, <2>1, Int32Fits
<1>3. w = [i \in 0 .. n |-> IF i = 0 THEN key ELSE Int32(w[i - 1] - delta[sleepq[i]])]
  <2>1. ASSUME NEW i \in 0 .. n
        PROVE  w[i] = IF i = 0 THEN key ELSE Int32(w[i - 1] - delta[sleepq[i]])
    <3>1. CASE i = 0
      BY <1>w, <3>1
    <3>2. CASE i # 0
      <4>1. i \in 1 .. n
        BY <3>2
      <4> QED BY <1>2, <3>2, <4>1
    <3> QED BY <3>1, <3>2
  <2> QED BY <1>w, <2>1
<1>4. PICK f : f = Left(key)
  OBVIOUS
<1>5. f = [i \in 0 .. n |-> IF i = 0 THEN key ELSE Int32(f[i - 1] - delta[sleepq[i]])]
  BY <1>3, <1>4, <1>n DEF Left
<1>6. {i \in 0 .. n : f[i] = w[i]} = 0 .. n
  <2> DEFINE P == {i \in 0 .. n : f[i] = w[i]}
  <2>1. 0 \in P
    BY <1>5, <1>w
  <2>2. ASSUME NEW i \in 0 .. n - 1, i \in P PROVE i + 1 \in P
    <3>1. i + 1 \in 1 .. n /\ i + 1 \in 0 .. n /\ (i + 1) - 1 = i /\ i + 1 # 0
      OBVIOUS
    <3>2. f[i + 1] = Int32(f[i] - delta[sleepq[i + 1]])
      BY <1>5, <3>1
    <3>3. w[i + 1] = Int32(w[i] - delta[sleepq[i + 1]])
      BY <1>2, <3>1
    <3> QED BY <2>2, <3>1, <3>2, <3>3
  <2> HIDE DEF P
  <2>3. 0 .. n \subseteq P
    BY <2>1, <2>2, CountUp
  <2> QED BY <2>3 DEF P
<1> QED BY <1>4, <1>6, <1>n, <1>w

(* The wait TimeLeft adds up is the time that is due. *)
LEMMA TimeLeftIs ==
  ASSUME sleepq \in Seq(Pid), Consistent(sleepq, delta, due),
         HeadExact(sleepq, delta, due), NEW n \in 1 .. Len(sleepq)
  PROVE  TimeLeft(n) = due[sleepq[n]]
<1>w. PICK w : w = [j \in 0 .. n |-> IF j = 0 THEN 0 ELSE due[sleepq[j]]]
  OBVIOUS
<1>0. \A j \in 1 .. n : sleepq[j] \in Pid /\ j \in 1 .. Len(sleepq)
  OBVIOUS
<1>2. ASSUME NEW j \in 1 .. n PROVE w[j - 1] + delta[sleepq[j]] = w[j]
  <2>1. CASE j = 1
    <3>1. w[1] = due[sleepq[1]] /\ w[0] = 0 /\ sleepq # <<>>
      BY <1>w, <1>2, <2>1
    <3>2. delta[sleepq[1]] = due[sleepq[1]] /\ due[sleepq[1]] \in Int
      BY <1>0, <1>2, <2>1, <3>1 DEF HeadExact, Consistent
    <3> QED BY <2>1, <3>1, <3>2
  <2>2. CASE j # 1
    <3>1. j - 1 \in 1 .. n /\ j \in 2 .. Len(sleepq) /\ j - 1 # 0 /\ j # 0
          /\ j \in 0 .. n /\ j - 1 \in 0 .. n
      BY <1>2, <2>2
    <3>2. w[j] = due[sleepq[j]] /\ w[j - 1] = due[sleepq[j - 1]]
      BY <1>w, <3>1
    <3>3. due[sleepq[j]] = due[sleepq[j - 1]] + delta[sleepq[j]]
      BY <3>1 DEF Consistent
    <3> QED BY <3>2, <3>3
  <2> QED BY <2>1, <2>2
<1>3. w = [j \in 0 .. n |-> IF j = 0 THEN 0 ELSE w[j - 1] + delta[sleepq[j]]]
  <2>1. ASSUME NEW j \in 0 .. n
        PROVE  w[j] = IF j = 0 THEN 0 ELSE w[j - 1] + delta[sleepq[j]]
    <3>1. CASE j = 0
      BY <1>w, <3>1
    <3>2. CASE j # 0
      <4>1. j \in 1 .. n
        BY <3>2
      <4> QED BY <1>2, <3>2, <4>1
    <3> QED BY <3>1, <3>2
  <2> QED BY <1>w, <2>1
<1>4. PICK f : f = CHOOSE s : s = [j \in 0 .. n |-> IF j = 0 THEN 0
                                                  ELSE s[j - 1] + delta[sleepq[j]]]
  OBVIOUS
<1>5. f = [j \in 0 .. n |-> IF j = 0 THEN 0 ELSE f[j - 1] + delta[sleepq[j]]]
  BY <1>3, <1>4
<1>6. {j \in 0 .. n : f[j] = w[j]} = 0 .. n
  <2> DEFINE P == {j \in 0 .. n : f[j] = w[j]}
  <2>1. 0 \in P
    BY <1>5, <1>w
  <2>2. ASSUME NEW j \in 0 .. n - 1, j \in P PROVE j + 1 \in P
    <3>1. j + 1 \in 1 .. n /\ j + 1 \in 0 .. n /\ (j + 1) - 1 = j /\ j + 1 # 0
      OBVIOUS
    <3>2. f[j + 1] = f[j] + delta[sleepq[j + 1]]
      BY <1>5, <3>1
    <3>3. w[j + 1] = w[j] + delta[sleepq[j + 1]]
      BY <1>2, <3>1
    <3> QED BY <2>2, <3>1, <3>2, <3>3
  <2> HIDE DEF P
  <2>3. n \in Nat
    OBVIOUS
  <2>4. 0 .. n \subseteq P
    BY <2>1, <2>2, <2>3, CountUp
  <2> QED BY <2>4 DEF P
<1>7. f[n] = w[n] /\ w[n] = due[sleepq[n]]
  <2>1. n \in 0 .. n /\ n # 0
    OBVIOUS
  <2> QED BY <1>6, <1>w, <2>1
<1>8. TimeLeft(n) = f[n]
  BY <1>4 DEF TimeLeft
<1> QED BY <1>7, <1>8

-----------------------------------------------------------------------------
(* What each operation on the list does to the keys and times. *)

LEMMA Lessened ==
  ASSUME NEW m \in Nat \ {0}, NEW x \in 0 .. m - 1, NEW l \in Nat, l < x
  PROVE  x - l \in -m .. m - 1 /\ x - l \in 0 .. m - 1
  OBVIOUS

LEMMA Before ==
  ASSUME NEW x \in Int, NEW y \in Int, NEW z \in Int, NEW l \in Int, NEW e \in Int,
         l = x - y, e = z - y, l < e
  PROVE  x <= z /\ z = x + (e - l)
  OBVIOUS

LEMMA Parts ==
  ASSUME NEW m \in Nat, NEW x \in 0 .. m - 1, NEW y \in 0 .. m - 1, NEW l \in Nat,
         l = x - y
  PROVE  x = y + l /\ l \in 0 .. m - 1
  OBVIOUS

(* The keys when p, with l milliseconds, goes in front of the i-th entry. *)
KeysWith(q, dl, i, p, l) ==
  [r \in Pid |-> CASE r = p -> l
                  [] r # p /\ i <= Len(q) /\ r = q[i] -> Int32(dl[r] - l)
                  [] OTHER -> dl[r]]

(* p, for key milliseconds, goes in front of the i-th entry. *)
LEMMA InsertConsistent ==
  ASSUME NEW q \in Seq(Pid), NEW dl, NEW du, NEW p \in Pid, NEW i \in 1 .. Len(q) + 1,
         Consistent(q, dl, du), HeadExact(q, dl, du), Once(q), ~InQ(q, p),
         NEW key \in 0 .. MSB - 1, NEW l \in Nat,
         l = key - (IF i = 1 THEN 0 ELSE du[q[i - 1]]),
         i <= Len(q) => dl[q[i]] > l
  PROVE  /\ Consistent(InsertAt(q, i, p), KeysWith(q, dl, i, p, l), [du EXCEPT ![p] = key])
         /\ HeadExact(InsertAt(q, i, p), KeysWith(q, dl, i, p, l), [du EXCEPT ![p] = key])
<1> SUFFICES ASSUME NEW q2, q2 = InsertAt(q, i, p), NEW du2, du2 = [du EXCEPT ![p] = key],
                    NEW dl2,
                    dl2 = [r \in Pid |->
                            CASE r = p -> l
                              [] r # p /\ i <= Len(q) /\ r = q[i] -> Int32(dl[r] - l)
                              [] OTHER -> dl[r]]
             PROVE  Consistent(q2, dl2, du2) /\ HeadExact(q2, dl2, du2)
  BY DEF KeysWith
<1>n. PICK n \in Nat : n = Len(q)
  OBVIOUS
<1>m. PICK m \in Nat \ {0} : m = MSB
  BY TimerAssumption
<1>1. /\ \A j \in 1 .. n : q[j] \in Pid /\ q[j] # p /\ du[q[j]] \in 0 .. m - 1
      /\ dl \in [Pid -> Int] /\ du \in [Pid -> 0 .. m - 1]
      /\ \A j \in 2 .. n : dl[q[j]] \in 0 .. m - 1 /\ du[q[j]] = du[q[j - 1]] + dl[q[j]]
      /\ \A a, b \in 1 .. n : a < b => du[q[a]] <= du[q[b]]
      /\ n >= 1 => dl[q[1]] = du[q[1]]
      /\ \A a, b \in 1 .. n : q[a] = q[b] => a = b
  <2>1. \A j \in 1 .. n : q[j] \in Pid /\ q[j] # p
    BY <1>n DEF InQ
  <2>2. n >= 1 => q # <<>>
    BY <1>n
  <2> QED BY <1>n, <1>m, <2>1, <2>2 DEF Consistent, HeadExact, Once
<1>2. /\ Len(q2) = n + 1 /\ q2 \in Seq(Pid)
      /\ \A j \in 1 .. n + 1 : q2[j] = IF j < i THEN q[j] ELSE IF j = i THEN p ELSE q[j - 1]
  <2>1. /\ InsertAt(q, i, p) \in Seq(Pid) /\ Len(InsertAt(q, i, p)) = Len(q) + 1
        /\ \A j \in 1 .. Len(q) + 1 :
              InsertAt(q, i, p)[j] = IF j < i THEN q[j]
                                     ELSE IF j = i THEN p ELSE q[j - 1]
    <3>1. q \in Seq(Pid) /\ p \in Pid /\ i \in 1 .. Len(q) + 1
      OBVIOUS
    <3> QED BY ONLY <3>1, InsertAtElements
  <2> QED BY <1>n, <2>1
<1>3. /\ du2 \in [Pid -> 0 .. m - 1] /\ du2[p] = key
      /\ \A j \in 1 .. n : du2[q[j]] = du[q[j]]
  BY <1>1, <1>m
<1>4. i <= n => /\ dl[q[i]] \in 0 .. m - 1 /\ l < dl[q[i]]
                /\ dl[q[i]] = du[q[i]] - (IF i = 1 THEN 0 ELSE du[q[i - 1]])
                /\ Int32(dl[q[i]] - l) = dl[q[i]] - l
  <2> SUFFICES ASSUME i <= n
               PROVE  /\ dl[q[i]] \in 0 .. m - 1 /\ l < dl[q[i]]
                      /\ dl[q[i]] = du[q[i]] - (IF i = 1 THEN 0 ELSE du[q[i - 1]])
                      /\ Int32(dl[q[i]] - l) = dl[q[i]] - l
    OBVIOUS
  <2>1. i \in 1 .. n /\ du[q[i]] \in 0 .. m - 1
    BY <1>1, <1>n
  <2>2. CASE i = 1
    <3>1. dl[q[i]] = du[q[i]] /\ l < dl[q[i]]
      BY <1>1, <1>n, <2>1, <2>2
    <3>2. PICK e \in 0 .. m - 1 : e = dl[q[i]]
      BY <2>1, <3>1
    <3>3. e - l \in -m .. m - 1
      BY <3>1, <3>2, Lessened
    <3>4. Int32(e - l) = e - l
      BY <1>m, <3>3, Int32Fits
    <3>5. du[q[i]] = e /\ e - 0 = e
      BY <3>1, <3>2
    <3> QED BY <2>2, <3>1, <3>2, <3>4, <3>5
  <2>3. CASE i # 1
    <3>1. i \in 2 .. n /\ i - 1 \in 1 .. n
      BY <2>1, <2>3
    <3>2. /\ dl[q[i]] \in 0 .. m - 1 /\ du[q[i]] = du[q[i - 1]] + dl[q[i]]
          /\ du[q[i - 1]] \in 0 .. m - 1 /\ l < dl[q[i]]
      BY <1>1, <1>n, <3>1
    <3>3. PICK e \in 0 .. m - 1 : e = dl[q[i]]
      BY <3>2
    <3>4. e - l \in -m .. m - 1
      BY <3>2, <3>3, Lessened
    <3>5. Int32(e - l) = e - l
      BY <1>m, <3>4, Int32Fits
    <3>6. PICK y \in 0 .. m - 1 : y = du[q[i - 1]]
      BY <3>2
    <3>7. du[q[i]] = y + e
      BY <3>2, <3>3, <3>6
    <3>8. e = (y + e) - y
      BY <3>3, <3>6
    <3>9. e = du[q[i]] - y
      BY <3>7, <3>8
    <3> QED BY <2>3, <3>2, <3>3, <3>5, <3>6, <3>9
  <2> QED BY <2>2, <2>3
<1>5. /\ dl2 \in [Pid -> Int] /\ dl2[p] = l
      /\ i <= n => dl2[q[i]] = dl[q[i]] - l
      /\ \A j \in 1 .. n : j # i => dl2[q[j]] = dl[q[j]]
  <2>1. ASSUME NEW r \in Pid PROVE dl2[r] \in Int
    <3>1. dl[r] \in Int
      BY <1>1
    <3>2. CASE r # p /\ i <= Len(q) /\ r = q[i]
      <4>1. i \in 1 .. n
        BY <1>n, <3>2
      <4>2. Int32(dl[r] - l) = dl[r] - l
        BY <1>4, <3>2, <4>1
      <4>3. dl2[r] = Int32(dl[r] - l)
        BY <3>2
      <4>4. dl2[r] = dl[r] - l
        BY <4>2, <4>3
      <4> QED BY <3>1, <4>4
    <3>3. CASE ~(r # p /\ i <= Len(q) /\ r = q[i])
      <4>1. dl2[r] = IF r = p THEN l ELSE dl[r]
        BY <3>3
      <4> QED BY <3>1, <4>1
    <3> QED BY <3>2, <3>3
  <2>2. dl2 \in [Pid -> Int] /\ dl2[p] = l
    BY <2>1
  <2>3. ASSUME i <= n PROVE dl2[q[i]] = dl[q[i]] - l
    <3>1. i \in 1 .. n
      BY <1>n, <2>3
    <3> QED BY <1>1, <1>4, <1>n, <2>3, <3>1
  <2>4. ASSUME NEW j \in 1 .. n, j # i PROVE dl2[q[j]] = dl[q[j]]
    <3>1. q[j] \in Pid /\ q[j] # p /\ ~(i <= n /\ q[j] = q[i])
      BY <1>1, <1>n, <2>4
    <3> QED BY <1>n, <3>1
  <2> QED BY <2>2, <2>3, <2>4
<1>6. i > 1 => i - 1 \in 1 .. n /\ l = key - du[q[i - 1]]
  BY <1>n
<1>7. i = 1 => l = key
  OBVIOUS
<1>d. PICK d : d = [j \in 1 .. n |-> du[q[j]]]
  OBVIOUS
<1>8. \A j \in 1 .. n : d[j] \in 0 .. m - 1
  BY <1>1, <1>d
<1>9. ASSUME NEW a \in 1 .. n, a < i PROVE d[a] <= key
  <2>1. i > 1 /\ i - 1 \in 1 .. n /\ l = key - d[i - 1] /\ a <= i - 1
    BY <1>6, <1>9, <1>d, <1>n
  <2>2. d[i - 1] <= key
    BY <1>8, <2>1
  <2>3. d[a] <= d[i - 1]
    <3>1. CASE a = i - 1
      BY <1>8, <3>1
    <3>2. CASE a # i - 1
      <4>1. a < i - 1
        BY <1>n, <2>1, <3>2
      <4> QED BY <1>1, <1>d, <2>1, <4>1
    <3> QED BY <3>1, <3>2
  <2> QED BY <1>8, <2>1, <2>2, <2>3
<1>10. ASSUME NEW a \in 1 .. n, a >= i PROVE key <= d[a]
  <2>1. i \in 1 .. n
    BY <1>10, <1>n
  <2>2. key <= d[i]
    <3>1. CASE i = 1
      BY <1>4, <1>7, <1>8, <1>d, <2>1, <3>1
    <3>2. CASE i # 1
      <4>1. i > 1
        BY <2>1, <3>2
      <4>2. l = key - d[i - 1] /\ dl[q[i]] = d[i] - d[i - 1] /\ i - 1 \in 1 .. n
            /\ l < dl[q[i]]
        BY <1>4, <1>6, <1>d, <2>1, <4>1
      <4>3. PICK y \in Int, z \in Int, e \in Int :
              y = d[i - 1] /\ z = d[i] /\ e = dl[q[i]]
        <5>1. d[i - 1] \in Int /\ d[i] \in Int /\ dl[q[i]] \in Int
          <6>1. d[i - 1] \in 0 .. m - 1 /\ d[i] \in 0 .. m - 1
            BY <1>8, <2>1, <4>2
          <6>2. i <= n
            BY <1>n, <2>1
          <6>3. m \in Nat
            OBVIOUS
          <6>4. dl[q[i]] \in 0 .. m - 1
            BY <1>4, <6>2
          <6> QED BY ONLY <6>1, <6>3, <6>4
        <5> QED BY ONLY <5>1
      <4>4. l = key - y /\ e = z - y /\ l < e /\ key \in Int /\ l \in Int
        <5>1. l \in Int /\ key \in Int
          OBVIOUS
        <5> QED BY ONLY <4>2, <4>3, <5>1
      <4>5. key <= z
        BY <4>4, Before
      <4> QED BY <4>3, <4>5
    <3> QED BY <3>1, <3>2
  <2>3. d[i] <= d[a]
    <3>1. CASE a = i
      BY <1>8, <3>1
    <3>2. CASE a # i
      <4>1. i < a
        BY <1>10, <2>1, <3>2
      <4> QED BY <1>1, <1>d, <2>1, <4>1
    <3> QED BY <3>1, <3>2
  <2> QED BY <1>8, <2>1, <2>2, <2>3
<1>11. \A j \in 1 .. n + 1 : du2[q2[j]] = IF j < i THEN d[j] ELSE IF j = i THEN key ELSE d[j - 1]
  <2> SUFFICES ASSUME NEW j \in 1 .. n + 1
               PROVE  du2[q2[j]] = IF j < i THEN d[j] ELSE IF j = i THEN key ELSE d[j - 1]
    OBVIOUS
  <2>1. CASE j < i
    <3>1. j \in 1 .. n
      BY <1>n, <2>1
    <3> QED BY <1>2, <1>3, <1>d, <2>1, <3>1
  <2>2. CASE j = i
    BY <1>2, <1>3, <2>2
  <2>3. CASE j > i
    <3>1. j - 1 \in 1 .. n /\ ~(j < i) /\ j # i
      BY <1>n, <2>3
    <3> QED BY <1>2, <1>3, <1>d, <2>3, <3>1
  <2> QED BY <2>1, <2>2, <2>3, <1>n
<1>12. \A a, b \in 1 .. n + 1 : a < b => du2[q2[a]] <= du2[q2[b]]
  <2> SUFFICES ASSUME NEW a \in 1 .. n + 1, NEW b \in 1 .. n + 1, a < b
               PROVE  du2[q2[a]] <= du2[q2[b]]
    OBVIOUS
  <2>0. \A x, y \in 1 .. n : x < y => d[x] <= d[y]
    BY <1>1, <1>d
  <2>1. CASE b < i
    <3>1. a \in 1 .. n /\ b \in 1 .. n /\ a < i
      BY <1>n, <2>1
    <3> QED BY <1>11, <2>0, <2>1, <3>1
  <2>2. CASE b = i
    <3>1. a \in 1 .. n /\ a < i /\ ~(b < i)
      BY <1>n, <2>2
    <3> QED BY <1>9, <1>11, <2>2, <3>1
  <2>3. CASE a = i
    <3>1. b - 1 \in 1 .. n /\ b - 1 >= i /\ ~(b < i) /\ b # i /\ ~(a < i)
      BY <1>n, <2>3
    <3> QED BY <1>10, <1>11, <2>3, <3>1
  <2>4. CASE a < i /\ b > i
    <3>1. a \in 1 .. n /\ b - 1 \in 1 .. n /\ a < b - 1 /\ ~(b < i) /\ b # i
      BY <1>n, <2>4
    <3>2. a \in 1 .. n + 1 /\ b \in 1 .. n + 1 /\ a < i
      BY <2>4
    <3>3. du2[q2[a]] = d[a] /\ du2[q2[b]] = d[b - 1]
      BY ONLY <1>11, <3>1, <3>2
    <3>4. d[a] <= d[b - 1]
      BY ONLY <2>0, <3>1
    <3> QED BY ONLY <3>3, <3>4
  <2>5. CASE a > i
    <3>1. /\ a - 1 \in 1 .. n /\ b - 1 \in 1 .. n /\ a - 1 < b - 1
          /\ ~(b < i) /\ b # i /\ ~(a < i) /\ a # i
      <4>1. n \in Nat /\ i \in 1 .. n + 1 /\ a \in 1 .. n + 1 /\ b \in 1 .. n + 1 /\ a < b
        BY <1>n
      <4> QED BY ONLY <2>5, <4>1
    <3> QED BY <1>11, <2>0, <3>1
  <2> QED BY <1>n, <2>1, <2>2, <2>3, <2>4, <2>5
<1>13. \A j \in 2 .. n + 1 : /\ dl2[q2[j]] \in 0 .. m - 1
                             /\ du2[q2[j]] = du2[q2[j - 1]] + dl2[q2[j]]
  <2> SUFFICES ASSUME NEW j \in 2 .. n + 1
               PROVE  /\ dl2[q2[j]] \in 0 .. m - 1
                      /\ du2[q2[j]] = du2[q2[j - 1]] + dl2[q2[j]]
    OBVIOUS
  <2>0. \A x \in 2 .. n : dl[q[x]] \in 0 .. m - 1 /\ d[x] = d[x - 1] + dl[q[x]]
    <3>1. \A x \in 2 .. n : x \in 1 .. n /\ x - 1 \in 1 .. n
      OBVIOUS
    <3> QED BY <1>1, <1>d, <3>1
  <2>1. CASE j < i
    <3>1. j \in 2 .. n /\ j \in 1 .. n /\ j - 1 \in 1 .. n + 1 /\ j - 1 < i /\ j # i
          /\ j \in 1 .. n + 1
      BY <1>n, <2>1
    <3>2. du2[q2[j]] = d[j] /\ du2[q2[j - 1]] = d[j - 1]
      BY <1>11, <2>1, <3>1
    <3>3. q2[j] = q[j] /\ dl2[q[j]] = dl[q[j]]
      BY <1>2, <1>5, <2>1, <3>1
    <3> QED BY <2>0, <3>1, <3>2, <3>3
  <2>2. CASE j = i
    <3>1. i > 1 /\ j \in 1 .. n + 1 /\ j - 1 \in 1 .. n + 1 /\ j - 1 < i /\ ~(j < i)
          /\ i - 1 \in 1 .. n
      BY <1>n, <2>2
    <3>2. du2[q2[j]] = key /\ du2[q2[j - 1]] = d[i - 1]
      BY <1>11, <2>2, <3>1
    <3>3. dl2[q2[j]] = l /\ l = key - d[i - 1]
      BY <1>2, <1>5, <1>6, <1>d, <2>2, <3>1
    <3>4. d[i - 1] \in 0 .. m - 1
      BY <1>8, <3>1
    <3>5. PICK y \in 0 .. m - 1, x \in 0 .. m - 1 : y = d[i - 1] /\ x = key
      BY <1>m, <3>4
    <3>6. x = y + l /\ l \in 0 .. m - 1
      <4>1. l = x - y
        BY <3>3, <3>5
      <4>2. m \in Nat /\ x \in 0 .. m - 1 /\ y \in 0 .. m - 1 /\ l \in Nat
        BY <3>5
      <4> QED BY ONLY <4>1, <4>2, Parts
    <3> QED BY <3>2, <3>3, <3>5, <3>6
  <2>3. CASE j = i + 1
    <3>1. /\ i \in 1 .. n /\ j - 1 = i /\ ~(j < i) /\ j # i /\ ~(i < i)
          /\ j \in 1 .. n + 1 /\ i \in 1 .. n + 1
      BY <1>n, <2>3
    <3>2. du2[q2[j]] = d[i] /\ du2[q2[j - 1]] = key
      BY <1>11, <2>3, <3>1
    <3>3. dl2[q2[j]] = dl[q[i]] - l /\ dl[q[i]] \in 0 .. m - 1 /\ l < dl[q[i]]
      <4>1. dl[q[i]] \in 0 .. m - 1 /\ l < dl[q[i]] /\ i <= n
        BY <1>4, <3>1
      <4>2. q2[j] = q[i]
        BY <1>2, <3>1
      <4> QED BY <1>5, <4>1, <4>2
    <3>4. dl[q[i]] = d[i] - (IF i = 1 THEN 0 ELSE d[i - 1])
      BY <1>4, <1>6, <1>d, <3>1
    <3>5. l = key - (IF i = 1 THEN 0 ELSE d[i - 1])
      BY <1>6, <1>d, <3>1
    <3>6. d[i] \in 0 .. m - 1 /\ (i = 1 \/ d[i - 1] \in 0 .. m - 1)
      <4>1. i = 1 \/ i - 1 \in 1 .. n
        BY ONLY n \in Nat, <3>1
      <4> QED BY <1>8, <3>1, <4>1
    <3>7. PICK y \in Int : y = IF i = 1 THEN 0 ELSE d[i - 1]
      <4>1. 0 \in Int /\ (i = 1 \/ d[i - 1] \in Int)
        BY ONLY <3>6, m \in Nat
      <4> QED BY ONLY <4>1
    <3>8. PICK z \in Int, e \in 0 .. m - 1, x \in Int : z = d[i] /\ e = dl[q[i]] /\ x = key
      <4>1. key \in Int
        OBVIOUS
      <4>2. d[i] \in Int /\ dl[q[i]] \in 0 .. m - 1
        BY ONLY <3>3, <3>6, m \in Nat
      <4> QED BY ONLY <4>1, <4>2
    <3>9. l = x - y /\ e = z - y /\ l < e /\ l \in Int /\ e \in Int
      <4>1. l \in Int
        BY ONLY l \in Nat
      <4>2. l = x - y
        BY <3>5, <3>7, <3>8
      <4>3. e = z - y
        BY <3>4, <3>7, <3>8
      <4>4. l < e
        BY <3>3, <3>8
      <4> QED BY ONLY <4>1, <4>2, <4>3, <4>4, e \in 0 .. m - 1, m \in Nat
    <3>10. z = x + (e - l)
      BY <3>9, Before
    <3>11. e - l \in 0 .. m - 1
      BY <3>9, Lessened
    <3> QED BY <3>2, <3>3, <3>8, <3>10, <3>11
  <2>4. CASE j > i + 1
    <3>1. /\ j - 1 \in 2 .. n /\ j - 1 \in 1 .. n /\ (j - 1) - 1 \in 1 .. n
          /\ j - 1 > i /\ j - 1 # i
          /\ ~(j < i) /\ j # i /\ ~(j - 1 < i) /\ j \in 1 .. n + 1 /\ j - 1 \in 1 .. n + 1
      BY <1>n, <2>4
    <3>2. du2[q2[j]] = d[j - 1] /\ du2[q2[j - 1]] = d[(j - 1) - 1]
      BY <1>11, <3>1
    <3>3. q2[j] = q[j - 1] /\ dl2[q[j - 1]] = dl[q[j - 1]]
      BY <1>2, <1>5, <3>1
    <3> QED BY <2>0, <3>1, <3>2, <3>3
  <2>5. i \in Int /\ j \in Int
    OBVIOUS
  <2>6. j < i \/ j = i \/ j = i + 1 \/ j > i + 1
    BY ONLY <2>5
  <2> QED BY <2>1, <2>2, <2>3, <2>4, <2>6
<1>14. dl2[q2[1]] = du2[q2[1]]
  <2>0. 1 \in 1 .. n + 1
    OBVIOUS
  <2>1. CASE i = 1
    BY <1>2, <1>5, <1>7, <1>11, <2>0, <2>1
  <2>2. CASE i # 1
    <3>1. 1 < i /\ 1 \in 1 .. n /\ n >= 1
      BY <1>n, <2>2
    <3>2. q2[1] = q[1] /\ dl2[q[1]] = dl[q[1]] /\ du2[q[1]] = du[q[1]]
      BY <1>2, <1>3, <1>5, <2>0, <2>2, <3>1
    <3> QED BY <1>1, <3>1, <3>2
  <2> QED BY <2>1, <2>2
<1> QED BY <1>2, <1>3, <1>5, <1>12, <1>13, <1>14, <1>m DEF Consistent, HeadExact

LEMMA Joined ==
  ASSUME NEW m \in Nat \ {0}, NEW x \in 0 .. m - 1, NEW y \in 0 .. m - 1,
         NEW z \in 0 .. m - 1, NEW a \in 0 .. m - 1, NEW b \in 0 .. m - 1,
         y = x + a, z = y + b
  PROVE  b + a \in -m .. m - 1 /\ b + a \in 0 .. m - 1 /\ z = x + (b + a)
  OBVIOUS

(* Without its i-th value, a list in ascending order is still in order. *)
LEMMA StillRanked ==
  ASSUME NEW n \in Nat, NEW i \in 1 .. n, NEW d \in [1 .. n -> Int], NEW e,
         \A a, b \in 1 .. n : a < b => d[a] <= d[b],
         \A j \in 1 .. n - 1 : e[j] = IF j < i THEN d[j] ELSE d[j + 1]
  PROVE  \A a, b \in 1 .. n - 1 : a < b => e[a] <= e[b]
<1> SUFFICES ASSUME NEW a \in 1 .. n - 1, NEW b \in 1 .. n - 1, a < b
             PROVE  e[a] <= e[b]
  OBVIOUS
<1>1. PICK x \in 1 .. n : x = IF a < i THEN a ELSE a + 1
  OBVIOUS
<1>2. PICK y \in 1 .. n : y = IF b < i THEN b ELSE b + 1
  OBVIOUS
<1>3. x < y
  BY <1>1, <1>2
<1>4. e[a] = d[x] /\ e[b] = d[y]
  BY <1>1, <1>2
<1> QED BY <1>3, <1>4

(* p leaves early: what its key held passes to the next entry. *)
LEMMA UnlinkConsistent ==
  ASSUME NEW q \in Seq(Pid), NEW dl, NEW du, NEW p \in Pid,
         Consistent(q, dl, du), HeadExact(q, dl, du), Once(q), InQ(q, p),
         NEW q2, q2 = Unlink(q, p),
         NEW dl2, dl2 = [r \in Pid |->
                          CASE r = p -> 0
                            [] r # p /\ (\E i \in 1 .. Len(q) - 1 :
                                           q[i] = p /\ q[i + 1] = r) -> Int32(dl[r] + dl[p])
                            [] OTHER -> dl[r]],
         NEW du2, du2 = [du EXCEPT ![p] = 0]
  PROVE  Consistent(q2, dl2, du2) /\ HeadExact(q2, dl2, du2)
<1>n. PICK n \in Nat : n = Len(q)
  OBVIOUS
<1>m. PICK m \in Nat \ {0} : m = MSB
  BY TimerAssumption
<1>i. PICK i \in 1 .. n : q[i] = p /\ q2 = RemoveAt(q, i)
  <2>1. \E j \in 1 .. Len(q) : q[j] = p
    BY DEF InQ
  <2> QED BY <1>n, <2>1 DEF Unlink
<1>1. /\ \A j \in 1 .. n : q[j] \in Pid /\ du[q[j]] \in 0 .. m - 1
      /\ dl \in [Pid -> Int] /\ du \in [Pid -> 0 .. m - 1]
      /\ \A j \in 2 .. n : dl[q[j]] \in 0 .. m - 1 /\ du[q[j]] = du[q[j - 1]] + dl[q[j]]
      /\ \A a, b \in 1 .. n : a < b => du[q[a]] <= du[q[b]]
      /\ dl[q[1]] = du[q[1]]
      /\ \A a, b \in 1 .. n : q[a] = q[b] => a = b
  <2>1. \A j \in 1 .. n : q[j] \in Pid
    BY <1>n
  <2>2. q # <<>>
    BY <1>n, <1>i
  <2> QED BY <1>n, <1>m, <2>1, <2>2 DEF Consistent, HeadExact, Once
<1>2. /\ Len(q2) = n - 1 /\ q2 \in Seq(Pid)
      /\ \A j \in 1 .. n - 1 : q2[j] = IF j < i THEN q[j] ELSE q[j + 1]
  <2>1. /\ RemoveAt(q, i) \in Seq(Pid) /\ Len(RemoveAt(q, i)) = Len(q) - 1
        /\ \A j \in 1 .. Len(q) - 1 :
              RemoveAt(q, i)[j] = IF j < i THEN q[j] ELSE q[j + 1]
    BY <1>n, RemoveAtElements
  <2> QED BY <1>i, <1>n, <2>1
<1>d. PICK d : d = [j \in 1 .. n |-> du[q[j]]]
  OBVIOUS
<1>3. /\ du2 \in [Pid -> 0 .. m - 1]
      /\ \A j \in 1 .. n : j # i => du2[q[j]] = d[j]
      /\ \A j \in 1 .. n : d[j] \in 0 .. m - 1
      /\ \A a, b \in 1 .. n : a < b => d[a] <= d[b]
      /\ \A j \in 2 .. n : dl[q[j]] \in 0 .. m - 1 /\ d[j] = d[j - 1] + dl[q[j]]
      /\ dl[q[1]] = d[1]
  <2>1. 0 \in 0 .. m - 1 /\ 1 \in 1 .. n
    BY <1>i
  <2>2. \A j \in 2 .. n : j \in 1 .. n /\ j - 1 \in 1 .. n
    OBVIOUS
  <2>3. \A j \in 1 .. n : j # i => q[j] # p
    BY <1>1, <1>i
  <2> QED BY <1>1, <1>d, <2>1, <2>2, <2>3
<1>x. PICK x \in 0 .. m - 1 : x = IF i = 1 THEN 0 ELSE d[i - 1]
  <2>1. i = 1 \/ i - 1 \in 1 .. n
    OBVIOUS
  <2> QED BY <1>3, <2>1
<1>4. dl[p] \in 0 .. m - 1 /\ d[i] = x + dl[p]
  <2>1. CASE i = 1
    <3>1. dl[p] = d[1] /\ d[1] \in 0 .. m - 1 /\ x = 0
      BY <1>3, <1>i, <1>x, <2>1
    <3> QED BY <2>1, <3>1
  <2>2. CASE i # 1
    <3>1. i \in 2 .. n
      BY <2>2
    <3> QED BY <1>3, <1>i, <1>x, <2>2, <3>1
  <2> QED BY <2>1, <2>2
<1>5. i < n => /\ dl[q[i + 1]] + dl[p] \in 0 .. m - 1
               /\ Int32(dl[q[i + 1]] + dl[p]) = dl[q[i + 1]] + dl[p]
               /\ d[i + 1] = x + (dl[q[i + 1]] + dl[p])
  <2> SUFFICES ASSUME i < n
               PROVE  /\ dl[q[i + 1]] + dl[p] \in 0 .. m - 1
                      /\ Int32(dl[q[i + 1]] + dl[p]) = dl[q[i + 1]] + dl[p]
                      /\ d[i + 1] = x + (dl[q[i + 1]] + dl[p])
    OBVIOUS
  <2>1. i + 1 \in 2 .. n /\ i + 1 \in 1 .. n /\ (i + 1) - 1 = i
    OBVIOUS
  <2>2. PICK y \in 0 .. m - 1, z \in 0 .. m - 1, a \in 0 .. m - 1, b \in 0 .. m - 1 :
          y = d[i] /\ z = d[i + 1] /\ a = dl[p] /\ b = dl[q[i + 1]]
    BY <1>3, <1>4, <2>1
  <2>3. y = x + a /\ z = y + b
    BY <1>3, <1>4, <2>1, <2>2
  <2>4. b + a \in -m .. m - 1 /\ b + a \in 0 .. m - 1 /\ z = x + (b + a)
    BY <2>3, Joined
  <2>5. Int32(b + a) = b + a
    BY <1>m, <2>4, Int32Fits
  <2> QED BY <2>2, <2>4, <2>5
<1>6. ASSUME NEW j \in 1 .. n, j # i
      PROVE  dl2[q[j]] = IF j = i + 1 THEN dl[q[i + 1]] + dl[p] ELSE dl[q[j]]
  <2>1. q[j] \in Pid /\ q[j] # p
    BY <1>1, <1>6, <1>i
  <2>2. CASE j = i + 1
    <3>1. i \in 1 .. Len(q) - 1 /\ q[i] = p /\ q[i + 1] = q[j] /\ i < n
      BY <1>i, <1>n, <2>2
    <3>2. dl2[q[j]] = Int32(dl[q[j]] + dl[p])
      BY <2>1, <3>1
    <3> QED BY <1>5, <2>2, <3>1, <3>2
  <2>3. CASE j # i + 1
    <3>1. ASSUME NEW e \in 1 .. Len(q) - 1, q[e] = p, q[e + 1] = q[j] PROVE FALSE
      <4>1. e \in 1 .. n /\ e + 1 \in 1 .. n /\ i \in 1 .. n /\ j \in 1 .. n
        BY <1>n
      <4>2. \A a, b \in 1 .. n : q[a] = q[b] => a = b
        BY <1>1
      <4>3. q[e] = q[i] /\ q[e + 1] = q[j]
        BY <1>i, <3>1
      <4>4. e = i
        BY <4>1, <4>2, <4>3
      <4>5. e + 1 = j
        BY <4>1, <4>2, <4>3
      <4> QED BY <2>3, <4>4, <4>5
    <3> QED BY <2>1, <2>3, <3>1
  <2> QED BY <2>2, <2>3
<1>7. dl2 \in [Pid -> Int]
  <2>1. ASSUME NEW r \in Pid PROVE dl2[r] \in Int
    <3>1. CASE \E j \in 1 .. n : j # i /\ q[j] = r
      <4>1. PICK j \in 1 .. n : j # i /\ q[j] = r
        BY <3>1
      <4>2. dl2[r] = IF j = i + 1 THEN dl[q[i + 1]] + dl[p] ELSE dl[q[j]]
        BY <1>6, <4>1
      <4>3. PICK a \in Int, b \in Int : a = dl[q[j]] /\ b = dl[p]
        BY <1>1, <4>1
      <4>4. dl2[r] = a + b \/ dl2[r] = a
        BY <4>2, <4>3
      <4> QED BY <4>4
    <3>2. CASE ~(\E j \in 1 .. n : j # i /\ q[j] = r)
      <4>1. ~(r # p /\ \E e \in 1 .. Len(q) - 1 : q[e] = p /\ q[e + 1] = r)
        <5>1. ASSUME r # p, NEW e \in 1 .. Len(q) - 1, q[e] = p, q[e + 1] = r PROVE FALSE
          <6>1. e + 1 \in 1 .. n /\ e + 1 # i
            BY <1>i, <1>n, <5>1
          <6> QED BY <3>2, <5>1, <6>1
        <5> QED BY <5>1
      <4>2. dl[r] \in Int
        BY <1>1
      <4> QED BY <4>1, <4>2
    <3> QED BY <3>1, <3>2
  <2> QED BY <2>1
<1>8. \A j \in 1 .. n - 1 : du2[q2[j]] = IF j < i THEN d[j] ELSE d[j + 1]
  <2> SUFFICES ASSUME NEW j \in 1 .. n - 1
               PROVE  du2[q2[j]] = IF j < i THEN d[j] ELSE d[j + 1]
    OBVIOUS
  <2>1. CASE j < i
    <3>1. j \in 1 .. n /\ j # i
      BY <2>1
    <3> QED BY <1>2, <1>3, <2>1, <3>1
  <2>2. CASE ~(j < i)
    <3>1. j + 1 \in 1 .. n /\ j + 1 # i
      BY <2>2
    <3> QED BY <1>2, <1>3, <2>2, <3>1
  <2> QED BY <2>1, <2>2
<1>e. PICK e : e = [j \in 1 .. n - 1 |-> du2[q2[j]]]
  OBVIOUS
<1>9. \A a, b \in 1 .. n - 1 : a < b => du2[q2[a]] <= du2[q2[b]]
  <2>1. \A a, b \in 1 .. n : a < b => d[a] <= d[b]
    BY <1>3
  <2>2. d \in [1 .. n -> Int]
    BY <1>3, <1>d
  <2>3. \A j \in 1 .. n - 1 : e[j] = IF j < i THEN d[j] ELSE d[j + 1]
    BY <1>8, <1>e
  <2>4. \A a, b \in 1 .. n - 1 : a < b => e[a] <= e[b]
    BY <2>1, <2>2, <2>3, StillRanked
  <2> QED BY <1>e, <2>4
<1>10. \A j \in 2 .. n - 1 : /\ dl2[q2[j]] \in 0 .. m - 1
                             /\ du2[q2[j]] = du2[q2[j - 1]] + dl2[q2[j]]
  <2> SUFFICES ASSUME NEW j \in 2 .. n - 1
               PROVE  /\ dl2[q2[j]] \in 0 .. m - 1
                      /\ du2[q2[j]] = du2[q2[j - 1]] + dl2[q2[j]]
    OBVIOUS
  <2>1. CASE j < i
    <3>1. /\ j \in 2 .. n /\ j \in 1 .. n /\ j # i /\ j # i + 1 /\ j - 1 < i
          /\ j \in 1 .. n - 1 /\ j - 1 \in 1 .. n - 1
      BY <2>1
    <3>2. du2[q2[j]] = d[j] /\ du2[q2[j - 1]] = d[j - 1] /\ dl2[q2[j]] = dl[q[j]]
      BY <1>2, <1>6, <1>8, <2>1, <3>1
    <3> QED BY <1>3, <3>1, <3>2
  <2>2. CASE j = i
    <3>1. /\ i < n /\ i # 1 /\ ~(j < i) /\ j - 1 < i /\ i + 1 \in 1 .. n /\ i + 1 # i
          /\ j \in 1 .. n - 1 /\ j - 1 \in 1 .. n - 1
      BY <2>2
    <3>2. du2[q2[j]] = d[i + 1] /\ du2[q2[j - 1]] = x
      BY <1>8, <1>x, <2>2, <3>1
    <3>3. dl2[q2[j]] = dl[q[i + 1]] + dl[p]
      BY <1>2, <1>6, <2>2, <3>1
    <3> QED BY <1>5, <3>1, <3>2, <3>3
  <2>3. CASE j > i
    <3>1. /\ j + 1 \in 2 .. n /\ j + 1 \in 1 .. n /\ j + 1 # i /\ j + 1 # i + 1
          /\ ~(j < i) /\ ~(j - 1 < i) /\ (j + 1) - 1 = j /\ (j - 1) + 1 = j
          /\ j \in 1 .. n - 1 /\ j - 1 \in 1 .. n - 1
      <4>1. n \in Nat /\ i \in 1 .. n /\ j \in 2 .. n - 1
        OBVIOUS
      <4> QED BY ONLY <2>3, <4>1
    <3>2. du2[q2[j]] = d[j + 1] /\ du2[q2[j - 1]] = d[j] /\ dl2[q2[j]] = dl[q[j + 1]]
      BY <1>2, <1>6, <1>8, <3>1
    <3>3. dl[q[j + 1]] \in 0 .. m - 1 /\ d[j + 1] = d[(j + 1) - 1] + dl[q[j + 1]]
      BY <1>3, <3>1
    <3>4. d[(j + 1) - 1] = d[j]
      BY <3>1
    <3> QED BY <3>2, <3>3, <3>4
  <2> QED BY <2>1, <2>2, <2>3
<1>11. n - 1 >= 1 => dl2[q2[1]] = du2[q2[1]]
  <2> SUFFICES ASSUME n - 1 >= 1 PROVE dl2[q2[1]] = du2[q2[1]]
    OBVIOUS
  <2>1. CASE i = 1
    <3>1. 1 \in 1 .. n - 1 /\ ~(1 < i) /\ 1 + 1 \in 1 .. n /\ 1 + 1 # i /\ i < n
      BY <2>1
    <3>2. dl2[q2[1]] = dl[q[1 + 1]] + dl[p] /\ du2[q2[1]] = d[1 + 1]
      BY <1>2, <1>6, <1>8, <2>1, <3>1
    <3>3. d[1 + 1] = x + (dl[q[1 + 1]] + dl[p]) /\ x = 0
          /\ dl[q[1 + 1]] + dl[p] \in 0 .. m - 1
      BY <1>5, <1>x, <2>1, <3>1
    <3>4. PICK w \in 0 .. m - 1 : w = dl[q[1 + 1]] + dl[p]
      BY <3>3
    <3>5. dl2[q2[1]] = w /\ du2[q2[1]] = 0 + w
      BY <3>2, <3>3, <3>4
    <3> QED BY <3>5
  <2>2. CASE i # 1
    <3>1. 1 \in 1 .. n - 1 /\ 1 < i /\ 1 \in 1 .. n /\ 1 # i /\ 1 # i + 1
      BY <2>2
    <3>2. dl2[q2[1]] = dl[q[1]] /\ du2[q2[1]] = d[1]
      BY <1>2, <1>6, <1>8, <3>1
    <3>3. dl[q[1]] = d[1]
      BY <1>3
    <3> QED BY <3>2, <3>3
  <2> QED BY <2>1, <2>2
<1>12. q2 # <<>> => n - 1 >= 1
  BY <1>2
<1> QED BY <1>2, <1>3, <1>7, <1>9, <1>10, <1>11, <1>12, <1>m DEF Consistent, HeadExact

(* The first leaves when its time is up. *)
LEMMA TailConsistent ==
  ASSUME NEW q \in Seq(Pid), NEW dl, NEW du, Consistent(q, dl, du), Once(q),
         q # <<>>, HeadExact(q, dl, du) \/ HeadLate(q, dl, du), dl[q[1]] <= 0
  PROVE  /\ Consistent(Tail(q), [dl EXCEPT ![q[1]] = 0], [du EXCEPT ![q[1]] = 0])
         /\ HeadExact(Tail(q), [dl EXCEPT ![q[1]] = 0], [du EXCEPT ![q[1]] = 0])
<1>n. PICK n \in Nat : n = Len(q)
  OBVIOUS
<1>m. PICK m \in Nat \ {0} : m = MSB
  BY TimerAssumption
<1>t. PICK t : t = Tail(q)
  OBVIOUS
<1>2. /\ t \in Seq(Pid) /\ Len(t) = n - 1 /\ n >= 1
      /\ \A j \in 1 .. n - 1 : t[j] = q[j + 1]
      /\ \A j \in 1 .. n : q[j] \in Pid
  BY <1>n, <1>t
<1>1. /\ dl \in [Pid -> Int] /\ du \in [Pid -> 0 .. m - 1]
      /\ \A j \in 2 .. n : dl[q[j]] \in 0 .. m - 1 /\ du[q[j]] = du[q[j - 1]] + dl[q[j]]
      /\ \A a, b \in 1 .. n : a < b => du[q[a]] <= du[q[b]]
      /\ \A j \in 2 .. n : q[j] # q[1]
  <2>1. \A j \in 2 .. n : q[j] # q[1]
    <3>1. \A j \in 2 .. n : j \in 1 .. n /\ 1 \in 1 .. n /\ j # 1
      BY ONLY n \in Nat
    <3> QED BY <1>n, <3>1 DEF Once
  <2>2. /\ dl \in [Pid -> Int] /\ du \in [Pid -> 0 .. m - 1]
        /\ \A j \in 2 .. n : dl[q[j]] \in 0 .. m - 1 /\ du[q[j]] = du[q[j - 1]] + dl[q[j]]
        /\ \A a, b \in 1 .. n : a < b => du[q[a]] <= du[q[b]]
    BY <1>n, <1>m DEF Consistent
  <2> QED BY <2>1, <2>2
<1>3. du[q[1]] = 0
  BY <1>1, <1>2 DEF HeadExact, HeadLate
<1>p. PICK dl2, du2 : dl2 = [dl EXCEPT ![q[1]] = 0] /\ du2 = [du EXCEPT ![q[1]] = 0]
  OBVIOUS
<1>4. /\ dl2 \in [Pid -> Int] /\ du2 \in [Pid -> 0 .. m - 1]
      /\ \A j \in 2 .. n : dl2[q[j]] = dl[q[j]] /\ du2[q[j]] = du[q[j]]
  <2>1. 0 \in 0 .. m - 1 /\ 0 \in Int
    OBVIOUS
  <2>2. \A j \in 2 .. n : q[j] \in Pid
    BY <1>2
  <2> QED BY <1>1, <1>p, <2>1, <2>2
<1>5. \A j \in 1 .. n - 1 : t[j] = q[j + 1] /\ j + 1 \in 2 .. n /\ j + 1 \in 1 .. n
  BY <1>2
<1>6. \A j \in 2 .. n - 1 : /\ dl2[t[j]] \in 0 .. m - 1
                            /\ du2[t[j]] = du2[t[j - 1]] + dl2[t[j]]
  <2> SUFFICES ASSUME NEW j \in 2 .. n - 1
               PROVE  dl2[t[j]] \in 0 .. m - 1 /\ du2[t[j]] = du2[t[j - 1]] + dl2[t[j]]
    OBVIOUS
  <2>1. /\ j \in 1 .. n - 1 /\ j - 1 \in 1 .. n - 1 /\ j + 1 \in 2 .. n /\ j \in 2 .. n
        /\ (j - 1) + 1 = j /\ (j + 1) - 1 = j
    OBVIOUS
  <2>2. t[j] = q[j + 1] /\ t[j - 1] = q[j]
    BY <1>5, <2>1
  <2>3. dl[q[j + 1]] \in 0 .. m - 1 /\ du[q[j + 1]] = du[q[(j + 1) - 1]] + dl[q[j + 1]]
    BY <1>1, <2>1
  <2>4. dl2[q[j + 1]] = dl[q[j + 1]] /\ du2[q[j + 1]] = du[q[j + 1]] /\ du2[q[j]] = du[q[j]]
    BY <1>4, <2>1
  <2>5. q[(j + 1) - 1] = q[j]
    BY <2>1
  <2> QED BY <2>2, <2>3, <2>4, <2>5
<1>7. \A a, b \in 1 .. n - 1 : a < b => du2[t[a]] <= du2[t[b]]
  <2> SUFFICES ASSUME NEW a \in 1 .. n - 1, NEW b \in 1 .. n - 1, a < b
               PROVE  du2[t[a]] <= du2[t[b]]
    OBVIOUS
  <2>0. \A x, y \in 1 .. n : x < y => du[q[x]] <= du[q[y]]
    BY <1>1
  <2>1. PICK x \in 2 .. n, y \in 2 .. n : x = a + 1 /\ y = b + 1
    BY <1>5
  <2>2. x < y /\ x \in 1 .. n /\ y \in 1 .. n
    BY <2>1
  <2>3. du[q[x]] <= du[q[y]]
    BY <2>0, <2>2
  <2>4. t[a] = q[x] /\ t[b] = q[y]
    BY <1>5, <2>1
  <2>5. du2[q[x]] = du[q[x]] /\ du2[q[y]] = du[q[y]]
    BY <1>4
  <2> QED BY <2>3, <2>4, <2>5
<1>8. t # <<>> => dl2[t[1]] = du2[t[1]]
  <2> SUFFICES ASSUME t # <<>> PROVE dl2[t[1]] = du2[t[1]]
    OBVIOUS
  <2>1. 1 \in 1 .. n - 1 /\ 2 \in 2 .. n /\ 1 + 1 = 2
    BY <1>2
  <2>2. t[1] = q[2] /\ dl2[t[1]] = dl[q[2]] /\ du2[t[1]] = du[q[2]]
    BY <1>4, <1>5, <2>1
  <2>3. du[q[2]] = du[q[1]] + dl[q[2]] /\ dl[q[2]] \in 0 .. m - 1
    BY <1>1, <2>1
  <2> QED BY <1>3, <2>2, <2>3
<1>9. Consistent(t, dl2, du2) /\ HeadExact(t, dl2, du2)
  BY <1>2, <1>4, <1>6, <1>7, <1>8, <1>m DEF Consistent, HeadExact
<1> QED BY <1>9, <1>p, <1>t

(* A millisecond goes by. *)
KeysTicked(q, dl) == [dl EXCEPT ![q[1]] = Int32(dl[q[1]] - 1)]
TimesTicked(q, dl, du) ==
  [r \in Pid |-> IF InQ(q, r) /\ dl[q[1]] > 0 /\ du[r] >= 0 THEN du[r] - 1 ELSE du[r]]

LEMMA ElapseConsistent ==
  ASSUME NEW q \in Seq(Pid), NEW dl, NEW du, Consistent(q, dl, du), Once(q),
         q # <<>>, HeadExact(q, dl, du)
  PROVE  LET dl2 == KeysTicked(q, dl)
             du2 == TimesTicked(q, dl, du)
         IN /\ Consistent(q, dl2, du2)
            /\ HeadExact(q, dl2, du2) \/ (HeadLate(q, dl2, du2) /\ dl2[q[1]] <= 0)
            /\ dl2[q[1]] > 0 => \A r \in Pid : InQ(q, r) => du2[r] > 0
<1> SUFFICES ASSUME NEW dl2, dl2 = [dl EXCEPT ![q[1]] = Int32(dl[q[1]] - 1)],
                    NEW du2,
                    du2 = [r \in Pid |-> IF InQ(q, r) /\ dl[q[1]] > 0 /\ du[r] >= 0
                                         THEN du[r] - 1 ELSE du[r]]
             PROVE  /\ Consistent(q, dl2, du2)
                    /\ HeadExact(q, dl2, du2) \/ (HeadLate(q, dl2, du2) /\ dl2[q[1]] <= 0)
                    /\ dl2[q[1]] > 0 => \A r \in Pid : InQ(q, r) => du2[r] > 0
  BY DEF KeysTicked, TimesTicked
<1>n. PICK n \in Nat : n = Len(q)
  OBVIOUS
<1>m. PICK m \in Nat \ {0} : m = MSB
  BY TimerAssumption
<1>1. /\ dl \in [Pid -> Int] /\ du \in [Pid -> 0 .. m - 1]
      /\ \A j \in 2 .. n : dl[q[j]] \in 0 .. m - 1 /\ du[q[j]] = du[q[j - 1]] + dl[q[j]]
      /\ \A a, b \in 1 .. n : a < b => du[q[a]] <= du[q[b]]
      /\ n >= 1 /\ \A j \in 1 .. n : q[j] \in Pid
      /\ \A j \in 2 .. n : q[j] # q[1]
      /\ dl[q[1]] = du[q[1]]
  <2>1. \A j \in 1 .. n : q[j] \in Pid
    BY <1>n
  <2> QED BY <1>n, <1>m, <2>1 DEF Consistent, Once, HeadExact
<1>2. \A j \in 1 .. n : InQ(q, q[j])
  BY <1>n DEF InQ
<1>h. PICK h \in 0 .. m - 1 : h = dl[q[1]] /\ h = du[q[1]]
  BY <1>1
<1>3. \A j \in 1 .. n : du[q[j]] \in 0 .. m - 1 /\ h <= du[q[j]]
  <2> SUFFICES ASSUME NEW j \in 1 .. n PROVE du[q[j]] \in 0 .. m - 1 /\ h <= du[q[j]]
    OBVIOUS
  <2>1. du[q[j]] \in 0 .. m - 1
    BY <1>1
  <2>2. CASE j = 1
    BY <1>h, <2>1, <2>2
  <2>3. CASE j # 1
    <3>1. 1 < j /\ 1 \in 1 .. n
      BY <1>1, <2>3
    <3> QED BY <1>1, <1>h, <2>1, <3>1
  <2> QED BY <2>2, <2>3
<1>4. h - 1 \in -m .. m - 1
  OBVIOUS
<1>5. Int32(h - 1) = h - 1
  BY <1>4, <1>m, Int32Fits
<1>6. /\ dl2 \in [Pid -> Int] /\ dl2[q[1]] = h - 1
      /\ \A j \in 2 .. n : dl2[q[j]] = dl[q[j]]
  <2>1. h - 1 \in Int /\ q[1] \in Pid /\ \A j \in 2 .. n : q[j] \in Pid
    BY <1>1
  <2> QED BY <1>1, <1>5, <1>h, <2>1
<1>7. CASE h > 0
  <2>1. \A r \in Pid : du2[r] = IF InQ(q, r) THEN du[r] - 1 ELSE du[r]
    <3>1. \A r \in Pid : du[r] >= 0
      BY <1>1
    <3> QED BY <1>7, <1>h, <3>1
  <2>2. \A j \in 1 .. n : du2[q[j]] = du[q[j]] - 1 /\ du[q[j]] - 1 \in 0 .. m - 1
                          /\ du[q[j]] - 1 >= h - 1
    <3>1. \A j \in 1 .. n : du2[q[j]] = du[q[j]] - 1
      BY <1>1, <1>2, <2>1
    <3>2. \A j \in 1 .. n : du[q[j]] - 1 \in 0 .. m - 1 /\ du[q[j]] - 1 >= h - 1
      BY <1>3, <1>7
    <3> QED BY <3>1, <3>2
  <2>3. \A r \in Pid : InQ(q, r) => du2[r] \in 0 .. m - 1 /\ du2[r] >= h - 1
    BY <1>n, <2>2 DEF InQ
  <2>4. du2 \in [Pid -> 0 .. m - 1]
    <3>1. du2 = [r \in Pid |-> du2[r]]
      OBVIOUS
    <3>2. \A r \in Pid : du2[r] \in 0 .. m - 1
      BY <1>1, <2>1, <2>3
    <3> QED BY <3>1, <3>2
  <2>5. \A a, b \in 1 .. n : a < b => du2[q[a]] <= du2[q[b]]
    <3> SUFFICES ASSUME NEW a \in 1 .. n, NEW b \in 1 .. n, a < b
                 PROVE  du2[q[a]] <= du2[q[b]]
      OBVIOUS
    <3>0. \A x, y \in 1 .. n : x < y => du[q[x]] <= du[q[y]]
      BY <1>1
    <3>1. du[q[a]] <= du[q[b]]
      BY <3>0
    <3>2. PICK x \in 0 .. m - 1, y \in 0 .. m - 1 : x = du[q[a]] /\ y = du[q[b]]
      BY <1>3
    <3>3. du2[q[a]] = x - 1 /\ du2[q[b]] = y - 1
      BY <2>2, <3>2
    <3> QED BY <3>1, <3>2, <3>3
  <2>6. \A j \in 2 .. n : /\ dl2[q[j]] \in 0 .. m - 1
                          /\ du2[q[j]] = du2[q[j - 1]] + dl2[q[j]]
    <3> SUFFICES ASSUME NEW j \in 2 .. n
                 PROVE  dl2[q[j]] \in 0 .. m - 1 /\ du2[q[j]] = du2[q[j - 1]] + dl2[q[j]]
      OBVIOUS
    <3>1. j \in 1 .. n /\ j - 1 \in 1 .. n
      OBVIOUS
    <3>2. PICK y \in 0 .. m - 1, z \in 0 .. m - 1, e \in 0 .. m - 1 :
            y = du[q[j - 1]] /\ z = du[q[j]] /\ e = dl[q[j]]
      BY <1>1, <1>3, <3>1
    <3>3. z = y + e
      BY <1>1, <3>2
    <3>4. du2[q[j]] = z - 1 /\ du2[q[j - 1]] = y - 1 /\ dl2[q[j]] = e
      BY <1>6, <2>2, <3>1, <3>2
    <3>5. z - 1 = (y - 1) + e
      BY <3>3
    <3> QED BY <3>4, <3>5
  <2>7. dl2[q[1]] = du2[q[1]]
    <3>1. 1 \in 1 .. n
      BY <1>1
    <3>2. du2[q[1]] = du[q[1]] - 1
      BY ONLY <2>2, <3>1
    <3>3. dl2[q[1]] = h - 1 /\ h = du[q[1]]
      BY ONLY <1>6, <1>h
    <3> QED BY ONLY <3>2, <3>3
  <2>8. Consistent(q, dl2, du2) /\ HeadExact(q, dl2, du2)
    BY <1>6, <1>n, <1>m, <2>4, <2>5, <2>6, <2>7 DEF Consistent, HeadExact
  <2>9. h - 1 > 0 => \A r \in Pid : InQ(q, r) => du2[r] > 0
    BY <2>3
  <2> QED BY <1>6, <2>8, <2>9
<1>8. CASE h = 0
  <2>1. du2 = du
    <3>1. \A r \in Pid : du2[r] = du[r]
      BY <1>8, <1>h
    <3> QED BY <1>1, <3>1
  <2>2. \A j \in 2 .. n : /\ dl2[q[j]] \in 0 .. m - 1
                          /\ du2[q[j]] = du2[q[j - 1]] + dl2[q[j]]
    BY <1>1, <1>6, <2>1
  <2>3. Consistent(q, dl2, du2)
    BY <1>1, <1>6, <1>n, <1>m, <2>1, <2>2 DEF Consistent
  <2>4. dl2[q[1]] = -1 /\ du2[q[1]] = 0
    BY <1>6, <1>8, <1>h, <2>1
  <2> QED BY <2>3, <2>4 DEF HeadLate
<1> QED BY <1>7, <1>8

-----------------------------------------------------------------------------
(* The invariant step by step. *)

(* Outside wakeup(). *)
Exact == /\ Consistent(sleepq, delta, due)
         /\ HeadExact(sleepq, delta, due) /\ SleepersDue

LEMMA ExactOutsideWakeup ==
  /\ Exact => DelayInv
  /\ DelayInv /\ cont[Self].op # "wakeup" => Exact
  BY DEF Exact, DelayInv

NobodyFallsAsleep == \A x \in Pid : k'.prstate[x] = "SLEEP" => k.prstate[x] = "SLEEP"

LEMMA ExactSame ==
  ASSUME Exact, UNCHANGED sleepvars, NobodyFallsAsleep
  PROVE  Exact'
<1>1. UNCHANGED <<sleepq, delta, due>>
  BY DEF sleepvars
<1> QED BY <1>1 DEF Exact, NobodyFallsAsleep, SleepersDue, Consistent, HeadExact

LEMMA ExactInsert ==
  ASSUME IInv, Exact, Self # NULLPROC, k.ndefers = 0, NEW key \in 0 .. MSB - 1,
         NEW s \in {"SLEEP", "RECTIM"}, s = "SLEEP" => key > 0,
         Insertd(Self, key), k' = Block(k, s)
  PROVE  Exact'
<1>p. PICK p \in Pid : p = Self
  BY CurrentFacts
<1>1. /\ sleepq \in Seq(Pid) /\ Once(sleepq) /\ ~InQ(sleepq, p)
      /\ Consistent(sleepq, delta, due) /\ HeadExact(sleepq, delta, due)
  BY <1>p, CurrentFacts DEF IInv, Typed, SleepersListed, Asleep, Exact
<1>2. PICK i \in 1 .. Len(sleepq) + 1 :
         /\ \A j \in 1 .. i - 1 : delta[sleepq[j]] <= Left(key)[j - 1]
         /\ i <= Len(sleepq) => delta[sleepq[i]] > Left(key)[i - 1]
         /\ sleepq' = InsertAt(sleepq, i, p)
         /\ delta' = [r \in Pid |->
              CASE r = p -> Left(key)[i - 1]
                [] r # p /\ i <= Len(sleepq) /\ r = sleepq[i]
                     -> Int32(delta[r] - Left(key)[i - 1])
                [] OTHER -> delta[r]]
         /\ due' = [due EXCEPT ![p] = key]
  BY <1>p DEF Insertd
<1>3. \A j \in 0 .. Len(sleepq) :
        Left(key)[j] = IF j = 0 THEN key ELSE key - due[sleepq[j]]
  BY <1>1, LeftIs
<1>n. PICK n \in Nat : n = Len(sleepq)
  BY <1>1
<1>m. PICK m \in Nat \ {0} : m = MSB
  BY TimerAssumption
<1>4. Left(key)[i - 1] \in Nat
  <2>1. CASE i = 1
    <3>1. i - 1 = 0 /\ i - 1 \in 0 .. Len(sleepq)
      BY <1>n, <2>1
    <3> QED BY <1>3, <3>1
  <2>2. CASE i # 1
    <3>1. i - 1 \in 1 .. n /\ i - 1 \in 0 .. n /\ i - 1 # 0
      BY <1>n, <2>2
    <3>2. sleepq[i - 1] \in Pid
      BY <1>1, <1>n, <3>1
    <3>3. PICK x \in 0 .. m - 1 : x = due[sleepq[i - 1]]
      BY <1>1, <1>m, <3>2 DEF Consistent
    <3>4. Left(key)[i - 1] = key - x
      BY <1>3, <1>n, <3>1, <3>3
    <3>5. CASE i = 2
      <4>1. i - 1 = 1 /\ 1 \in 1 .. n /\ 1 \in 1 .. i - 1 /\ 1 - 1 = 0 /\ sleepq # <<>>
        BY <1>n, <3>1, <3>5
      <4>2. delta[sleepq[1]] <= Left(key)[1 - 1]
        BY <1>2, <4>1
      <4>3. Left(key)[1 - 1] = key
        BY <1>3, <4>1, <1>n
      <4>4. delta[sleepq[1]] = x
        BY <1>1, <3>3, <4>1 DEF HeadExact
      <4>5. x <= key /\ key \in Int
        BY <4>2, <4>3, <4>4
      <4>6. key - x \in Nat
        BY <4>5
      <4> QED BY <3>4, <4>6
    <3>6. CASE i # 2
      <4>1. /\ i - 1 \in 2 .. n /\ (i - 1) - 1 \in 1 .. n /\ (i - 1) - 1 \in 0 .. n
            /\ (i - 1) - 1 # 0 /\ i - 1 \in 1 .. i - 1
        BY <1>n, <2>2, <3>1, <3>6
      <4>2. delta[sleepq[i - 1]] <= Left(key)[(i - 1) - 1]
        BY <1>2, <4>1
      <4>3. Left(key)[(i - 1) - 1] = key - due[sleepq[(i - 1) - 1]]
        BY <1>3, <1>n, <4>1
      <4>4. /\ due[sleepq[i - 1]] = due[sleepq[(i - 1) - 1]] + delta[sleepq[i - 1]]
            /\ delta[sleepq[i - 1]] \in 0 .. m - 1
        BY <1>1, <1>m, <1>n, <4>1 DEF Consistent
      <4>5. sleepq[(i - 1) - 1] \in Pid
        BY <1>1, <1>n, <4>1
      <4>6. PICK y \in 0 .. m - 1, e \in 0 .. m - 1 :
               y = due[sleepq[(i - 1) - 1]] /\ e = delta[sleepq[i - 1]]
        BY <1>1, <1>m, <4>4, <4>5 DEF Consistent
      <4>7. x = y + e /\ e <= key - y /\ key \in Int
        BY <3>3, <4>2, <4>3, <4>4, <4>6
      <4>8. key - x \in Nat
        BY <4>7
      <4> QED BY <3>4, <4>8
    <3> QED BY <3>5, <3>6
  <2> QED BY <2>1, <2>2
<1>5. PICK l \in Nat : l = Left(key)[i - 1]
  BY <1>4
<1>6. l = key - (IF i = 1 THEN 0 ELSE due[sleepq[i - 1]])
  <2>1. i - 1 \in 0 .. Len(sleepq) /\ (i - 1 = 0 <=> i = 1)
    BY <1>n
  <2>2. l = IF i - 1 = 0 THEN key ELSE key - due[sleepq[i - 1]]
    BY <1>3, <1>5, <2>1
  <2>3. key = key - 0
    OBVIOUS
  <2>4. CASE i = 1
    BY <2>1, <2>2, <2>3, <2>4
  <2>5. CASE i # 1
    BY <2>1, <2>2, <2>5
  <2> QED BY <2>4, <2>5
<1>7. PICK q2, dl2, du2 : q2 = sleepq' /\ dl2 = delta' /\ du2 = due'
  OBVIOUS
<1>8. Consistent(q2, dl2, du2) /\ HeadExact(q2, dl2, du2)
  <2>1. i <= Len(sleepq) => delta[sleepq[i]] > l
    BY <1>2, <1>5
  <2>2. /\ q2 = InsertAt(sleepq, i, p) /\ dl2 = KeysWith(sleepq, delta, i, p, l)
        /\ du2 = [due EXCEPT ![p] = key]
    BY <1>2, <1>5, <1>7 DEF KeysWith
  <2>3. /\ Consistent(InsertAt(sleepq, i, p), KeysWith(sleepq, delta, i, p, l),
                      [due EXCEPT ![p] = key])
        /\ HeadExact(InsertAt(sleepq, i, p), KeysWith(sleepq, delta, i, p, l),
                     [due EXCEPT ![p] = key])
    BY <1>1, <1>6, <2>1, InsertConsistent
  <2> QED BY <2>2, <2>3
<1>9. SleepersDue'
  <2>1. PICK j \in 1 .. Len(sleepq) + 1 : sleepq' = InsertAt(sleepq, j, Self)
    BY <1>2, <1>p
  <2>2. k'.prstate[p] = s /\ \A x \in Pid \ {p} : Kept(x)
    BY <1>p, <2>1, SleeperEnters
  <2>3. \A x \in Pid \ {p} : k'.prstate[x] = "SLEEP" => k.prstate[x] = "SLEEP"
    BY <2>2 DEF Kept
  <2>4. due'[p] = key /\ \A x \in Pid \ {p} : due'[x] = due[x]
    BY <1>1, <1>2 DEF Consistent
  <2> QED BY <2>2, <2>3, <2>4 DEF SleepersDue, Exact
<1> QED BY <1>7, <1>8, <1>9 DEF Exact

LEMMA ExactUnsleep ==
  ASSUME IInv, Exact, NEW p \in Pid, Unsleep(p), NobodyFallsAsleep,
         k'.prstate[p] # "SLEEP"
  PROVE  Exact'
<1>1. CASE ~Asleep(p)
  <2>1. UNCHANGED sleepvars
    BY <1>1 DEF Unsleep
  <2> QED BY <2>1, ExactSame
<1>2. CASE Asleep(p)
  <2>1. /\ sleepq \in Seq(Pid) /\ Once(sleepq) /\ InQ(sleepq, p)
        /\ Consistent(sleepq, delta, due) /\ HeadExact(sleepq, delta, due)
    BY <1>2 DEF IInv, Typed, SleepersListed, Exact
  <2>2. PICK q2, dl2, du2 : q2 = sleepq' /\ dl2 = delta' /\ du2 = due'
    OBVIOUS
  <2>3. /\ q2 = Unlink(sleepq, p)
        /\ dl2 = [r \in Pid |->
             CASE r = p -> 0
               [] r # p /\ (\E i \in 1 .. Len(sleepq) - 1 :
                              sleepq[i] = p /\ sleepq[i + 1] = r) -> Int32(delta[r] + delta[p])
               [] OTHER -> delta[r]]
        /\ du2 = [due EXCEPT ![p] = 0]
    BY <1>2, <2>2 DEF Unsleep
  <2>4. Consistent(q2, dl2, du2) /\ HeadExact(q2, dl2, du2)
    BY <2>1, <2>3, UnlinkConsistent
  <2>5. \A x \in Pid \ {p} : due'[x] = due[x]
    BY <2>1, <2>2, <2>3 DEF Consistent
  <2>6. SleepersDue'
    BY <2>5 DEF SleepersDue, Exact, NobodyFallsAsleep
  <2> QED BY <2>2, <2>4, <2>6 DEF Exact
<1> QED BY <1>1, <1>2

LEMMA ExactDeliver ==
  ASSUME IInv, Exact, NEW p \in Pid, Deliver(p)
  PROVE  Exact'
<1>1. CASE ~Live(p) \/ prhasmsg[p]
  BY <1>1, ExactSame DEF Deliver, NobodyFallsAsleep
<1>2. CASE ~(~Live(p) \/ prhasmsg[p]) /\ k.prstate[p] \notin {"RECV", "RECTIM"}
  <2>1. k' = k /\ UNCHANGED sleepvars
    BY <1>2 DEF Deliver
  <2> QED BY <2>1, ExactSame DEF NobodyFallsAsleep
<1>3. CASE ~(~Live(p) \/ prhasmsg[p]) /\ k.prstate[p] \in {"RECV", "RECTIM"}
  <2>1. k' = Ready(k, p) /\ SchedInv(k)
    BY <1>3, CurrentFacts DEF Deliver
  <2>2. k'.prstate[p] \in {"CURR", "READY"} /\ \A x \in Pid \ {p} : Kept(x)
    BY <1>3, <2>1, ReadyInv DEF Kept
  <2>3. NobodyFallsAsleep
    BY <2>2 DEF NobodyFallsAsleep, Kept
  <2>4. CASE k.prstate[p] = "RECTIM"
    <3>1. Unsleep(p)
      BY <1>3, <2>4 DEF Deliver
    <3> QED BY <2>2, <2>3, <3>1, ExactUnsleep
  <2>5. CASE k.prstate[p] # "RECTIM"
    <3>1. UNCHANGED sleepvars
      BY <1>3, <2>5 DEF Deliver
    <3> QED BY <2>3, <3>1, ExactSame
  <2> QED BY <2>4, <2>5
<1> QED BY <1>1, <1>2, <1>3

LEMMA ExactSleep ==
  ASSUME IInv, Exact, NEW d \in 0 .. MSB - 1, Sleep(d)
  PROVE  Exact'
<1>1. /\ Self # NULLPROC /\ k.ndefers = 0 /\ SchedInv(k) /\ SchedPre(k)
  BY NotDeferred, CurrentFacts, TimerFacts DEF Sleep, Calling, SchedInv
<1>2. CASE k' = Resched(k) /\ UNCHANGED sleepvars
  <2>1. SameButRunning(k, k')
    <3>1. ~(k.ndefers > 0)
      BY <1>1
    <3> QED BY <1>1, <1>2, <3>1, ReschedInv
  <2>2. NobodyFallsAsleep
    BY <2>1 DEF SameButRunning, NobodyFallsAsleep
  <2> QED BY <1>2, <2>2, ExactSame
<1>3. CASE d # 0 /\ Insertd(Self, Int32(d)) /\ k' = Block(k, "SLEEP")
  <2>1. d \in -MSB .. MSB - 1 /\ d > 0
    BY <1>3, TimerAssumption
  <2>2. Int32(d) = d
    BY <2>1, Int32Fits
  <2> QED BY <1>1, <1>3, <2>1, <2>2, ExactInsert
<1> QED BY <1>2, <1>3 DEF Sleep

LEMMA ExactRecvtime ==
  ASSUME IInv, Exact, NEW w \in Waits, Recvtime(w)
  PROVE  Exact'
<1>1. Self # NULLPROC /\ k.ndefers = 0 /\ w \in 0 .. MSB - 1
  BY NotDeferred, TimerFacts, TimerAssumption DEF Recvtime, Calling
<1>2. CASE UNCHANGED <<k, sleepvars>>
  BY <1>2, ExactSame DEF NobodyFallsAsleep
<1>3. CASE Insertd(Self, w) /\ k' = Block(k, "RECTIM")
  BY <1>1, <1>3, ExactInsert
<1> QED BY <1>2, <1>3 DEF Recvtime

LEMMA ExactReceive ==
  ASSUME IInv, Exact, Receive
  PROVE  Exact'
<1>1. /\ Self # NULLPROC /\ k.ndefers = 0 /\ SchedInv(k) /\ Self = k.currpid
      /\ k.prstate[Self] = "CURR" /\ \A x \in Pid : k.prstate[x] = "CURR" => x = Self
      /\ UNCHANGED sleepvars
  BY NotDeferred, CurrentFacts, TimerFacts DEF Receive, Calling
<1>2. CASE k' = k
  BY <1>1, <1>2, ExactSame DEF NobodyFallsAsleep
<1>3. CASE k' = Block(k, "RECV")
  <2>1. "RECV" \in PrState \ {"CURR", "READY"}
    BY DEF PrState
  <2>2. /\ k'.prstate[Self] = "RECV"
        /\ \A x \in Pid \ {Self} :
             IF k.prstate[x] = "READY" THEN k'.prstate[x] \in {"CURR", "READY"}
                                       ELSE k'.prstate[x] = k.prstate[x]
    BY <1>1, <1>3, <2>1, BlockInv
  <2>3. NobodyFallsAsleep
    BY <2>2 DEF NobodyFallsAsleep
  <2> QED BY <1>1, <2>3, ExactSame
<1> QED BY <1>2, <1>3 DEF Receive

LEMMA ExactKillEnds ==
  ASSUME IInv, Exact, KillEnds
  PROVE  Exact'
<1>1. PICK p : p = cont[Self].pid
  OBVIOUS
<1>2. Self \in Pid /\ cont \in [Pid -> Cont] /\ cont[Self].op = "kill"
  BY CurrentFacts DEF IInv, Typed, KillEnds
<1>3. p \in Pid /\ p # NULLPROC
  BY <1>1, <1>2 DEF Cont, IInv, LoopDeferred
<1>4. k.ndefers = 0 /\ SchedInv(k) /\ k' = Dies(k, p) /\ Unsleep(p)
  BY <1>1, <1>2, NotDeferred, CurrentFacts DEF KillEnds
<1>5. k'.prstate[p] = "FREE" /\ \A x \in Pid \ {p} : Kept(x)
  <2>1. /\ Dies(k, p).prstate[p] = "FREE"
        /\ \A x \in Pid \ {p} :
             IF k.prstate[x] \in {"CURR", "READY"}
             THEN Dies(k, p).prstate[x] \in {"CURR", "READY"}
             ELSE Dies(k, p).prstate[x] = k.prstate[x]
    BY <1>3, <1>4, DiesInv
  <2> QED BY <1>4, <2>1 DEF Kept
<1>6. NobodyFallsAsleep
  BY <1>5 DEF NobodyFallsAsleep, Kept
<1> QED BY <1>3, <1>4, <1>5, <1>6, ExactUnsleep

LEMMA ExactTick ==
  ASSUME IInv, Exact, cont[Self].op # "wakeup", k' = Tick(k)
  PROVE  NobodyFallsAsleep
<1>1. SchedInv(k) /\ k.ndefers = 0
  BY CurrentFacts, NotDeferred
<1>2. SameButRunning(k, k')
  BY <1>1, TickInv
<1> QED BY <1>2 DEF SameButRunning, NobodyFallsAsleep

LEMMA ClockTickDelay ==
  ASSUME IInv, IInv', Exact, ClockTick
  PROVE  DelayInv'
<1>1. cont[Self].op # "wakeup" /\ SchedInv(k)
  BY TimerFacts, CurrentFacts DEF ClockTick
<1>2. CASE k' = Tick(k) /\ UNCHANGED sleepvars
  <2>1. Exact'
    BY <1>1, <1>2, ExactTick, ExactSame
  <2> QED BY <2>1 DEF Exact, DelayInv
<1>3. CASE /\ sleepq # <<>> /\ Elapse
           /\ delta' = [delta EXCEPT ![Head(sleepq)] = Int32(@ - 1)] /\ UNCHANGED sleepq
           /\ IF delta'[Head(sleepq)] <= 0
              THEN k' = DeferStart(k) /\ Goto("wakeup", Self)
              ELSE k' = Tick(k) /\ UNCHANGED cont
  <2>1. /\ sleepq \in Seq(Pid) /\ Once(sleepq) /\ Head(sleepq) = sleepq[1]
        /\ Consistent(sleepq, delta, due) /\ HeadExact(sleepq, delta, due)
        /\ \A p \in Pid : InQ(sleepq, p) <=> Asleep(p)
    BY <1>3 DEF IInv, Typed, SleepersListed, Exact
  <2>2. PICK dl2, du2 : dl2 = delta' /\ du2 = due'
    OBVIOUS
  <2>3. dl2 = KeysTicked(sleepq, delta)
    BY <1>3, <2>1, <2>2 DEF KeysTicked
  <2>4. du2 = TimesTicked(sleepq, delta, due)
    BY <1>3, <2>1, <2>2 DEF Elapse, TickCounts, TimesTicked
  <2>5. /\ Consistent(sleepq, dl2, du2)
        /\ HeadExact(sleepq, dl2, du2) \/ (HeadLate(sleepq, dl2, du2) /\ dl2[sleepq[1]] <= 0)
        /\ dl2[sleepq[1]] > 0 => \A r \in Pid : InQ(sleepq, r) => du2[r] > 0
    BY <1>3, <2>1, <2>3, <2>4, ElapseConsistent
  <2>6. CASE dl2[sleepq[1]] <= 0
    <3>1. k' = DeferStart(k) /\ Goto("wakeup", Self)
      BY <1>3, <2>1, <2>2, <2>6
    <3>2. k'.currpid = k.currpid
      BY <1>1, <3>1, DeferInv
    <3>3. Self \in Pid /\ cont \in [Pid -> Cont]
      BY CurrentFacts DEF IInv, Typed
    <3>c. PICK c : c = [op |-> "wakeup", pid |-> Self]
      OBVIOUS
    <3>4. c.op = "wakeup" /\ cont' = [cont EXCEPT ![Self] = c]
      BY <3>1, <3>c DEF Goto
    <3>5. cont'[Self'].op = "wakeup"
      BY <3>2, <3>3, <3>4 DEF Self
    <3> QED BY <1>3, <2>2, <2>5, <3>5 DEF DelayInv
  <2>7. CASE dl2[sleepq[1]] > 0
    <3>1. dl2[sleepq[1]] \in Int
      BY <2>1, <2>5, <1>3 DEF Consistent
    <3>2. k' = Tick(k)
      BY <1>3, <2>1, <2>2, <2>7, <3>1
    <3>3. NobodyFallsAsleep
      BY <1>1, <3>2, ExactTick
    <3>4. \A x \in Pid : k'.prstate[x] = "SLEEP" => du2[x] > 0
      BY <2>1, <2>5, <2>7, <3>3 DEF NobodyFallsAsleep, Asleep
    <3>5. HeadExact(sleepq, dl2, du2)
      BY <2>5, <2>7, <3>1
    <3> QED BY <1>3, <2>2, <2>5, <3>4, <3>5 DEF DelayInv, SleepersDue
  <2>8. dl2[sleepq[1]] \in Int
    BY <2>1, <2>5, <1>3 DEF Consistent
  <2> QED BY <2>6, <2>7, <2>8
<1> QED BY <1>2, <1>3 DEF ClockTick

LEMMA WakeupDelay ==
  ASSUME IInv, IInv', DelayInv, WakeupGoesOn
  PROVE  DelayInv'
<1>1. /\ cont[Self].op = "wakeup" /\ k.ndefers = 1 /\ SchedInv(k) /\ k.currpid = Self
      /\ Self \in Pid /\ cont \in [Pid -> Cont]
      /\ sleepq \in Seq(Pid) /\ Once(sleepq) /\ \A p \in Pid : InQ(sleepq, p) <=> Asleep(p)
      /\ Consistent(sleepq, delta, due)
      /\ HeadExact(sleepq, delta, due) \/ HeadLate(sleepq, delta, due)
  BY CurrentFacts
     DEF WakeupGoesOn, IInv, Typed, LoopDeferred, SleepersListed, DelayInv
<1>2. CASE sleepq # <<>> /\ delta[Head(sleepq)] <= 0
  <2>p. PICK p : p = sleepq[1]
    OBVIOUS
  <2>1. p = Head(sleepq) /\ p \in Pid /\ InQ(sleepq, p)
    BY <1>1, <1>2, <2>p, TailQ
  <2>2. /\ k' = Ready(k, p) /\ sleepq' = Tail(sleepq) /\ UNCHANGED cont
        /\ delta' = [delta EXCEPT ![sleepq[1]] = 0] /\ due' = [due EXCEPT ![sleepq[1]] = 0]
    BY <1>2, <2>1, <2>p DEF WakeupGoesOn
  <2>3. delta[sleepq[1]] <= 0
    BY <1>2, <2>1, <2>p
  <2>4. /\ Consistent(Tail(sleepq), [delta EXCEPT ![sleepq[1]] = 0],
                      [due EXCEPT ![sleepq[1]] = 0])
        /\ HeadExact(Tail(sleepq), [delta EXCEPT ![sleepq[1]] = 0],
                     [due EXCEPT ![sleepq[1]] = 0])
    BY <1>1, <1>2, <2>3, TailConsistent
  <2>5. k'.currpid = k.currpid
    <3>1. k.ndefers > 0
      BY <1>1
    <3> QED BY <2>2, <3>1, CurrentFacts DEF Ready, Resched, MakeReady, SchedInv, SchedPre,
                                         SchedType
  <2>6. cont'[Self'].op = "wakeup"
    BY <1>1, <2>2, <2>5 DEF Self
  <2> QED BY <2>2, <2>4, <2>6 DEF DelayInv
<1>3. CASE ~(sleepq # <<>> /\ delta[Head(sleepq)] <= 0)
  <2>1. k' = DeferStop(k) /\ UNCHANGED sleepvars
    BY <1>3 DEF WakeupGoesOn
  <2>2. NobodyFallsAsleep
    BY <1>1, <2>1, DeferInv DEF NobodyFallsAsleep
  <2>m. PICK m \in Nat \ {0} : m = MSB
    BY TimerAssumption
  <2>3. /\ sleepq # <<>> => sleepq[1] \in Pid /\ Head(sleepq) = sleepq[1]
        /\ delta \in [Pid -> Int] /\ due \in [Pid -> 0 .. m - 1]
    BY <1>1, <2>m DEF Consistent
  <2>4. sleepq # <<>> => ~(delta[sleepq[1]] <= 0)
    BY <1>3, <2>3
  <2>5. HeadExact(sleepq, delta, due)
    BY <1>1, <2>4 DEF HeadLate
  <2>6. SleepersDue
    <3> SUFFICES ASSUME NEW x \in Pid, k.prstate[x] = "SLEEP" PROVE due[x] > 0
      BY DEF SleepersDue
    <3>1. PICK j \in 1 .. Len(sleepq) : sleepq[j] = x
      BY <1>1 DEF Asleep, InQ
    <3>n. PICK n \in Nat : n = Len(sleepq)
      BY <1>1
    <3>2. sleepq # <<>> /\ 1 \in 1 .. n /\ j \in 1 .. n
      BY <3>1, <3>n, <1>1
    <3>3. due[sleepq[1]] > 0
      BY <2>3, <2>4, <2>5, <3>2 DEF HeadExact
    <3>4. CASE j = 1
      BY <3>1, <3>3, <3>4
    <3>5. CASE j # 1
      <4>1. 1 < j
        BY <3>2, <3>5
      <4>2. due[sleepq[1]] <= due[sleepq[j]]
        BY <1>1, <3>2, <3>n, <4>1 DEF Consistent
      <4>3. due[sleepq[1]] \in Int /\ due[sleepq[j]] \in Int
        BY <2>3, <3>1, <3>2
      <4> QED BY <3>1, <3>3, <4>2, <4>3
    <3> QED BY <3>4, <3>5
  <2>7. Exact
    BY <1>1, <2>5, <2>6 DEF Exact
  <2>8. Exact'
    BY <2>1, <2>2, <2>7, ExactSame
  <2> QED BY <2>8 DEF Exact, DelayInv
<1> QED BY <1>2, <1>3

LEMMA NextDelayInv ==
  ASSUME Delays \subseteq 0 .. MSB - 1, IInv, IInv', DelayInv, [Next]_vars
  PROVE  DelayInv'
<1>1. CASE WakeupGoesOn
  BY <1>1, WakeupDelay
<1>2. CASE UNCHANGED vars
  BY <1>2 DEF vars, DelayInv, Consistent, HeadExact, HeadLate, SleepersDue, Self
<1>3. CASE Next /\ ~WakeupGoesOn
  <2>1. cont[Self].op # "wakeup"
    <3>1. CASE cont[Self] = InUser
      BY <3>1, TimerFacts
    <3>2. CASE cont[Self] # InUser
      BY <1>3, <3>2 DEF Next, Resume, Send, Kill, Sleep, Recvtime, Receive, ReceiveReturns,
                        Recvclr, KillEnds, ClockTick, ClockReturns, Calling
    <3> QED BY <3>1, <3>2
  <2>2. Exact
    BY <2>1, ExactOutsideWakeup
  <2>3. ASSUME Exact' PROVE DelayInv'
    BY <2>3 DEF Exact, DelayInv
  <2>4. ASSUME NEW p \in UserPid, Resume(p) PROVE DelayInv'
    <3>1. /\ SchedInv(k) /\ p \in Pid /\ k' = Ready(k, p) /\ k.prstate[p] = "SUSP"
          /\ UNCHANGED sleepvars
      BY <2>4, CurrentFacts DEF Resume, UserPid
    <3>2. k'.prstate[p] \in {"CURR", "READY"} /\ \A x \in Pid \ {p} : Kept(x)
      BY <3>1, ReadyInv DEF Kept
    <3>3. NobodyFallsAsleep
      BY <3>2 DEF NobodyFallsAsleep, Kept
    <3> QED BY <2>2, <2>3, <3>1, <3>3, ExactSame
  <2>5. ASSUME NEW p \in UserPid, Send(p) \/ Kill(p) PROVE DelayInv'
    <3>1. PICK r \in Pid : Deliver(r)
      BY <2>5, TimerFacts DEF Send, Kill, UserPid
    <3> QED BY <2>2, <2>3, <3>1, ExactDeliver
  <2>6. ASSUME NEW d \in Delays, Sleep(d) PROVE DelayInv'
    BY <2>2, <2>3, <2>6, ExactSleep
  <2>7. ASSUME NEW w \in Waits, Recvtime(w) PROVE DelayInv'
    BY <2>2, <2>3, <2>7, ExactRecvtime
  <2>8. CASE Receive
    BY <2>2, <2>3, <2>8, ExactReceive
  <2>9. CASE ReceiveReturns \/ Recvclr
    <3>1. k' = k /\ UNCHANGED sleepvars
      BY <2>9 DEF ReceiveReturns, Recvclr
    <3> QED BY <2>2, <2>3, <3>1, ExactSame DEF NobodyFallsAsleep
  <2>10. CASE KillEnds
    BY <2>2, <2>3, <2>10, ExactKillEnds
  <2>11. CASE ClockTick
    BY <2>2, <2>11, ClockTickDelay
  <2>12. CASE ClockReturns
    <3>1. k' = Tick(k) /\ UNCHANGED sleepvars
      BY <2>12 DEF ClockReturns
    <3> QED BY <2>1, <2>2, <2>3, <3>1, ExactTick, ExactSame
  <2> QED BY <1>3, <2>4, <2>5, <2>6, <2>7, <2>8, <2>9, <2>10, <2>11, <2>12 DEF Next
<1> QED BY <1>1, <1>2, <1>3

LEMMA InitDelayInv == Init => DelayInv
<1> SUFFICES ASSUME Init PROVE DelayInv
  OBVIOUS
<1>1. /\ sleepq = <<>> /\ delta = [p \in Pid |-> 0] /\ due = [p \in Pid |-> 0]
      /\ k = SchedCreated(Prio)
  BY DEF Init
<1>m. PICK m \in Nat \ {0} : m = MSB
  BY TimerAssumption
<1>2. 0 \in 0 .. m - 1 /\ 0 \in Int
  OBVIOUS
<1>3. Consistent(sleepq, delta, due) /\ HeadExact(sleepq, delta, due)
  BY <1>1, <1>2, <1>m DEF Consistent, HeadExact
<1>4. \A p \in Pid : k.prstate[p] # "SLEEP"
  <2>1. SleepersListed
    BY InitIInv DEF IInv
  <2> QED BY <1>1, <2>1 DEF SleepersListed, InQ, Asleep
<1> QED BY <1>3, <1>4 DEF DelayInv, SleepersDue

(* Whatever the processes do, and however many there are: the delta list is *)
(* exact about the ticks that count, those no recvtime(0) in front of it    *)
(* swallows, and wakeup() leaves nobody in sleepms() whose time is up       *)
(* (insertd.c, unsleep.c, wakeup.c, clkhandler.c).  The delays are those    *)
(* that fit in the int32 key of insertd(); a longer one becomes negative.   *)
THEOREM DelaysKeptAlways ==
  ASSUME Delays \subseteq 0 .. MSB - 1
  PROVE  Spec => []DelaysKept
<1>1. Init => IInv /\ DelayInv
  BY InitIInv, InitDelayInv
<1>2. IInv /\ DelayInv /\ [Next]_vars => (IInv /\ DelayInv)'
  BY NextIInv, NextDelayInv
<1>3. IInv /\ DelayInv => DelaysKept
  <2> SUFFICES ASSUME IInv, DelayInv, cont[Self].op # "wakeup"
               PROVE  /\ \A i \in 1 .. Len(sleepq) : TimeLeft(i) = due[sleepq[i]]
                      /\ \A p \in Pid : k.prstate[p] = "SLEEP" => due[p] > 0
    BY DEF DelaysKept
  <2>1. Exact /\ sleepq \in Seq(Pid)
    BY ExactOutsideWakeup DEF IInv, Typed
  <2> QED BY <2>1, TimeLeftIs DEF Exact, SleepersDue
<1> QED BY <1>1, <1>2, <1>3, PTL DEF Spec
=============================================================================
