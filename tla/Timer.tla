------------------------------- MODULE Timer -------------------------------
(***************************************************************************)
(* Sleeping and timed messages: sleepms() (sleep() is 1000 times as many), *)
(* recvtime(), receive(), recvclr(), send(), kill() of a sleeper, and the  *)
(* whole of clkhandler(): the delta list sleepq, wakeup(), the time slice. *)
(*                                                                         *)
(* wakeup() defers rescheduling, loops (a step each turn) and may switch   *)
(* to a woken process before clkhandler() has counted the time slice: the  *)
(* interrupted process does that, cont = "tick", when it runs again.       *)
(***************************************************************************)
EXTENDS Sched

CONSTANTS MSB,        \* the most significant bit of an int32: 2^31 in the code
          Delays,     \* uint32 delays passed to sleepms()
          Waits,      \* int32 times passed to recvtime()
          Prio,       \* the priority of each process
          Workload    \* the calls the processes make

Calls == {"resume", "sleep", "recvtime", "receive", "recvclr", "send", "kill"}

ASSUME TimerAssumption == /\ MSB \in Nat \ {0}
                          /\ Delays \subseteq 0 .. 2 * MSB - 1
                          /\ Waits \subseteq 0 .. MSB - 1
                          /\ Prio \in [Pid -> Nat \ {0}]
                          /\ Workload \subseteq Calls

VARIABLES k,          \* the scheduler's state (see Sched)
          sleepq,     \* the processes on the delta list, first to wake first
          delta,      \* their keys: ms after the one before; 0 off the list
          prhasmsg,   \* proctab[].prhasmsg
          cont,       \* what a process continues with
          due         \* history: ticks that must still count for a sleeper, 0 off the list

vars == <<k, sleepq, delta, prhasmsg, cont, due>>
sleepvars == <<sleepq, delta, due>>

Cont == [op : {"user", "receive", "recvtime", "kill", "wakeup", "tick"}, pid : Pid]
InUser == [op |-> "user", pid |-> NULLPROC]

Init ==
  /\ k = SchedCreated(Prio)
  /\ sleepq = <<>>
  /\ delta = [p \in Pid |-> 0]
  /\ prhasmsg = [p \in Pid |-> FALSE]
  /\ cont = [p \in Pid |-> InUser]
  /\ due = [p \in Pid |-> 0]

Self == k.currpid
Live(p) == k.prstate[p] # "FREE"
Asleep(p) == k.prstate[p] \in {"SLEEP", "RECTIM"}
Calling(c) == c \in Workload /\ Self # NULLPROC /\ cont[Self] = InUser
Goto(op, p) == cont' = [cont EXCEPT ![Self] = [op |-> op, pid |-> p]]

-----------------------------------------------------------------------------
(* What a sum, a difference or an uint32 becomes in an int32. *)
Int32(n) == ((n + MSB) % (2 * MSB)) - MSB

(* What is left of key after the first i entries of the delta list. *)
Left(key) ==
  LET left[i \in 0 .. Len(sleepq)] ==
        IF i = 0 THEN key ELSE Int32(left[i - 1] - delta[sleepq[i]])
  IN left

(* insertd(): p goes before the first entry with more than what is left of *)
(* its key, and takes it from that entry's.  The mutant takes nothing.     *)
BugInsertd(p, key) ==
  LET left == Left(key)
  IN \E i \in 1 .. Len(sleepq) + 1 :
       /\ \A j \in 1 .. i - 1 : delta[sleepq[j]] <= left[j - 1]
       /\ i <= Len(sleepq) => delta[sleepq[i]] > left[i - 1]
       /\ sleepq' = InsertAt(sleepq, i, p)
       /\ delta' = [delta EXCEPT ![p] = left[i - 1]]
       /\ due' = [due EXCEPT ![p] = key]

Insertd(p, key) ==
  LET left == Left(key)
  IN \E i \in 1 .. Len(sleepq) + 1 :
       /\ \A j \in 1 .. i - 1 : delta[sleepq[j]] <= left[j - 1]
       /\ i <= Len(sleepq) => delta[sleepq[i]] > left[i - 1]
       /\ sleepq' = InsertAt(sleepq, i, p)
       /\ delta' = [r \in Pid |->
            CASE r = p -> left[i - 1]
              [] r # p /\ i <= Len(sleepq) /\ r = sleepq[i] -> Int32(delta[r] - left[i - 1])
              [] OTHER -> delta[r]]
       /\ due' = [due EXCEPT ![p] = key]

(* unsleep(): p leaves the delta list early. *)
Unsleep(p) ==
  IF ~Asleep(p) THEN UNCHANGED sleepvars
  ELSE /\ sleepq' = Unlink(sleepq, p)
       /\ delta' = [r \in Pid |->
            CASE r = p -> 0
              [] r # p /\ (\E i \in 1 .. Len(sleepq) - 1 :
                             sleepq[i] = p /\ sleepq[i + 1] = r) -> Int32(delta[r] + delta[p])
              [] OTHER -> delta[r]]
       /\ due' = [due EXCEPT ![p] = 0]

-----------------------------------------------------------------------------
Resume(p) ==
  /\ Calling("resume")
  /\ k.prstate[p] = "SUSP"
  /\ k' = Ready(k, p)
  /\ UNCHANGED <<sleepvars, prhasmsg, cont>>

(* A sleep of no time is put on the delta list like any other. *)
BugSleep(d) ==
  /\ Calling("sleep")
  /\ Insertd(Self, Int32(d)) /\ k' = Block(k, "SLEEP")
  /\ UNCHANGED <<prhasmsg, cont>>

(* sleepms(): with no delay it only yields the CPU. *)
Sleep(d) ==
  /\ Calling("sleep")
  /\ \/ d = 0 /\ k' = Resched(k) /\ UNCHANGED sleepvars
     \/ d # 0 /\ Insertd(Self, Int32(d)) /\ k' = Block(k, "SLEEP")
  /\ UNCHANGED <<prhasmsg, cont>>

Recvtime(w) ==
  /\ Calling("recvtime")
  /\ \/ /\ prhasmsg[Self]
        /\ prhasmsg' = [prhasmsg EXCEPT ![Self] = FALSE]
        /\ UNCHANGED <<k, sleepvars, cont>>
     \/ /\ ~prhasmsg[Self]
        /\ Insertd(Self, w) /\ k' = Block(k, "RECTIM") /\ Goto("recvtime", Self)
        /\ UNCHANGED prhasmsg

Receive ==
  /\ Calling("receive")
  /\ \/ /\ prhasmsg[Self]
        /\ prhasmsg' = [prhasmsg EXCEPT ![Self] = FALSE]
        /\ UNCHANGED <<k, cont>>
     \/ /\ ~prhasmsg[Self]
        /\ k' = Block(k, "RECV") /\ Goto("receive", Self)
        /\ UNCHANGED prhasmsg
  /\ UNCHANGED sleepvars

(* receive() and recvtime() after their resched(): the message, if any     *)
(* arrived before the process got the CPU back, is taken.                  *)
ReceiveReturns ==
  /\ cont[Self].op \in {"receive", "recvtime"}
  /\ prhasmsg' = [prhasmsg EXCEPT ![Self] = FALSE]
  /\ cont' = [cont EXCEPT ![Self] = InUser]
  /\ UNCHANGED <<k, sleepvars>>

Recvclr ==
  /\ Calling("recvclr")
  /\ prhasmsg' = [prhasmsg EXCEPT ![Self] = FALSE]
  /\ UNCHANGED <<k, sleepvars, cont>>

-----------------------------------------------------------------------------
(* send(): one message at a time; a process that waits for it is woken,    *)
(* from the delta list if need be.                                         *)
Deliver(p) ==
  IF ~Live(p) \/ prhasmsg[p] THEN UNCHANGED <<k, prhasmsg, sleepvars>>
  ELSE /\ prhasmsg' = [prhasmsg EXCEPT ![p] = TRUE]
       /\ k' = IF k.prstate[p] \in {"RECV", "RECTIM"} THEN Ready(k, p) ELSE k
       /\ IF k.prstate[p] = "RECTIM" THEN Unsleep(p) ELSE UNCHANGED sleepvars

Send(p) == Calling("send") /\ Deliver(p) /\ UNCHANGED cont

(* kill() up to its send() to the parent, which process 1 is: it created   *)
(* the others.  The victim is not the last process (see ProcMgr for that). *)
Kill(p) ==
  /\ Calling("kill") /\ Live(p)
  /\ \E q \in UserPid \ {p} : Live(q)
  /\ Deliver(IF p = 1 THEN NULLPROC ELSE 1)
  /\ Goto("kill", p)

(* The victim stays on the delta list. *)
BugKillEnds ==
  /\ cont[Self].op = "kill"
  /\ k' = Dies(k, cont[Self].pid)
  /\ cont' = [cont EXCEPT ![Self] = InUser]
  /\ UNCHANGED <<prhasmsg, sleepvars>>

(* The rest of kill(): a sleeper is taken off the delta list. *)
KillEnds ==
  /\ cont[Self].op = "kill"
  /\ Unsleep(cont[Self].pid)
  /\ k' = Dies(k, cont[Self].pid)
  /\ cont' = [cont EXCEPT ![Self] = InUser]
  /\ UNCHANGED prhasmsg

-----------------------------------------------------------------------------
(* A tick counts for every sleeper, unless the first one, in recvtime(0),  *)
(* has no time left to wait: such a tick only makes that one's key         *)
(* negative, and is lost to all the others.  How late a late sleeper is    *)
(* does not matter (bound: -1).                                            *)
TickCounts == delta[Head(sleepq)] > 0
Elapse ==
  due' = [p \in Pid |-> IF Asleep(p) /\ TickCounts /\ due[p] >= 0 THEN due[p] - 1 ELSE due[p]]

(* clkhandler(): the millisecond is counted against the first sleeper and  *)
(* then, unless wakeup() comes first, against the time slice.              *)
ClockTick ==
  /\ cont[Self] = InUser
  /\ \/ sleepq = <<>> /\ k' = Tick(k) /\ UNCHANGED <<sleepvars, cont>>
     \/ /\ sleepq # <<>>
        /\ Elapse
        /\ delta' = [delta EXCEPT ![Head(sleepq)] = Int32(@ - 1)]
        /\ UNCHANGED sleepq
        /\ IF delta'[Head(sleepq)] <= 0
           THEN k' = DeferStart(k) /\ Goto("wakeup", Self)
           ELSE k' = Tick(k) /\ UNCHANGED cont
  /\ UNCHANGED prhasmsg

(* A turn of the loop of wakeup(), or its end. *)
WakeupGoesOn ==
  /\ cont[Self].op = "wakeup"
  /\ IF sleepq # <<>> /\ delta[Head(sleepq)] <= 0
     THEN LET p == Head(sleepq)
          IN /\ sleepq' = Tail(sleepq)
             /\ delta' = [delta EXCEPT ![p] = 0]
             /\ due' = [due EXCEPT ![p] = 0]
             /\ k' = Ready(k, p) /\ UNCHANGED cont
     ELSE k' = DeferStop(k) /\ Goto("tick", Self) /\ UNCHANGED sleepvars
  /\ UNCHANGED prhasmsg

(* clkhandler() after wakeup(). *)
ClockReturns ==
  /\ cont[Self].op = "tick"
  /\ k' = Tick(k)
  /\ cont' = [cont EXCEPT ![Self] = InUser]
  /\ UNCHANGED <<sleepvars, prhasmsg>>

Next ==
  \/ \E p \in UserPid : Resume(p) \/ Send(p) \/ Kill(p)
  \/ \E d \in Delays : Sleep(d)
  \/ \E w \in Waits : Recvtime(w)
  \/ Receive \/ ReceiveReturns \/ Recvclr \/ KillEnds
  \/ ClockTick \/ WakeupGoesOn \/ ClockReturns

Spec == Init /\ [][Next]_vars

(* Kernel work once begun is done.  A clock interrupt that comes while     *)
(* interrupts are disabled stays pending until they are enabled, which     *)
(* happens again and again: strong fairness.                               *)
Fairness == /\ SF_vars(ClockTick) /\ WF_vars(WakeupGoesOn) /\ WF_vars(ClockReturns)
            /\ WF_vars(ReceiveReturns) /\ WF_vars(KillEnds)
FairSpec == Spec /\ Fairness

-----------------------------------------------------------------------------

(* Exactly the sleeping processes and those in recvtime() are on the delta *)
(* list, once: a message, a kill and the clock, in whatever order they     *)
(* come, never leave one behind or take one away twice (system/unsleep.c). *)
SleepersListed ==
  /\ \A p \in Pid : InQ(sleepq, p) <=> Asleep(p)
  /\ Once(sleepq)

(* The wait of the i-th sleeper is the sum of the keys up to its own. *)
TimeLeft(i) ==
  LET sum[j \in 0 .. i] == IF j = 0 THEN 0 ELSE sum[j - 1] + delta[sleepq[j]]
  IN sum[i]

(* The delta list is exact about the ticks that count: no insertion, early *)
(* removal or wake-up of another changes how many of them a process still  *)
(* waits for, and when wakeup() is done nobody in sleepms() is left whose  *)
(* time is up, so that only a process in recvtime(0) can make a tick not   *)
(* count (system/insertd.c, system/unsleep.c, system/wakeup.c).  That such *)
(* ticks are lost and sleeps become longer (system/recvtime.c:27) is not   *)
(* excluded here; SleepEnds shows it.                                      *)
DelaysKept ==
  cont[Self].op # "wakeup" =>
    /\ \A i \in 1 .. Len(sleepq) : TimeLeft(i) = due[sleepq[i]]
    /\ \A p \in Pid : k.prstate[p] = "SLEEP" => due[p] > 0

(* Nobody waits for a message that is there, and receive() never returns   *)
(* without one, although the clock too wakes receivers (system/send.c).    *)
NoMessageSleptOn ==
  /\ \A p \in Pid : k.prstate[p] \in {"RECV", "RECTIM"} => ~prhasmsg[p]
  /\ cont[Self].op = "receive" => prhasmsg[Self]

(* Every sleep and every timed receive ends, unless somebody keeps polling *)
(* with recvtime(0) for ever (system/clkhandler.c, system/wakeup.c).       *)
SleepEndsInTime ==
  <>[][~Recvtime(0)]_vars => \A p \in UserPid : Asleep(p) ~> ~Asleep(p)

(* sleepms() delays the calling process n milliseconds (system/sleep.c),   *)
(* whatever the other processes do: every sleep ends.                      *)
SleepEnds == \A p \in UserPid : k.prstate[p] = "SLEEP" ~> k.prstate[p] # "SLEEP"
=============================================================================
