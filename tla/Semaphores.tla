----------------------------- MODULE Semaphores -----------------------------
(***************************************************************************)
(* Counting semaphores: wait(), signal(), signaln(), semcreate(),          *)
(* semdelete(), semreset(), and kill() of a process that may be waiting.   *)
(*                                                                         *)
(* signaln(), semdelete() and semreset() defer rescheduling and then loop: *)
(* each turn of the loop is a step, cont[p] is the turn to come, and no    *)
(* other process runs in between because resched() is put off.             *)
(***************************************************************************)
EXTENDS Sched, FiniteSets

CONSTANTS NSEM,       \* size of the semaphore table
          Counts,     \* counts the workload asks for
          MaxCount,   \* bound: no signal() past this count
          Prio,       \* the priority of each process
          Workload    \* the calls the processes make

Calls == {"resume", "kill", "wait", "signal", "signaln", "semcreate",
          "semdelete", "semreset"}

ASSUME SemaphoresAssumption == /\ NSEM \in Nat /\ NSEM >= 1
                               /\ Counts \subseteq Nat /\ MaxCount \in Nat
                               /\ Prio \in [Pid -> Nat \ {0}]
                               /\ Workload \subseteq Calls

VARIABLES k,         \* the scheduler's state (see Sched)
          sstate,    \* semtab[].sstate
          scount,    \* semtab[].scount
          squeue,    \* semtab[].squeue, the processes on that queue
          prsem,     \* proctab[].prsem
          nextsem,   \* where newsem() looks first
          cont       \* what a process continues with

vars == <<k, sstate, scount, squeue, prsem, nextsem, cont>>
semvars == <<sstate, scount, squeue, prsem, nextsem>>

Sem == 0 .. NSEM - 1
Loops == {"signaln", "semdelete", "semreset"}
Cont == [op : {"user"} \cup Loops, sem : Sem, n : Nat]
InUser == [op |-> "user", sem |-> 0, n |-> 0]

Init ==
  /\ k = SchedCreated(Prio)
  /\ sstate = [s \in Sem |-> "S_FREE"]
  /\ scount = [s \in Sem |-> 0]
  /\ squeue = [s \in Sem |-> <<>>]
  /\ prsem = [p \in Pid |-> 0]
  /\ nextsem = 0
  /\ cont = [p \in Pid |-> InUser]

Self == k.currpid
Live(p) == k.prstate[p] # "FREE"
Calling(c) == c \in Workload /\ Self # NULLPROC /\ cont[Self] = InUser
Used(s) == sstate[s] = "S_USED"
Goto(op, s, n) == cont' = [cont EXCEPT ![Self] = [op |-> op, sem |-> s, n |-> n]]
Return == cont' = [cont EXCEPT ![Self] = InUser]

-----------------------------------------------------------------------------
(* The queue serves the last to arrive first. *)
BugWait(s) ==
  /\ Calling("wait") /\ Used(s)
  /\ scount' = [scount EXCEPT ![s] = @ - 1]
  /\ \/ scount[s] - 1 >= 0 /\ UNCHANGED <<k, squeue, prsem>>
     \/ /\ scount[s] - 1 < 0
        /\ prsem' = [prsem EXCEPT ![Self] = s]
        /\ squeue' = [squeue EXCEPT ![s] = <<Self>> \o @]
        /\ k' = Block(k, "WAIT")
  /\ UNCHANGED <<sstate, nextsem, cont>>

Wait(s) ==
  /\ Calling("wait") /\ Used(s)
  /\ scount' = [scount EXCEPT ![s] = @ - 1]
  /\ \/ scount[s] - 1 >= 0 /\ UNCHANGED <<k, squeue, prsem>>
     \/ /\ scount[s] - 1 < 0
        /\ prsem' = [prsem EXCEPT ![Self] = s]
        /\ squeue' = [squeue EXCEPT ![s] = Append(@, Self)]
        /\ k' = Block(k, "WAIT")
  /\ UNCHANGED <<sstate, nextsem, cont>>

(* ready(dequeue(squeue)): without effect on an empty queue.  The mutant   *)
(* looks at the head and leaves it there.                                  *)
Awaken(s, kk) == IF squeue[s] = <<>> THEN kk ELSE Ready(kk, Head(squeue[s]))
BugShorten(s) == UNCHANGED squeue
Shorten(s) == squeue' = [squeue EXCEPT ![s] = IF @ = <<>> THEN @ ELSE Tail(@)]

(* The count is tested after it has been incremented. *)
BugIncrement(s) ==
  /\ scount' = [scount EXCEPT ![s] = @ + 1]
  /\ IF scount[s] + 1 < 0 THEN Shorten(s) /\ k' = Awaken(s, k)
                          ELSE UNCHANGED <<squeue, k>>

(* if (scount++ < 0) ready(dequeue(squeue)) *)
Increment(s) ==
  /\ scount' = [scount EXCEPT ![s] = @ + 1]
  /\ IF scount[s] < 0 THEN Shorten(s) /\ k' = Awaken(s, k)
                      ELSE UNCHANGED <<squeue, k>>

Signal(s) ==
  /\ Calling("signal") /\ Used(s) /\ scount[s] < MaxCount
  /\ Increment(s)
  /\ UNCHANGED <<sstate, prsem, nextsem, cont>>

Signaln(s, n) ==
  /\ Calling("signaln") /\ Used(s) /\ scount[s] + n <= MaxCount
  /\ k' = DeferStart(k) /\ Goto("signaln", s, n)
  /\ UNCHANGED semvars

(* A turn of the loop of signaln(), or its end. *)
SignalnGoesOn ==
  /\ cont[Self].op = "signaln"
  /\ LET s == cont[Self].sem
         n == cont[Self].n
     IN \/ n > 0 /\ Increment(s) /\ Goto("signaln", s, n - 1)
        \/ n = 0 /\ k' = DeferStop(k) /\ Return /\ UNCHANGED <<scount, squeue>>
  /\ UNCHANGED <<sstate, prsem, nextsem>>

-----------------------------------------------------------------------------
(* newsem(): s is the first free entry, looking round-robin from nextsem. *)
NewSem(s) == /\ ~Used(s)
             /\ \A t \in Sem : ~Used(t) => (s - nextsem) % NSEM <= (t - nextsem) % NSEM

Semcreate(c) ==
  /\ Calling("semcreate")
  /\ \E s \in Sem : /\ NewSem(s)
                    /\ sstate' = [sstate EXCEPT ![s] = "S_USED"]
                    /\ scount' = [scount EXCEPT ![s] = c]
                    /\ nextsem' = (s + 1) % NSEM
  /\ UNCHANGED <<k, squeue, prsem, cont>>

Semdelete(s) ==
  /\ Calling("semdelete") /\ Used(s)
  /\ sstate' = [sstate EXCEPT ![s] = "S_FREE"]
  /\ k' = DeferStart(k) /\ Goto("semdelete", s, 0)
  /\ UNCHANGED <<scount, squeue, prsem, nextsem>>

(* The last waiter is left behind. *)
BugSemdeleteGoesOn ==
  /\ cont[Self].op = "semdelete"
  /\ LET s == cont[Self].sem
     IN /\ scount' = [scount EXCEPT ![s] = @ + 1]
        /\ \/ /\ scount[s] + 1 < 0
              /\ Shorten(s) /\ k' = Awaken(s, k) /\ UNCHANGED cont
           \/ scount[s] + 1 >= 0 /\ k' = DeferStop(k) /\ Return /\ UNCHANGED squeue
  /\ UNCHANGED <<sstate, prsem, nextsem>>

(* A turn of the loop of semdelete(), or its end. *)
SemdeleteGoesOn ==
  /\ cont[Self].op = "semdelete"
  /\ LET s == cont[Self].sem
     IN /\ scount' = [scount EXCEPT ![s] = @ + 1]
        /\ \/ scount[s] < 0 /\ Shorten(s) /\ k' = Awaken(s, k) /\ UNCHANGED cont
           \/ scount[s] >= 0 /\ k' = DeferStop(k) /\ Return /\ UNCHANGED squeue
  /\ UNCHANGED <<sstate, prsem, nextsem>>

Semreset(s, c) ==
  /\ Calling("semreset") /\ Used(s)
  /\ k' = DeferStart(k) /\ Goto("semreset", s, c)
  /\ UNCHANGED semvars

(* A turn of the loop of semreset(), or its end. *)
SemresetGoesOn ==
  /\ cont[Self].op = "semreset"
  /\ LET s == cont[Self].sem
     IN \/ /\ squeue[s] # <<>>
           /\ Shorten(s) /\ k' = Awaken(s, k) /\ UNCHANGED <<scount, cont>>
        \/ /\ squeue[s] = <<>>
           /\ scount' = [scount EXCEPT ![s] = cont[Self].n]
           /\ k' = DeferStop(k) /\ Return /\ UNCHANGED squeue
  /\ UNCHANGED <<sstate, prsem, nextsem>>

-----------------------------------------------------------------------------
Resume(p) ==
  /\ Calling("resume")
  /\ k.prstate[p] = "SUSP"
  /\ k' = Ready(k, p)
  /\ UNCHANGED <<semvars, cont>>

(* The place in the queue is given up, but not in the count. *)
BugKill(p) ==
  /\ Calling("kill") /\ Live(p)
  /\ \E q \in UserPid \ {p} : Live(q)
  /\ \/ /\ k.prstate[p] = "WAIT"
        /\ squeue' = [squeue EXCEPT ![prsem[p]] = Unlink(@, p)]
        /\ UNCHANGED scount
     \/ k.prstate[p] # "WAIT" /\ UNCHANGED <<scount, squeue>>
  /\ k' = Dies(k, p)
  /\ UNCHANGED <<sstate, prsem, nextsem, cont>>

(* kill() of a process whose parent is not in receive(), so that its       *)
(* send() switches to nobody, and which is not the last (see ProcMgr).     *)
Kill(p) ==
  /\ Calling("kill") /\ Live(p)
  /\ \E q \in UserPid \ {p} : Live(q)
  /\ \/ /\ k.prstate[p] = "WAIT"
        /\ scount' = [scount EXCEPT ![prsem[p]] = @ + 1]
        /\ squeue' = [squeue EXCEPT ![prsem[p]] = Unlink(@, p)]
     \/ k.prstate[p] # "WAIT" /\ UNCHANGED <<scount, squeue>>
  /\ k' = Dies(k, p)
  /\ UNCHANGED <<sstate, prsem, nextsem, cont>>

ClockTick ==
  /\ cont[Self] = InUser
  /\ k' = Tick(k)
  /\ UNCHANGED <<semvars, cont>>

Next ==
  \/ \E s \in Sem : Wait(s) \/ Signal(s) \/ Semdelete(s)
  \/ \E s \in Sem, n \in Counts : Signaln(s, n) \/ Semreset(s, n)
  \/ \E c \in Counts : Semcreate(c)
  \/ SignalnGoesOn \/ SemdeleteGoesOn \/ SemresetGoesOn
  \/ \E p \in UserPid : Resume(p) \/ Kill(p)
  \/ ClockTick

Spec == Init /\ [][Next]_vars

(* The clock keeps interrupting, and a loop once begun is gone through. *)
Fairness == /\ WF_vars(ClockTick) /\ WF_vars(SignalnGoesOn)
            /\ WF_vars(SemdeleteGoesOn) /\ WF_vars(SemresetGoesOn)
FairSpec == Spec /\ Fairness

-----------------------------------------------------------------------------

(* The loop of semreset() has not set the count yet. *)
Resetting(s) == cont[Self].op = "semreset" /\ cont[Self].sem = s

(* A negative count is the number of waiting processes, whatever mixture   *)
(* of waits, signals, deletions, resets and kills led there; a deleted     *)
(* semaphore has no one left (system/wait.c, signal.c, kill.c).            *)
CountIsQueue ==
  \A s \in Sem : ~Resetting(s) =>
    /\ scount[s] < 0  => Len(squeue[s]) = - scount[s]
    /\ scount[s] >= 0 => squeue[s] = <<>>

(* A process is in state WAIT exactly while it is on the queue of the      *)
(* semaphore prsem names, once: nobody is forgotten and nobody woken twice.*)
WaitersQueued ==
  /\ \A p \in Pid, s \in Sem :
       InQ(squeue[s], p) <=> k.prstate[p] = "WAIT" /\ prsem[p] = s
  /\ \A s \in Sem : Once(squeue[s])

(* A semaphore that can be handed out again has no waiters of its previous *)
(* life: semdelete() releases every one of them before anyone else runs.   *)
FreeSemsEmpty ==
  \A s \in Sem : ~Used(s) /\ cont[Self] = InUser => squeue[s] = <<>>

(* Deferral is over when a process is back in its own code, and no ready   *)
(* process then outranks it: the switch that was put off is not forgotten. *)
DeferralEnds == cont[Self] = InUser => k.ndefers = 0 /\ HighestRuns(k)

(* A waiter of a semaphore that is signalled for ever does not wait for    *)
(* ever: the queue is first in, first out (system/queue.c).                *)
SignalledForEver(s) == []<><<Signal(s)>>_vars
WaiterServed ==
  \A s \in Sem, p \in UserPid :
    SignalledForEver(s) =>
      ((k.prstate[p] = "WAIT" /\ prsem[p] = s) ~> k.prstate[p] # "WAIT")

(* The code implements the abstract counting semaphores.                   *)
Abs == INSTANCE CountingSem WITH
         Procs    <- Pid,
         Sems     <- Sem,
         open     <- {s \in Sem : Used(s)},
         draining <- {s \in Sem : Resetting(s)},
         permits  <- [s \in Sem |-> IF Used(s) /\ scount[s] > 0 THEN scount[s] ELSE 0],
         waiting  <- squeue
ImplementsCountingSem == Abs!Spec
=============================================================================
