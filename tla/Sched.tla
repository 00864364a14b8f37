------------------------------- MODULE Sched -------------------------------
(***************************************************************************)
(* The scheduler core of the kernel, as pure operators on one record k     *)
(* that holds the part of the kernel state which ready(), resched() and    *)
(* the clock share:                                                        *)
(*                                                                         *)
(*   currpid    the process that has the CPU            (include/process.h)*)
(*   prstate    proctab[].prstate                       (include/process.h)*)
(*   prprio     proctab[].prprio                        (include/process.h)*)
(*   readylist  the ready list, head first, a queue of queuetab (queue.h)  *)
(*   qkey       queuetab[].qkey of the processes on the ready list         *)
(*   preempt    ticks left of the current time slice    (system/resched.c) *)
(*   ndefers, attempt   the fields of Defer             (system/resched.c) *)
(*                                                                         *)
(* The modules of the components keep k in a variable and build each       *)
(* system call from these operators.  A call runs with interrupts disabled,*)
(* so it is atomic up to a resched() that gives the CPU away.              *)
(***************************************************************************)
EXTENDS Integers, SequencesExt, Queues

CONSTANTS NPROC,    \* size of the process table
          QUANTUM   \* clock ticks in a time slice

ASSUME SchedAssumption == /\ NPROC \in Nat /\ NPROC >= 2
                          /\ QUANTUM \in Nat /\ QUANTUM >= 1

Pid      == 0 .. NPROC - 1
NULLPROC == 0
UserPid  == Pid \ {NULLPROC}

PrState == {"FREE", "CURR", "READY", "RECV", "SLEEP", "SUSP", "WAIT", "RECTIM"}

(* A definition named Bug... is a mutant of the one that follows it: what a *)
(* plausible mistake in the code would make of it.  No specification uses it.*)

(* insert() that stops at the first entry of an equal key. *)
BugInsertPos(q, key, kp) ==
  CHOOSE i \in 1 .. Len(q) + 1 :
    /\ \A j \in 1 .. i - 1 : key[q[j]] > kp
    /\ i <= Len(q) => key[q[i]] <= kp

(* The place insert() stops at: past every entry whose key is not smaller, *)
(* up to the first smaller one (the tail node's key is MINKEY).            *)
InsertPos(q, key, kp) ==
  CHOOSE i \in 1 .. Len(q) + 1 :
    /\ \A j \in 1 .. i - 1 : key[q[j]] >= kp
    /\ i <= Len(q) => key[q[i]] < kp

(* The first half of ready(): mark p ready and insert it by priority. *)
MakeReady(k, p) ==
  [k EXCEPT !.prstate[p] = "READY",
            !.readylist  = InsertAt(@, InsertPos(@, k.qkey, k.prprio[p]), p),
            !.qkey[p]    = k.prprio[p]]

(* currpid = dequeue(readylist), and a fresh time slice. *)
Dispatch(k) ==
  [k EXCEPT !.currpid                      = Head(k.readylist),
            !.prstate[Head(k.readylist)]   = "CURR",
            !.readylist                    = Tail(@),
            !.preempt                      = QUANTUM]

(* The current process remains eligible and beats the first ready one. *)
KeepsCPU(k) ==
  /\ k.prstate[k.currpid] = "CURR"
  /\ k.readylist # <<>> => k.prprio[k.currpid] > k.qkey[Head(k.readylist)]

(* resched() past its test of Defer. *)
Switch(k) ==
  IF KeepsCPU(k) THEN k
  ELSE Dispatch(IF k.prstate[k.currpid] = "CURR" THEN MakeReady(k, k.currpid)
                                                 ELSE k)

Resched(k) == IF k.ndefers > 0 THEN [k EXCEPT !.attempt = TRUE] ELSE Switch(k)

Ready(k, p) == Resched(MakeReady(k, p))

(* resched_cntl(DEFER_START) and resched_cntl(DEFER_STOP). *)
DeferStart(k) == [k EXCEPT !.ndefers = @ + 1,
                           !.attempt = IF k.ndefers = 0 THEN FALSE ELSE @]

(* The attempt made meanwhile is forgotten. *)
BugDeferStop(k) == IF k.ndefers <= 0 THEN k ELSE [k EXCEPT !.ndefers = @ - 1]

DeferStop(k) ==
  LET d == [k EXCEPT !.ndefers = @ - 1]
  IN IF k.ndefers <= 0 THEN k
     ELSE IF d.ndefers = 0 /\ k.attempt THEN Switch(d) ELSE d

(* The current process gives up the CPU in state s. *)
Block(k, s) == Resched([k EXCEPT !.prstate[k.currpid] = s])

(* The process stays linked in the ready list. *)
BugWithdraw(k, p, s) == [k EXCEPT !.prstate[p] = s]

(* A ready process leaves the ready list for state s. *)
Withdraw(k, p, s) ==
  [k EXCEPT !.readylist = Unlink(@, p), !.prstate[p] = s]

(* kill(): p leaves the CPU or the ready list, if it has them, for good. *)
Dies(k, p) ==
  CASE k.prstate[p] = "CURR"  -> Block(k, "FREE")
    [] k.prstate[p] = "READY" -> Withdraw(k, p, "FREE")
    [] OTHER                  -> [k EXCEPT !.prstate[p] = "FREE"]

(* The preemption part of clkhandler(). *)
Tick(k) == IF k.preempt - 1 <= 0 THEN Resched([k EXCEPT !.preempt = QUANTUM])
                                 ELSE [k EXCEPT !.preempt = @ - 1]

(* The state sysinit() leaves, once process 1 has been created by the null *)
(* process and runs at priority prio.                                      *)
SchedInit(prio) ==
  [currpid   |-> 1,
   prstate   |-> [p \in Pid |-> CASE p = NULLPROC -> "READY"
                                  [] p = 1        -> "CURR"
                                  [] OTHER        -> "FREE"],
   prprio    |-> [p \in Pid |-> IF p = 1 THEN prio ELSE 0],
   readylist |-> <<NULLPROC>>,
   qkey      |-> [p \in Pid |-> 0],
   preempt   |-> QUANTUM,
   ndefers   |-> 0,
   attempt   |-> FALSE]

(* Process 1 has created all the others and runs; it has resumed none yet. *)
SchedCreated(prio) ==
  [SchedInit(prio[1]) EXCEPT
     !.prstate = [p \in Pid |-> IF p \in {NULLPROC, 1} THEN @[p] ELSE "SUSP"],
     !.prprio  = [p \in Pid |-> IF p = NULLPROC THEN 0 ELSE prio[p]]]

-----------------------------------------------------------------------------
(* What the scheduler keeps true of k at the end of every kernel call.     *)

SchedType(k) ==
  k \in [currpid : Pid, prstate : [Pid -> PrState], prprio : [Pid -> Nat],
         readylist : Seq(Pid), qkey : [Pid -> Nat], preempt : 1 .. QUANTUM,
         ndefers : Nat, attempt : BOOLEAN]

OnlyCurrentRuns(k) == \A p \in Pid : k.prstate[p] = "CURR" => p = k.currpid

ReadyListExact(k) ==
  /\ \A p \in Pid : k.prstate[p] = "READY"
                      <=> \E i \in 1 .. Len(k.readylist) : k.readylist[i] = p
  /\ \A i, j \in 1 .. Len(k.readylist) :
        k.readylist[i] = k.readylist[j] => i = j

ReadySorted(k) ==
  \A i, j \in 1 .. Len(k.readylist) :
     i < j => k.qkey[k.readylist[i]] >= k.qkey[k.readylist[j]]

NullEligible(k) == k.prstate[NULLPROC] \in {"CURR", "READY"}

(* Holds also between the two halves of a call, before its resched(). *)
SchedPre(k) == /\ SchedType(k)
               /\ OnlyCurrentRuns(k)
               /\ ReadyListExact(k)
               /\ ReadySorted(k)
               /\ NullEligible(k)

SchedInv(k) == SchedPre(k) /\ k.prstate[k.currpid] = "CURR"

(* No ready process has a higher priority than the running one. *)
HighestRuns(k) == \A p \in Pid : k.prstate[p] = "READY"
                                   => k.prprio[k.currpid] >= k.prprio[p]
=============================================================================
