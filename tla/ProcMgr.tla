------------------------------ MODULE ProcMgr ------------------------------
(***************************************************************************)
(* The process manager: create(), resume(), suspend(), kill() (also as     *)
(* userret()), chprio(), yield(), getting preempted by the clock, and the  *)
(* messages that kill() uses: send(), receive(), recvclr().                *)
(*                                                                         *)
(* One CPU runs; only the current process takes steps.  A call is one step,*)
(* except where the code calls resched() and still has work to do when the *)
(* process gets the CPU back: cont[p] is what p does then, before anything *)
(* else and still with interrupts disabled.  The clock interrupts user code*)
(* only.  No process waits on a semaphore, sleeps or holds a lock here;    *)
(* Semaphores, Timer and Locks have those.                                 *)
(***************************************************************************)
EXTENDS Sched, FiniteSets

CONSTANTS Prios,      \* priorities the workload asks for (0: a bad one)
          NSTK,       \* stacks that getstk() can hand out
          Workload    \* the calls the processes make

Calls == {"create", "resume", "suspend", "kill", "exit", "chprio", "yield",
          "send", "receive", "recvclr",
          "overlap"}   \* not a call: a process may be killed again in the middle of its kill()

ASSUME ProcMgrAssumption == /\ Prios \subseteq Nat
                            /\ NSTK \in Nat
                            /\ Workload \subseteq Calls

VARIABLES k,          \* the scheduler's state (see Sched)
          prparent,   \* proctab[].prparent
          prhasmsg,   \* proctab[].prhasmsg
          prstkbase,  \* proctab[].prstkbase, as the number of a stack
          prcount,    \* currently active processes, as the code counts them
          nextpid,    \* where newpid() looks first
          stkfree,    \* the stacks on the free memory list
          cont,       \* what a process continues with
          halted      \* xdone() was called

vars == <<k, prparent, prhasmsg, prstkbase, prcount, nextpid, stkfree, cont, halted>>

Stacks == 1 .. NSTK
Cont == [op : {"user", "receive", "kill"}, pid : Pid]
InUser == [op |-> "user", pid |-> NULLPROC]

Init ==
  /\ \E prio \in Prios \ {0} : k = SchedInit(prio)
  /\ prparent = [p \in Pid |-> NULLPROC]
  /\ prhasmsg = [p \in Pid |-> FALSE]
  /\ prstkbase = [p \in Pid |-> 1]
  /\ prcount = 2
  /\ nextpid = 2 % NPROC
  /\ stkfree = Stacks \ {1}
  /\ cont = [p \in Pid |-> InUser]
  /\ halted = FALSE

Self == k.currpid
Live(p) == k.prstate[p] # "FREE"

(* The current process is a user process about to make call c. *)
Calling(c) == /\ c \in Workload /\ ~halted
              /\ Self # NULLPROC /\ cont[Self] = InUser

-----------------------------------------------------------------------------
(* newpid(): p is the first free slot, looking round-robin from nextpid. *)
FreeSlots == {p \in Pid : ~Live(p)}
NewPid(p) == /\ p \in FreeSlots
             /\ \A q \in FreeSlots : (p - nextpid) % NPROC <= (q - nextpid) % NPROC

(* create() has taken stack s, and fails without giving it back.  Only a   *)
(* bad priority is found out after newpid() has moved on.                  *)
CreateFails(prio) ==
  /\ \/ FreeSlots = {} /\ UNCHANGED nextpid
     \/ prio < 1 /\ \E p \in FreeSlots : NewPid(p) /\ nextpid' = (p + 1) % NPROC
  /\ UNCHANGED <<k, prparent, prhasmsg, prstkbase, prcount, cont>>

CreateSucceeds(s, prio) ==
  /\ prio >= 1
  /\ \E p \in FreeSlots :
       /\ NewPid(p)
       /\ nextpid' = (p + 1) % NPROC
       /\ k' = [k EXCEPT !.prstate[p] = "SUSP", !.prprio[p] = prio]
       /\ prstkbase' = [prstkbase EXCEPT ![p] = s]
       /\ prparent' = [prparent EXCEPT ![p] = Self]
       /\ prhasmsg' = [prhasmsg EXCEPT ![p] = FALSE]
       /\ cont' = [cont EXCEPT ![p] = InUser]
  /\ prcount' = prcount + 1

Create(prio) ==
  /\ Calling("create")
  /\ \E s \in stkfree :
       /\ \A t \in stkfree : s <= t
       /\ stkfree' = stkfree \ {s}
       /\ CreateFails(prio) \/ CreateSucceeds(s, prio)
  /\ UNCHANGED halted

Resume(p) ==
  /\ Calling("resume")
  /\ k.prstate[p] = "SUSP"
  /\ k' = Ready(k, p)
  /\ UNCHANGED <<prparent, prhasmsg, prstkbase, prcount, nextpid, stkfree, cont, halted>>

Suspend(p) ==
  /\ Calling("suspend")
  /\ p # NULLPROC
  /\ \/ k.prstate[p] = "READY" /\ k' = Withdraw(k, p, "SUSP")
     \/ k.prstate[p] = "CURR" /\ k' = Block(k, "SUSP")
  /\ UNCHANGED <<prparent, prhasmsg, prstkbase, prcount, nextpid, stkfree, cont, halted>>

(* chprio() of a process that holds and awaits no lock. *)
Chprio(p, prio) ==
  /\ Calling("chprio")
  /\ Live(p)
  /\ LET c == [k EXCEPT !.prprio[p] = prio]
     IN k' = IF k.prstate[p] = "READY" THEN Resched(c) ELSE c
  /\ UNCHANGED <<prparent, prhasmsg, prstkbase, prcount, nextpid, stkfree, cont, halted>>

Yield ==
  /\ Calling("yield")
  /\ k' = Resched(k)
  /\ UNCHANGED <<prparent, prhasmsg, prstkbase, prcount, nextpid, stkfree, cont, halted>>

-----------------------------------------------------------------------------
(* send() as the body of a system call: what it does to k and prhasmsg. *)
Delivers(p) == Live(p) /\ ~prhasmsg[p]

(* The receiver is not made ready. *)
BugDeliver(p) ==
  /\ prhasmsg' = IF Delivers(p) THEN [prhasmsg EXCEPT ![p] = TRUE] ELSE prhasmsg
  /\ k' = k

Deliver(p) ==
  /\ prhasmsg' = IF Delivers(p) THEN [prhasmsg EXCEPT ![p] = TRUE] ELSE prhasmsg
  /\ k' = IF Delivers(p) /\ k.prstate[p] = "RECV" THEN Ready(k, p) ELSE k

Send(p) ==
  /\ Calling("send")
  /\ Deliver(p)
  /\ UNCHANGED <<prparent, prstkbase, prcount, nextpid, stkfree, cont, halted>>

Receive ==
  /\ Calling("receive")
  /\ IF prhasmsg[Self]
     THEN prhasmsg' = [prhasmsg EXCEPT ![Self] = FALSE] /\ UNCHANGED <<k, cont>>
     ELSE /\ k' = Block(k, "RECV")
          /\ cont' = [cont EXCEPT ![Self] = [op |-> "receive", pid |-> Self]]
          /\ UNCHANGED prhasmsg
  /\ UNCHANGED <<prparent, prstkbase, prcount, nextpid, stkfree, halted>>

(* receive() after its resched(). *)
ReceiveReturns ==
  /\ ~halted /\ cont[Self].op = "receive"
  /\ prhasmsg' = [prhasmsg EXCEPT ![Self] = FALSE]
  /\ cont' = [cont EXCEPT ![Self] = InUser]
  /\ UNCHANGED <<k, prparent, prstkbase, prcount, nextpid, stkfree, halted>>

Recvclr ==
  /\ Calling("recvclr")
  /\ prhasmsg' = [prhasmsg EXCEPT ![Self] = FALSE]
  /\ UNCHANGED <<k, prparent, prstkbase, prcount, nextpid, stkfree, cont, halted>>

-----------------------------------------------------------------------------
(* The stack is given back before the send() to the parent. *)
BugKillBegins(p) ==
  /\ Live(p) /\ p # NULLPROC
  /\ prcount' = prcount - 1
  /\ IF prcount - 1 <= 1
     THEN halted' = TRUE /\ UNCHANGED <<k, prhasmsg, cont>>
     ELSE /\ Deliver(prparent[p])
          /\ cont' = [cont EXCEPT ![Self] = [op |-> "kill", pid |-> p]]
          /\ UNCHANGED halted
  /\ stkfree' = stkfree \cup {prstkbase[p]}
  /\ UNCHANGED <<prparent, prstkbase, nextpid>>

(* kill() up to and with its send() to the parent, which may be ready to   *)
(* run at once.  The last user process halts the system in xdone().        *)
KillBegins(p) ==
  /\ Live(p) /\ p # NULLPROC
  /\ prcount' = prcount - 1
  /\ IF prcount - 1 <= 1
     THEN halted' = TRUE /\ UNCHANGED <<k, prhasmsg, cont>>
     ELSE /\ Deliver(prparent[p])
          /\ cont' = [cont EXCEPT ![Self] = [op |-> "kill", pid |-> p]]
          /\ UNCHANGED halted
  /\ UNCHANGED <<prparent, prstkbase, nextpid, stkfree>>

InKill == {p \in Pid : Live(p) /\ cont[p].op = "kill"}
MayKill(p) == "overlap" \in Workload \/ \A q \in InKill : cont[q].pid # p

Kill(p) == Calling("kill") /\ MayKill(p) /\ KillBegins(p)

(* userret(): a process returns from its top-level function. *)
Exit == Calling("exit") /\ MayKill(Self) /\ KillBegins(Self)

(* The rest of kill(): the descriptors of the console are closed (nothing  *)
(* to do), the stack goes back, and the victim leaves whatever list its    *)
(* state says it is on.                                                    *)
KillEnds ==
  /\ ~halted /\ cont[Self].op = "kill"
  /\ LET p == cont[Self].pid IN
     /\ stkfree' = stkfree \cup {prstkbase[p]}
     /\ k' = Dies(k, p)
  /\ cont' = [cont EXCEPT ![Self] = InUser]
  /\ UNCHANGED <<prparent, prhasmsg, prstkbase, prcount, nextpid, halted>>

(* clkhandler(), with no process asleep. *)
ClockTick ==
  /\ ~halted /\ cont[Self] = InUser
  /\ k' = Tick(k)
  /\ UNCHANGED <<prparent, prhasmsg, prstkbase, prcount, nextpid, stkfree, cont, halted>>

Halted == halted /\ UNCHANGED vars

Next ==
  \/ \E prio \in Prios : Create(prio)
  \/ \E p \in UserPid : Resume(p) \/ Suspend(p) \/ Send(p) \/ Kill(p)
  \/ \E p \in UserPid, prio \in Prios \ {0} : Chprio(p, prio)
  \/ Yield \/ Receive \/ ReceiveReturns \/ Recvclr \/ Exit \/ KillEnds
  \/ ClockTick \/ Halted

Spec == Init /\ [][Next]_vars

(* The clock keeps interrupting: a tick that comes while interrupts are    *)
(* disabled is taken when they are enabled again.  A process that has the  *)
(* CPU with work of the kernel left to do does it.                         *)
Fairness == SF_vars(ClockTick) /\ WF_vars(ReceiveReturns) /\ WF_vars(KillEnds)
FairSpec == Spec /\ Fairness

-----------------------------------------------------------------------------

(* After every call exactly one process is current, the ready list holds   *)
(* exactly the ready processes, each once and in priority order, and the   *)
(* null process can always run: suspend(), kill() and the messages never   *)
(* leave a process on a list it does not belong to (system/resched.c).     *)
ProcessesListed == SchedInv(k) /\ k.ndefers = 0

(* resched() promises the highest priority eligible process                *)
(* (system/resched.c:8): no ready process outranks the running one.        *)
HighestPriorityRuns == HighestRuns(k)

(* A process blocked in receive() has no message pending: send() and the   *)
(* send() inside kill() never leave one behind without waking it, and      *)
(* whoever returns from receive() does so with a message (system/send.c,   *)
(* system/receive.c).                                                      *)
NoMessageSleptOn ==
  /\ \A p \in Pid : k.prstate[p] = "RECV" => ~prhasmsg[p]
  /\ ~halted /\ cont[Self].op = "receive" => prhasmsg[Self]

(* The same comment taken at the moments when no kill() is under way.      *)
PrcountCountsActive ==
  ~halted /\ InKill = {} => prcount = Cardinality({p \in Pid : Live(p)})

(* A live process runs on a stack of its own that is not free memory:      *)
(* kill() frees the stack before the slot, and create() gives it out again,*)
(* also to a process that runs in the middle of other calls of kill().     *)
StacksOwned ==
  \A p \in UserPid : Live(p) =>
    /\ prstkbase[p] \notin stkfree
    /\ \A q \in UserPid \ {p} : Live(q) => prstkbase[q] # prstkbase[p]

(* The clock shares the CPU round-robin (QUANTUM, system/clkhandler.c): a  *)
(* process on the ready list that no key can pass gets the CPU, or leaves  *)
(* the list, however the others have their priorities changed.             *)
RoundRobin ==
  \A p \in UserPid :
    (k.prstate[p] = "READY" /\ \A prio \in Prios : prio <= k.qkey[p])
      ~> (k.prstate[p] # "READY" \/ halted)
=============================================================================
