------------------------------- MODULE Locks -------------------------------
(***************************************************************************)
(* Reader-writer locks with priority inheritance: lcreate(), ldelete(),    *)
(* lock(), releaseall(), and chprio() and kill() as far as they meet locks.*)
(*                                                                         *)
(* releaseall() and ldelete() call ready() and resched() in their loops    *)
(* without deferring: each may give the CPU away, and cont[p] is what p    *)
(* goes on with.  A process that waited records that it holds the lock     *)
(* only when it runs again (LockReturns).                                  *)
(***************************************************************************)
EXTENDS Sched

CONSTANTS NLOCKS,     \* size of the lock table
          LockPrios,  \* priorities passed to lock()
          NewPrios,   \* priorities passed to chprio()
          MaxLocks,   \* bound: no lock() by a process whose nlocks is there
          Targets,    \* the processes that chprio() and kill() are called for
          Releases,   \* the lists of locks passed to releaseall()
          Prio,       \* the priority each process was created with
          Workload    \* the calls the processes make

Calls == {"resume", "lcreate", "ldelete", "lock", "releaseall", "chprio", "kill"}

Lock == 0 .. NLOCKS - 1

ASSUME LocksAssumption == /\ NLOCKS \in Nat /\ NLOCKS >= 1
                          /\ LockPrios \subseteq Nat /\ NewPrios \subseteq Nat
                          /\ MaxLocks \in [Pid -> Nat]
                          /\ Targets \subseteq UserPid
                          /\ Releases \subseteq Seq(Lock)
                          /\ Prio \in [Pid -> Nat \ {0}]
                          /\ Workload \subseteq Calls

VARIABLES k,          \* the scheduler's state (see Sched)
          locktab,    \* the lock table; plist as a set, lqhead as its queue
          pr,         \* the lock fields of proctab[]; qtype and qkey of waiters;
                      \* own, only for checking: the priority last asked for p
          nextlock,   \* where newlock() looks first
          cont,       \* what a process continues with
          overflow    \* swapPriority() has recursed without end

vars == <<k, locktab, pr, nextlock, cont, overflow>>
lockvars == <<locktab, pr, nextlock, overflow>>

NoLock == -1
Cont == [op : {"user", "lock", "release", "grant", "ldelete"},
         lock : Lock, todo : Seq(Lock)]
InUser == [op |-> "user", lock |-> 0, todo |-> <<>>]

Init ==
  /\ k = SchedCreated(Prio)
  /\ locktab = [l \in Lock |-> [lstate |-> "LFREE", lprio |-> -1, maxWritePrio |-> -1,
                                plist |-> {}, queue |-> <<>>]]
  /\ pr = [p \in Pid |-> [locks |-> {}, nlocks |-> 0, plock |-> NoLock,
                          pwaitret |-> "OK", oprio |-> 0, changed |-> FALSE,
                          type |-> "READ", key |-> 0, own |-> SchedCreated(Prio).prprio[p]]]
  /\ nextlock = NLOCKS - 1
  /\ cont = [p \in Pid |-> InUser]
  /\ overflow = FALSE

Self == k.currpid
Live(p) == k.prstate[p] # "FREE"
Calling(c) == c \in Workload /\ ~overflow /\ Self # NULLPROC /\ cont[Self] = InUser
Continuing(op) == ~overflow /\ cont[Self].op = op
Goto(op, l, todo) == cont' = [cont EXCEPT ![Self] = [op |-> op, lock |-> l, todo |-> todo]]
Return == cont' = [cont EXCEPT ![Self] = InUser]

-----------------------------------------------------------------------------
(* swapPriority(l, p), for each p of S: the holders of l get the priority  *)
(* of those who await it, and so do the holders of the locks they await in *)
(* turn.  A step of the recursion only raises a priority, so that without  *)
(* a cycle the order of the steps does not matter.  A holder that has been *)
(* killed is raised, but the recursion stops there: isbadpid().            *)

(* The processes that await b, as the recursion sees it. *)
Awaiting(kk, f, b) == {p \in Pid : kk.prstate[p] # "FREE" /\ f[p].plock = b}

(* The locks n calls deep in the recursion from l. *)
Chain(kk, tab, f, l) ==
  LET deep[n \in 0 .. NLOCKS] ==
        IF n = 0 THEN {l}
        ELSE {b \in Lock : \E a \in deep[n - 1] : tab[a].plist \cap Awaiting(kk, f, b) # {}}
  IN deep

(* As many calls as there are locks: some lock comes up again, and again.  *)
Endless(kk, tab, f, l) == Chain(kk, tab, f, l)[NLOCKS] # {}

(* The locks that the recursion from l comes to. *)
Met(kk, tab, f, l) == {a \in Lock : \E n \in 0 .. NLOCKS : a \in Chain(kk, tab, f, l)[n]}

(* One call further: a lock that a holder of one of met awaits gets the    *)
(* priority of that one and of the holder.                                 *)
RaiseOnce(kk, tab, f, met, lprio) ==
  [b \in Lock |->
     Max({lprio[b]}
           \cup {lprio[a] : a \in {x \in met : tab[x].plist \cap Awaiting(kk, f, b) # {}}}
           \cup {kk.prprio[h] : h \in {p \in Awaiting(kk, f, b) : \E a \in met : p \in tab[a].plist}})]

(* lprio of every lock when the recursion from l is done. *)
RaisedLprio(kk, tab, f, l, S) ==
  LET met == Met(kk, tab, f, l)
      raised[n \in 0 .. NLOCKS] ==
        IF n = 0
        THEN [b \in Lock |-> IF b = l THEN Max({tab[l].lprio} \cup {kk.prprio[p] : p \in S})
                                      ELSE tab[b].lprio]
        ELSE RaiseOnce(kk, tab, f, met, raised[n - 1])
  IN [b \in Lock |-> IF b \in met THEN raised[NLOCKS][b] ELSE tab[b].lprio]

(* What S awaiting l makes of the scheduler, the lock table and proctab. *)
SwapPriority(kk, tab, f, l, S) ==
  IF l = NoLock \/ S = {} THEN [k |-> kk, tab |-> tab, pr |-> f]
  ELSE LET lprio == RaisedLprio(kk, tab, f, l, S)
           prio  == [h \in Pid |-> Max({kk.prprio[h]} \cup
                                       {lprio[a] : a \in {b \in Met(kk, tab, f, l) : h \in tab[b].plist}})]
       IN [k   |-> [kk EXCEPT !.prprio = prio],
           tab |-> [a \in Lock |-> [tab[a] EXCEPT !.lprio = lprio[a]]],
           pr  |-> [h \in Pid |->
                      IF prio[h] > kk.prprio[h] /\ ~f[h].changed
                      THEN [f[h] EXCEPT !.changed = TRUE, !.oprio = kk.prprio[h]]
                      ELSE f[h]]]

(* The call of swapPriority() returns and leaves w, or overflows the stack.*)
Inherit(kk, tab, f, l, S, Then(_)) ==
  IF l # NoLock /\ S # {} /\ Endless(kk, tab, f, l)
  THEN overflow' = TRUE /\ UNCHANGED <<k, locktab, pr, cont>>
  ELSE Then(SwapPriority(kk, tab, f, l, S)) /\ UNCHANGED overflow

-----------------------------------------------------------------------------
(* newlock(): the first free entry, looking downwards from nextlock. *)
NewLock(l) == /\ locktab[l].lstate = "LFREE"
              /\ \A m \in Lock : locktab[m].lstate = "LFREE"
                   => (nextlock - l) % NLOCKS <= (nextlock - m) % NLOCKS

Lcreate ==
  /\ Calling("lcreate")
  /\ \E l \in Lock :
       /\ NewLock(l)
       /\ locktab' = [locktab EXCEPT ![l].lstate = "LUSED", ![l].lprio = -1,
                                     ![l].plist = {}]
       /\ nextlock' = (l - 1) % NLOCKS
  /\ UNCHANGED <<k, pr, cont, overflow>>

(* The lock is free, or a reader outranks every writer that has waited. *)
Available(l, type, prio) ==
  \/ locktab[l].lstate = "LUSED"
  \/ type = "READ" /\ locktab[l].lstate = "READ_LOCKED" /\ prio > locktab[l].maxWritePrio

(* p notes that it holds l. *)
Takes(tab, l, p) == [tab EXCEPT ![l].plist = @ \cup {p}]
Noted(f, l, p) == [f EXCEPT ![p].locks = @ \cup {l}, ![p].nlocks = @ + 1]

LockAtOnce(l, type) ==
  /\ locktab' = [Takes(locktab, l, Self) EXCEPT
                   ![l].lstate = IF type = "READ" THEN "READ_LOCKED" ELSE "WRITE_LOCKED"]
  /\ pr' = Noted(pr, l, Self)
  /\ UNCHANGED <<k, cont, overflow>>

(* insertlockq(): past the readers of no lower priority, up to a writer. *)
LockqPos(q, key) ==
  CHOOSE i \in 1 .. Len(q) + 1 :
    /\ \A j \in 1 .. i - 1 : pr[q[j]].type = "READ" /\ pr[q[j]].key >= key
    /\ i <= Len(q) => pr[q[i]].type = "WRITE" \/ pr[q[i]].key < key

(* waitLock() up to its resched(). *)
WaitLock(l, type, prio) ==
  LET tab == [locktab EXCEPT
                ![l].maxWritePrio = IF type = "WRITE" /\ prio > @ THEN prio ELSE @,
                ![l].lprio = Max({@, k.prprio[Self]})]
      f == [pr EXCEPT ![Self].plock = l]
      Then(w) ==
        /\ locktab' = [w.tab EXCEPT ![l].queue = InsertAt(@, LockqPos(@, prio), Self)]
        /\ pr' = [w.pr EXCEPT ![Self].pwaitret = "OK", ![Self].type = type, ![Self].key = prio]
        /\ k' = Block(w.k, "WAIT")
        /\ Goto("lock", l, <<>>)
  IN Inherit(k, tab, f, l, {Self}, Then)

LockCall(l, type, prio) ==
  /\ Calling("lock")
  /\ pr[Self].pwaitret # "DELETED" /\ locktab[l].lstate # "LFREE"
  /\ pr[Self].nlocks < MaxLocks[Self]
  /\ IF Available(l, type, prio) THEN LockAtOnce(l, type) ELSE WaitLock(l, type, prio)
  /\ UNCHANGED nextlock

(* waitLock() after its resched(), whether the lock was granted or deleted.*)
LockReturns ==
  /\ Continuing("lock")
  /\ LET l == cont[Self].lock
         Then(w) == k' = w.k /\ locktab' = w.tab /\ pr' = w.pr /\ Return
     IN Inherit(k, Takes(locktab, l, Self), Noted(pr, l, Self), l,
                Awaiting(k, pr, l), Then)
  /\ UNCHANGED nextlock

-----------------------------------------------------------------------------
(* changePrioFlag is not reset. *)
BugResetPrio(kk, f, p) ==
  IF ~f[p].changed \/ f[p].nlocks # 0 THEN [k |-> kk, pr |-> f]
  ELSE [k  |-> [kk EXCEPT !.prprio[p] = f[p].oprio],
        pr |-> [f EXCEPT ![p].oprio = 0, ![p].plock = NoLock]]

(* resetPrio(): a process that has no locks left by its count goes back to *)
(* its own priority; one that has some is raised to what they need.        *)
ResetPrio(kk, f, p) ==
  IF ~f[p].changed THEN [k |-> kk, pr |-> f]
  ELSE IF f[p].nlocks = 0
  THEN [k  |-> [kk EXCEPT !.prprio[p] = f[p].oprio],
        pr |-> [f EXCEPT ![p].oprio = 0, ![p].changed = FALSE, ![p].plock = NoLock]]
  ELSE [k  |-> [kk EXCEPT !.prprio[p] =
                  Max({@} \cup {locktab[m].lprio : m \in {n \in Lock : p \in locktab[n].plist}})],
        pr |-> f]

(* maxWaitQueue(): the lock priority of the first in the queue. *)
MaxWaitQueue(l) ==
  IF locktab[l].queue = <<>> THEN -1 ELSE pr[Head(locktab[l].queue)].key

(* p awaits no lock any more; what it asked for is of no more use. *)
OffQueue(f, p) == [f EXCEPT ![p].plock = NoLock, ![p].type = "READ", ![p].key = 0]

(* A turn of the loop of emptyWaitQueue(): the first in the queue is woken *)
(* and the lock is in the state for it; nothing else says who has it.      *)
Grant(kk, tab, f, l, todo) ==
  LET p == Head(tab[l].queue)
  IN /\ locktab' = [tab EXCEPT
                      ![l].lstate = IF f[p].type = "READ" THEN "READ_LOCKED"
                                                          ELSE "WRITE_LOCKED",
                      ![l].queue = Tail(@)]
     /\ pr' = [OffQueue(f, p) EXCEPT ![p].nlocks = @ - 1]
     /\ k' = Ready(kk, p)
     /\ Goto(IF f[p].type = "READ" THEN "grant" ELSE "release", l, todo)

(* The lock stays locked. *)
BugFreed(tab, f, l) == tab

(* Nobody waits: the lock is free once no process counts it among its own. *)
Freed(tab, f, l) ==
  IF \A p \in Pid : l \notin f[p].locks
  THEN [tab EXCEPT ![l].lstate = "LUSED"] ELSE tab

Releaseall(ls) ==
  /\ Calling("releaseall")
  /\ Goto("release", 0, ls)
  /\ UNCHANGED <<k, lockvars>>

(* releaseall() for one lock, the last of those left. *)
ReleaseOne ==
  /\ Continuing("release") /\ cont[Self].todo # <<>>
  /\ LET l    == Last(cont[Self].todo)
         todo == Front(cont[Self].todo)
         r    == ResetPrio(k, pr, Self)
         tab  == [locktab EXCEPT ![l].lprio = MaxWaitQueue(l), ![l].plist = @ \ {Self}]
         f    == [r.pr EXCEPT ![Self].locks = @ \ {l}]
     IN IF locktab[l].lstate = "LFREE" \/ l \notin pr[Self].locks
        THEN Goto("release", l, todo) /\ UNCHANGED <<k, locktab, pr>>
        ELSE \/ /\ tab[l].plist # {}
                /\ k' = Resched(r.k) /\ locktab' = tab /\ pr' = f
                /\ Goto("release", l, todo)
             \/ /\ tab[l].plist = {} /\ tab[l].queue # <<>>
                /\ Grant(r.k, tab, f, l, todo)
             \/ /\ tab[l].plist = {} /\ tab[l].queue = <<>>
                /\ k' = r.k /\ pr' = f
                /\ locktab' = Freed(tab, f, l)
                /\ Goto("release", l, todo)
  /\ UNCHANGED <<nextlock, overflow>>

(* emptyWaitQueue() after it has woken a reader: the next one, if any. *)
GrantMore ==
  /\ Continuing("grant")
  /\ LET l == cont[Self].lock
         q == locktab[l].queue
     IN IF q # <<>> /\ pr[Head(q)].type = "READ"
        THEN Grant(k, locktab, pr, l, cont[Self].todo)
        ELSE Goto("release", l, cont[Self].todo) /\ UNCHANGED <<k, locktab, pr>>
  /\ UNCHANGED <<nextlock, overflow>>

ReleaseEnds ==
  /\ Continuing("release") /\ cont[Self].todo = <<>>
  /\ k' = Resched(k) /\ Return
  /\ UNCHANGED lockvars

-----------------------------------------------------------------------------
(* ldelete() up to its loop.  The lock is taken away from its holders, but *)
(* proctab[].locks only from the first NLOCKS processes.                   *)
Ldelete(l) ==
  /\ Calling("ldelete")
  /\ locktab[l].lstate # "LFREE"
  /\ locktab' = [locktab EXCEPT ![l] = [@ EXCEPT !.lstate = "LFREE", !.lprio = -1,
                                                 !.maxWritePrio = -1, !.plist = {}]]
  /\ pr' = [p \in Pid |-> IF p < NLOCKS THEN [pr[p] EXCEPT !.locks = @ \ {l}] ELSE pr[p]]
  /\ IF locktab[l].queue = <<>> THEN UNCHANGED cont ELSE Goto("ldelete", l, <<>>)
  /\ UNCHANGED <<k, nextlock, overflow>>

(* A turn of the loop of ldelete(), or its end. *)
LdeleteGoesOn ==
  /\ Continuing("ldelete")
  /\ LET l == cont[Self].lock
         q == locktab[l].queue
     IN IF q # <<>>
        THEN /\ locktab' = [locktab EXCEPT ![l].queue = Tail(@)]
             /\ pr' = [OffQueue(pr, Head(q)) EXCEPT ![Head(q)].pwaitret = "DELETED"]
             /\ k' = Ready(k, Head(q)) /\ UNCHANGED cont
        ELSE k' = Resched(k) /\ Return /\ UNCHANGED <<locktab, pr>>
  /\ UNCHANGED <<nextlock, overflow>>

-----------------------------------------------------------------------------
Resume(p) ==
  /\ Calling("resume") /\ k.prstate[p] = "SUSP"
  /\ k' = Ready(k, p)
  /\ UNCHANGED <<lockvars, cont>>

(* A process that has inherited a priority keeps it if it is higher. *)
Chprio(p, prio) ==
  /\ Calling("chprio") /\ Live(p)
  /\ LET kk == [k EXCEPT !.prprio[p] = IF pr[p].changed THEN Max({@, prio}) ELSE prio]
         f  == [pr EXCEPT ![p].oprio = IF pr[p].changed THEN prio ELSE @, ![p].own = prio]
         Then(w) == /\ k' = IF k.prstate[p] = "READY" THEN Resched(w.k) ELSE w.k
                    /\ locktab' = w.tab /\ pr' = w.pr /\ UNCHANGED cont
     IN Inherit(kk, locktab, f, f[p].plock, {p}, Then)
  /\ UNCHANGED nextlock

(* The victim stays in the queue. *)
BugKill(p) ==
  /\ Calling("kill") /\ Live(p)
  /\ \E q \in UserPid \ {p} : Live(q)
  /\ k' = Dies(k, p)
  /\ UNCHANGED <<locktab, pr, nextlock, cont, overflow>>

(* kill() of a process that is not the last and whose parent is not in     *)
(* receive() (see ProcMgr).  A waiter leaves the queue and awaits nothing; *)
(* what it holds, and what it has been woken to have, it keeps.            *)
Kill(p) ==
  /\ Calling("kill") /\ Live(p)
  /\ \E q \in UserPid \ {p} : Live(q)
  /\ locktab' = IF k.prstate[p] = "WAIT"
                THEN [locktab EXCEPT ![pr[p].plock].queue = Unlink(@, p)] ELSE locktab
  /\ cont' = IF k.prstate[p] = "WAIT" THEN [cont EXCEPT ![p] = InUser] ELSE cont
  /\ k' = Dies(k, p)
  /\ UNCHANGED <<pr, nextlock, overflow>>

ClockTick ==
  /\ ~overflow /\ cont[Self] = InUser
  /\ k' = Tick(k)
  /\ UNCHANGED <<lockvars, cont>>

Overflowed == overflow /\ UNCHANGED vars

Next ==
  \/ Lcreate \/ LockReturns \/ ReleaseOne \/ GrantMore \/ ReleaseEnds \/ LdeleteGoesOn
  \/ \E l \in Lock, t \in {"READ", "WRITE"}, prio \in LockPrios : LockCall(l, t, prio)
  \/ \E ls \in Releases : Releaseall(ls)
  \/ \E l \in Lock : Ldelete(l)
  \/ \E p \in UserPid : Resume(p)
  \/ \E p \in Targets : Kill(p)
  \/ \E p \in Targets, prio \in NewPrios : Chprio(p, prio)
  \/ ClockTick \/ Overflowed

Spec == Init /\ [][Next]_vars

-----------------------------------------------------------------------------

(* A process is in state WAIT exactly while it is, once, on the queue of   *)
(* the lock that plock names, and the ready list is in order all the same: *)
(* the ready() and resched() in the middle of releaseall() and ldelete()   *)
(* lose nobody (system/lab3functions.c, system/ldelete.c).                 *)
WaitersQueued ==
  /\ \A p \in Pid, l \in Lock :
       InQ(locktab[l].queue, p) <=> k.prstate[p] = "WAIT" /\ pr[p].plock = l
  /\ \A l \in Lock : Once(locktab[l].queue)
  /\ SchedInv(k) /\ k.ndefers = 0

(* Processes that count l among their locks; those woken to have it (or to *)
(* learn that it is deleted) that have not run since; those that have yet  *)
(* to go on deleting it.                                                   *)
Claimants(l) == {p \in Pid : l \in pr[p].locks}
Woken(l)     == {p \in Pid : cont[p].op = "lock" /\ cont[p].lock = l /\ k.prstate[p] # "WAIT"}
Deleters(l)  == {p \in Pid : cont[p].op = "ldelete" /\ cont[p].lock = l}

(* A locked lock has a process that is there to release it, and processes  *)
(* wait only for a locked lock or for its deletion: no release leaves the  *)
(* lock behind with nobody to pass it on (system/releaseall.c).  A process *)
(* that is killed with a lock, or in ldelete(), counts: the code takes     *)
(* nothing away from it.                                                   *)
LockedMeansHeld ==
  \A l \in Lock :
    /\ locktab[l].lstate \in {"READ_LOCKED", "WRITE_LOCKED"} => Claimants(l) \cup Woken(l) # {}
    /\ locktab[l].queue # <<>> =>
         locktab[l].lstate \in {"READ_LOCKED", "WRITE_LOCKED"} \/ Deleters(l) # {}

(* Inheritance loses no priority: a process runs with its own, the last    *)
(* one that create() or chprio() asked for, or with a higher one that it   *)
(* has inherited, and then oprio is its own all the while, to go back to,  *)
(* whatever chprio(), other locks, releases and deaths do in between       *)
(* (system/lab3functions.c, system/chprio.c).                              *)
OwnPriorityKept ==
  \A p \in Pid : IF pr[p].changed THEN pr[p].oprio = pr[p].own /\ k.prprio[p] >= pr[p].own
                                  ELSE k.prprio[p] = pr[p].own

(* A lock that is locked for writing has one holder: "lock is not free,    *)
(* place writer in wait queue" (system/lock.c).                            *)
WriterIsAlone ==
  \A l \in Lock : locktab[l].lstate = "WRITE_LOCKED" =>
    \A p, q \in locktab[l].plist : p = q

=============================================================================
