---------------------------- MODULE CountingSem ----------------------------
(***************************************************************************)
(* What the semaphores promise the processes that use them, without saying *)
(* how: a semaphore has permits or a line of waiters, never both.  V gives *)
(* the first in line what it adds; only V, deletion, reset and the death   *)
(* of a waiter shorten the line.                                           *)
(***************************************************************************)
EXTENDS Naturals, Queues

CONSTANTS Procs, Sems

VARIABLES open,      \* the semaphores in use
          draining,  \* those in the middle of a reset
          permits,   \* how many P go through without waiting
          waiting    \* who waits, in order of arrival

vars == <<open, draining, permits, waiting>>

Init == /\ open = {} /\ draining = {}
        /\ permits = [s \in Sems |-> 0]
        /\ waiting = [s \in Sems |-> <<>>]

Waits(p) == \E s \in Sems : InQ(waiting[s], p)
Usable(s) == s \in open /\ s \notin draining

(* The permits of s become any number. *)
SetsPermits(s) == /\ permits'[s] \in Nat
                  /\ permits' = [permits EXCEPT ![s] = permits'[s]]

Open(s) == /\ s \notin open /\ waiting[s] = <<>>
           /\ open' = open \cup {s}
           /\ SetsPermits(s)
           /\ UNCHANGED <<draining, waiting>>

P(s, p) ==
  /\ Usable(s) /\ ~Waits(p)
  /\ \/ /\ permits[s] > 0
        /\ permits' = [permits EXCEPT ![s] = @ - 1]
        /\ UNCHANGED waiting
     \/ /\ permits[s] = 0
        /\ waiting' = [waiting EXCEPT ![s] = Append(@, p)]
        /\ UNCHANGED permits
  /\ UNCHANGED <<open, draining>>

V(s) ==
  /\ Usable(s)
  /\ \/ /\ waiting[s] = <<>>
        /\ permits' = [permits EXCEPT ![s] = @ + 1]
        /\ UNCHANGED waiting
     \/ /\ waiting[s] # <<>>
        /\ waiting' = [waiting EXCEPT ![s] = Tail(@)]
        /\ UNCHANGED permits
  /\ UNCHANGED <<open, draining>>

(* Deletion and reset let the waiters go one by one. *)
Close(s) == /\ Usable(s)
            /\ open' = open \ {s}
            /\ permits' = [permits EXCEPT ![s] = 0]
            /\ UNCHANGED <<draining, waiting>>

Drain(s) == /\ Usable(s)
            /\ draining' = draining \cup {s}
            /\ UNCHANGED <<open, permits, waiting>>

Release(s) == /\ ~Usable(s) /\ waiting[s] # <<>>
              /\ waiting' = [waiting EXCEPT ![s] = Tail(@)]
              /\ UNCHANGED <<open, draining, permits>>

Refill(s) == /\ s \in draining /\ waiting[s] = <<>>
             /\ draining' = draining \ {s}
             /\ SetsPermits(s)
             /\ UNCHANGED <<open, waiting>>

(* A waiter dies. *)
Drop(s, p) == /\ InQ(waiting[s], p)
              /\ waiting' = [waiting EXCEPT ![s] = Unlink(@, p)]
              /\ UNCHANGED <<open, draining, permits>>

Next == \E s \in Sems :
          \/ Open(s) \/ V(s) \/ Close(s) \/ Drain(s) \/ Release(s) \/ Refill(s)
          \/ \E p \in Procs : P(s, p) \/ Drop(s, p)

Spec == Init /\ [][Next]_vars
=============================================================================
