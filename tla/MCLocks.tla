------------------------------ MODULE MCLocks ------------------------------
(* Small instances of Locks for TLC. *)
EXTENDS Locks

(* One process outranks the others. *)
MCPrio == [p \in Pid |-> IF p = 2 THEN 2 ELSE 1]

(* All of the same priority. *)
MCSamePrio == [p \in Pid |-> 1]

(* Once a process has taken a lock without waiting, it takes no other. *)
MCOneLock == [p \in Pid |-> 1]

(* Everything is released, or the only lock there is. *)
MCReleases == {<<0, 1>>}
MCReleaseOne == {<<0>>}
=============================================================================
