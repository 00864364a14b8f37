---------------------------- MODULE MCSemaphores ----------------------------
(* Small instances of Semaphores for TLC. *)
EXTENDS Semaphores

(* One process outranks the others. *)
MCPrio == [p \in 0 .. 3 |-> IF p = 2 THEN 2 ELSE 1]
=============================================================================
