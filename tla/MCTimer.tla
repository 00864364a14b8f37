------------------------------ MODULE MCTimer ------------------------------
(* Small instances of Timer for TLC. *)
EXTENDS Timer

(* One process outranks the others. *)
MCPrio == [p \in Pid |-> IF p = 2 THEN 2 ELSE 1]
=============================================================================
