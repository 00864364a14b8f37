------------------------------ MODULE MCPorts ------------------------------
(* A small instance of Ports for TLC. *)
EXTENDS Ports

(* The first port goes through several lives, the other through one. *)
MCMaxSeq == [q \in Port |-> IF q = 0 THEN 3 ELSE 1]
=============================================================================
