----------------------------- MODULE MCProcMgr -----------------------------
(* Small instances of ProcMgr for TLC. *)
EXTENDS ProcMgr
=============================================================================
