--------------------------- MODULE MCProcSupervisor ---------------------------
(* ProcSupervisor on a small instance: one daemon and two authenticator      *)
(* slots compete for three pids, so pids are handed out again.               *)
EXTENDS ProcSupervisor
=============================================================================
