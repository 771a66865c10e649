------------------------------ MODULE MCIpcClient ------------------------------
(* IpcClient with three calls: one that times out, one whose wait meets the   *)
(* late reply of the first, and one after that.                               *)
EXTENDS IpcClient
=============================================================================
