------------------------------ MODULE MCIpcServer ------------------------------
(* The manager with one daemon, one authenticator slot and two connections:   *)
(* enough for a pid to pass from a dead child to a new one while the dead     *)
(* one's packets are unread, and for a pipe to close under a reply and be     *)
(* made again at the same address for the other connection.                   *)
EXTENDS IpcServer, TLC

Symmetry == Permutations(Conns) \cup Permutations(Pipes)
=============================================================================
