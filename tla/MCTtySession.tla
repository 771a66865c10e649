------------------------------ MODULE MCTtySession ------------------------------
(* TtySession with two addresses and two descriptors: a second session       *)
(* overlaps the first, or follows it at the same address and tty.            *)
EXTENDS TtySession, TLC

Symmetry == Permutations(Sockets) \cup Permutations(Fds)
=============================================================================
