----------------------------- MODULE RequestReply -----------------------------
(***************************************************************************)
(* What a caller may expect of a call, however it is carried: it is asked  *)
(* once, the service may serve it once, and the caller either gets the     *)
(* answer the service gave to THIS call or is told that it failed.  A call *)
(* that failed may still be served later; nobody sees that answer.         *)
(***************************************************************************)
CONSTANT Calls

VARIABLES
  status,    \* of a call, as its caller sees it
  served,    \* calls the service has answered
  broken     \* the caller's process is gone

vars == <<status, served, broken>>

Init ==
  /\ status = [i \in Calls |-> "unasked"]
  /\ served = {}
  /\ broken = FALSE

Ask(i) ==
  /\ ~broken
  /\ status[i] = "unasked"
  /\ \A j \in Calls : status[j] # "asked"
  /\ status' = [status EXCEPT ![i] = "asked"]
  /\ UNCHANGED <<served, broken>>

Serve(i) ==
  /\ status[i] # "unasked"
  /\ i \notin served
  /\ served' = served \cup {i}
  /\ UNCHANGED <<status, broken>>

Return(i) ==
  /\ status[i] = "asked"
  /\ i \in served
  /\ status' = [status EXCEPT ![i] = "answered"]
  /\ UNCHANGED <<served, broken>>

Fail(i) ==
  /\ status[i] = "asked"
  /\ status' = [status EXCEPT ![i] = "failed"]
  /\ UNCHANGED <<served, broken>>

Break == ~broken /\ broken' = TRUE /\ UNCHANGED <<status, served>>

Next == (\E i \in Calls : Ask(i) \/ Serve(i) \/ Return(i) \/ Fail(i)) \/ Break

Spec == Init /\ [][Next]_vars
=============================================================================
