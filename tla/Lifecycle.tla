------------------------------- MODULE Lifecycle -------------------------------
(***************************************************************************)
(* What the supervisor promises of each supervised process, with nothing   *)
(* said of handles, pids, listeners or the registry: a process has a fixed *)
(* number of lives, a life is either lived (Start, then End) or stillborn, *)
(* and the process is given up exactly when its lives are spent.           *)
(***************************************************************************)
EXTENDS Naturals

CONSTANTS
  Process,     \* everything that may be supervised
  Boot,        \* those supervised from the start
  LivesOf(_)   \* the lives a process is given

VARIABLES
  phase,       \* "absent", "due" to be started, or "up"
  spent        \* lives spent since it was admitted, the current one included

vars == <<phase, spent>>

Init ==
  /\ phase = [p \in Process |-> IF p \in Boot THEN "due" ELSE "absent"]
  /\ spent = [p \in Process |-> 0]

Admit(p) ==
  /\ p \notin Boot
  /\ phase[p] = "absent"
  /\ phase' = [phase EXCEPT ![p] = "due"]
  /\ spent' = [spent EXCEPT ![p] = 0]

Start(p) ==
  /\ phase[p] = "due"
  /\ phase' = [phase EXCEPT ![p] = "up"]
  /\ spent' = [spent EXCEPT ![p] = @ + 1]

AfterLife(p, n) == IF n < LivesOf(p) THEN "due" ELSE "absent"

Stillborn(p) ==
  /\ phase[p] = "due"
  /\ spent' = [spent EXCEPT ![p] = @ + 1]
  /\ phase' = [phase EXCEPT ![p] = AfterLife(p, spent[p] + 1)]

End(p) ==
  /\ phase[p] = "up"
  /\ phase' = [phase EXCEPT ![p] = AfterLife(p, spent[p])]
  /\ UNCHANGED spent

Next == \E p \in Process : Admit(p) \/ Start(p) \/ Stillborn(p) \/ End(p)

Spec == Init /\ [][Next]_vars
=============================================================================
