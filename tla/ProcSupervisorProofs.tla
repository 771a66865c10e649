------------------------- MODULE ProcSupervisorProofs -------------------------
(***************************************************************************)
(* The supervisor's registry and its accounts are right for any number of  *)
(* daemons, authenticators and pids and any limit of failures.             *)
(*                                                                         *)
(* The registry (who is registered under which pid) is not inductive by    *)
(* itself: that a spawn may register its pid without cutting somebody off, *)
(* and a reaped child unregister it, needs that a Proc's handle and the    *)
(* kernel's idea of whose child a pid is agree.  That is Lifeline.  It is  *)
(* the point-wise form of OneLifeline, which follows from it.              *)
(***************************************************************************)
EXTENDS ProcSupervisor, FiniteSetTheorems, SequenceTheorems, TLAPS

Lifeline ==
  /\ \A q \in Pids : owner[q] # Nobody =>
       owner[q] \in processes \ idle /\ handle[owner[q]] = q
  /\ \A p \in processes \ idle : handle[p] \in Pids /\ owner[handle[p]] = p
  /\ \A p \in processes \cap idle : handle[p] = Unspawned
  /\ \A p \in Procs \ processes : p \notin idle /\ handle[p] = NoHandle

ZombiesAreChildren == \A q \in zombies : owner[q] # Nobody

IInv ==
  /\ TypeOK
  /\ ChildIsRegistered
  /\ FreePidIsUnregistered
  /\ Lifeline
  /\ ZombiesAreChildren
  /\ LivesAreCounted

Messages == {"created", "exited"}

\* What a creator is sent is a sequence of messages, and stays one.
LEMMA MessagesAreTyped ==
  ASSUME NEW p \in Procs
  PROVE  /\ Created(p) \in Seq(Messages)
         /\ ExitNotice(p) \in Seq(Messages)
         /\ ExitNotice(p) \o Created(p) \in Seq(Messages)
<1>1. <<>> \in Seq(Messages) /\ <<"created">> \in Seq(Messages)
      /\ <<"exited">> \in Seq(Messages)
  BY DEF Messages
<1>2. Created(p) \in Seq(Messages)
  BY <1>1 DEF Created
<1>3. ExitNotice(p) \in Seq(Messages)
  BY <1>1 DEF ExitNotice
<1> QED
  BY <1>2, <1>3

\* Notify appends to the messages of one creator.
LEMMA NotifyIsTyped ==
  ASSUME NEW p \in Procs, NEW msgs \in Seq(Messages), TypeOK, Notify(p, msgs)
  PROVE  told' \in [Procs -> Seq(Messages)]
BY DEF Notify, TypeOK, Messages

\* When main() enters the loop no child exists and every spawn is queued.
LEMMA InitIInv == Init => IInv
<1> USE SupervisorAssumption DEF Procs, PidValues, NoHandle, Unspawned, FreePids,
        Names, Unregistered, Garbled
<1> SUFFICES ASSUME Init PROVE IInv
  OBVIOUS
<1>1. TypeOK
  BY DEF Init, TypeOK
<1>2. ChildIsRegistered /\ FreePidIsUnregistered
  BY DEF Init, ChildIsRegistered, FreePidIsUnregistered
<1>3. Lifeline /\ ZombiesAreChildren
  BY DEF Init, Lifeline, ZombiesAreChildren
<1>4. LivesAreCounted
  BY DEF Init, LivesAreCounted, Lives, InProgress
<1> QED
  BY <1>1, <1>2, <1>3, <1>4 DEF IInv

\* A fresh authenticator disturbs nothing: it has neither pid nor failures.
LEMMA CreatePreserves ==
  ASSUME IInv, NEW p \in Authenticators, CreateAuthenticator(p)
  PROVE  IInv'
<1> USE SupervisorAssumption DEF Procs, PidValues, NoHandle, Unspawned, IInv
<1>1. TypeOK'
  BY DEF CreateAuthenticator, TypeOK, kernelVars
<1>2. ChildIsRegistered' /\ FreePidIsUnregistered' /\ ZombiesAreChildren'
  BY DEF CreateAuthenticator, ChildIsRegistered, FreePidIsUnregistered,
         ZombiesAreChildren, FreePids, kernelVars
<1>3. Lifeline'
  BY DEF CreateAuthenticator, Lifeline, TypeOK, kernelVars
<1>4. LivesAreCounted'
  BY DEF CreateAuthenticator, LivesAreCounted, Lives, InProgress, TypeOK
<1> QED
  BY <1>1, <1>2, <1>3, <1>4

\* A spawn that succeeds registers a pid that nobody held.
LEMMA SpawnOkPreserves ==
  ASSUME IInv, NEW p \in Procs, NEW q \in Pids, SpawnOk(p, q)
  PROVE  IInv'
<1> USE SupervisorAssumption DEF Procs, PidValues, NoHandle, Unspawned, IInv
<1>0. p \in processes /\ NameOf(p) \in Names
  BY DEF SpawnOk, Lifeline, TypeOK, NameOf, Names
<1>1. TypeOK'
  <2>1. told' \in [Procs -> Seq(Messages)]
    BY MessagesAreTyped, NotifyIsTyped DEF SpawnOk
  <2>2. told' \in [Procs -> Seq({"created", "exited"})]
    BY <2>1 DEF Messages
  <2>3. attempts[p] + 1 \in 0 .. MaxFailures
    BY <1>0 DEF SpawnOk, LivesAreCounted, Lives, InProgress, TypeOK
  <2> QED
    BY <1>0, <2>2, <2>3 DEF SpawnOk, Register, TypeOK
<1>2. ChildIsRegistered' /\ FreePidIsUnregistered' /\ ZombiesAreChildren'
  BY DEF SpawnOk, Register, ChildIsRegistered, FreePidIsUnregistered,
         ZombiesAreChildren, FreePids, TypeOK, NameOf
<1>3. Lifeline'
  BY <1>0 DEF SpawnOk, Lifeline, FreePids, TypeOK
<1>4. LivesAreCounted'
  BY <1>0 DEF SpawnOk, LivesAreCounted, Lives, InProgress, TypeOK
<1> QED
  BY <1>1, <1>2, <1>3, <1>4

\* exited() either runs the Proc again or removes it; both leave the other
\* Procs as they were.  A leaves q, the pid of p's child or of none, free.
LEMMA RerunPreserves ==
  ASSUME IInv, NEW p \in processes, Rerun(p),
         attempts' = [attempts EXCEPT ![p] = failures[p] + 1],
         zombies' \subseteq zombies,
         \A q \in Pids : owner'[q] = IF owner[q] = p THEN Nobody ELSE owner[q],
         owner' \in [Pids -> Procs \cup {Nobody}],
         \A q \in zombies' : owner[q] # p
  PROVE  Lifeline' /\ ZombiesAreChildren' /\ LivesAreCounted'
<1> USE SupervisorAssumption DEF Procs, PidValues, NoHandle, Unspawned, IInv
<1>0. /\ idle' = idle \cup {p}
      /\ processes' = processes
      /\ handle' = [handle EXCEPT ![p] = Unspawned]
      /\ p \in Procs /\ idle \subseteq Procs /\ processes \subseteq Procs
      /\ handle \in [Procs -> PidValues]
      /\ owner \in [Pids -> Procs \cup {Nobody}]
  BY DEF Rerun, TypeOK
<1>1. Lifeline'
  <2>1. ASSUME NEW q \in Pids, owner'[q] # Nobody
        PROVE  owner'[q] \in processes' \ idle' /\ handle'[owner'[q]] = q
    BY <1>0, <2>1 DEF Lifeline
  <2>2. ASSUME NEW r \in processes' \ idle'
        PROVE  handle'[r] \in Pids /\ owner'[handle'[r]] = r
    BY <1>0, <2>2 DEF Lifeline
  <2>3. ASSUME NEW r \in processes' \cap idle'
        PROVE  handle'[r] = Unspawned
    BY <1>0, <2>3 DEF Lifeline
  <2>4. ASSUME NEW r \in Procs \ processes'
        PROVE  r \notin idle' /\ handle'[r] = NoHandle
    BY <1>0, <2>4 DEF Lifeline
  <2> QED
    BY <2>1, <2>2, <2>3, <2>4 DEF Lifeline
<1>2. ZombiesAreChildren'
  BY DEF ZombiesAreChildren, TypeOK
<1>3. LivesAreCounted'
  BY DEF Rerun, RunsAgain, LivesAreCounted, Lives, InProgress, TypeOK
<1> QED
  BY <1>1, <1>2, <1>3

LEMMA RemovePreserves ==
  ASSUME IInv, NEW p \in processes, Remove(p),
         attempts' = [attempts EXCEPT ![p] =
                        IF p \in Daemons THEN failures[p] + 1 ELSE 1],
         zombies' \subseteq zombies,
         \A q \in Pids : owner'[q] = IF owner[q] = p THEN Nobody ELSE owner[q],
         owner' \in [Pids -> Procs \cup {Nobody}],
         \A q \in zombies' : owner[q] # p
  PROVE  Lifeline' /\ ZombiesAreChildren' /\ LivesAreCounted'
<1> USE SupervisorAssumption DEF Procs, PidValues, NoHandle, Unspawned, IInv
<1>0. /\ idle' = idle \ {p}
      /\ processes' = processes \ {p}
      /\ handle' = [handle EXCEPT ![p] = NoHandle]
      /\ p \in Procs /\ idle \subseteq Procs /\ processes \subseteq Procs
      /\ handle \in [Procs -> PidValues]
      /\ owner \in [Pids -> Procs \cup {Nobody}]
  BY DEF Remove, TypeOK
<1>1. Lifeline'
  <2>1. ASSUME NEW q \in Pids, owner'[q] # Nobody
        PROVE  owner'[q] \in processes' \ idle' /\ handle'[owner'[q]] = q
    BY <1>0, <2>1 DEF Lifeline
  <2>2. ASSUME NEW r \in processes' \ idle'
        PROVE  handle'[r] \in Pids /\ owner'[handle'[r]] = r
    BY <1>0, <2>2 DEF Lifeline
  <2>3. ASSUME NEW r \in processes' \cap idle'
        PROVE  handle'[r] = Unspawned
    BY <1>0, <2>3 DEF Lifeline
  <2>4. ASSUME NEW r \in Procs \ processes'
        PROVE  r \notin idle' /\ handle'[r] = NoHandle
    BY <1>0, <2>4 DEF Lifeline
  <2> QED
    BY <2>1, <2>2, <2>3, <2>4 DEF Lifeline
<1>2. ZombiesAreChildren'
  BY DEF ZombiesAreChildren, TypeOK
<1>3. LivesAreCounted'
  BY DEF Remove, RunsAgain, LivesAreCounted, Lives, InProgress, TypeOK
<1> QED
  BY <1>1, <1>2, <1>3

\* The spawn of a Proc fails: it holds no child, so nobody loses one.
LEMMA SpawnFailsPreserves ==
  ASSUME IInv, NEW p \in Procs, NEW q \in PidValues, SpawnFails(p, q)
  PROVE  IInv'
<1> USE SupervisorAssumption DEF IInv
<1>0. /\ p \in processes /\ p \in idle /\ NameOf(p) \in Names
      /\ Garbled \in Names /\ Unregistered \in Names
      /\ q \in FreePids \cup {Unspawned}
      /\ \A r \in Pids : owner[r] # p
  BY DEF SpawnFails, Lifeline, TypeOK, NameOf, Names, Procs, Unregistered
<1>1. /\ failures[p] \in Nat /\ attempts[p] = failures[p]
      /\ attempts[p] < Lives(p)
      /\ p \notin Daemons => failures[p] = 0
  <2>1. /\ failures[p] \in Nat /\ attempts[p] \in Nat
        /\ p \notin Daemons => p \in Authenticators
    BY DEF TypeOK, Procs
  <2>2. InProgress(p) = 0
    BY <1>0 DEF InProgress
  <2> QED
    BY <1>0, <2>1, <2>2 DEF LivesAreCounted, Lives
<1>2. /\ zombies' \subseteq zombies
      /\ \A r \in Pids : owner'[r] = IF owner[r] = p THEN Nobody ELSE owner[r]
      /\ owner' \in [Pids -> Procs \cup {Nobody}]
      /\ \A r \in zombies' : owner[r] # p
  BY <1>0 DEF SpawnFails, kernelVars, TypeOK
<1>3. Lifeline' /\ ZombiesAreChildren' /\ LivesAreCounted'
  <2>1. CASE Rerun(p)
    <3>1. attempts' = [attempts EXCEPT ![p] = failures[p] + 1]
      BY <1>1 DEF SpawnFails
    <3> QED
      BY <2>1, <3>1, <1>0, <1>2, RerunPreserves
  <2>2. CASE Remove(p)
    <3>1. attempts[p] + 1 = IF p \in Daemons THEN failures[p] + 1 ELSE 1
      BY <1>1
    <3>2. attempts' = [attempts EXCEPT ![p] =
                         IF p \in Daemons THEN failures[p] + 1 ELSE 1]
      BY <3>1 DEF SpawnFails
    <3> QED
      BY <2>2, <3>2, <1>0, <1>2, RemovePreserves
  <2> QED
    BY <2>1, <2>2 DEF SpawnFails
<1>4. ChildIsRegistered' /\ FreePidIsUnregistered'
  <2>1. PICK x \in {Unspawned, NoHandle}, y \in Names :
          \/ pidMap' = [pidMap EXCEPT ![q] = Unregistered, ![x] = y]
          \/ pidMap' = [pidMap EXCEPT ![q] = Unregistered]
    BY <1>0 DEF SpawnFails
  <2>2. x \notin Pids /\ pidMap \in [PidValues -> Names]
    BY DEF TypeOK, NoHandle, Unspawned
  <2>3. \A r \in Pids : pidMap'[r] = IF r = q THEN Unregistered ELSE pidMap[r]
    BY <2>1, <2>2 DEF PidValues
  <2> QED
    BY <1>0, <2>3 DEF SpawnFails, ChildIsRegistered, FreePidIsUnregistered,
                      FreePids, kernelVars, Unspawned
<1>5. TypeOK'
  <2>1. told' \in [Procs -> Seq(Messages)]
    BY <1>0, MessagesAreTyped, NotifyIsTyped DEF SpawnFails
  <2>2. told' \in [Procs -> Seq({"created", "exited"})]
    BY <2>1 DEF Messages
  <2>3. /\ attempts' \in [Procs -> 0 .. MaxFailures]
        /\ failures' \in [Procs -> 0 .. MaxFailures]
    <3>1. attempts[p] + 1 \in 0 .. MaxFailures
      BY <1>1 DEF Lives
    <3>2. failures[p] + 1 \in 0 .. MaxFailures /\ failures[p] \in 0 .. MaxFailures
      BY <1>1, <3>1 DEF TypeOK
    <3>3. PICK n \in {failures[p], failures[p] + 1} :
            failures' = [failures EXCEPT ![p] = n]
      BY DEF SpawnFails, Rerun, Remove
    <3>4. attempts' = [attempts EXCEPT ![p] = attempts[p] + 1]
      BY DEF SpawnFails
    <3> QED
      BY <3>1, <3>2, <3>3, <3>4 DEF TypeOK
  <2>4. /\ managerUp' \in BOOLEAN /\ processes' \subseteq Procs
        /\ idle' \subseteq Procs /\ running' \in [Procs -> BOOLEAN]
        /\ handle' \in [Procs -> PidValues]
    BY DEF SpawnFails, Rerun, Remove, TypeOK, PidValues
  <2>5. pidMap' \in [PidValues -> Names]
    BY <1>0 DEF SpawnFails, TypeOK, PidValues
  <2> QED
    BY <1>2, <2>2, <2>3, <2>4, <2>5 DEF SpawnFails, kernelVars, TypeOK
<1> QED
  BY <1>3, <1>4, <1>5

\* A child that exits keeps its pid, and its registration, until it is reaped.
LEMMA ChildExitsPreserves ==
  ASSUME IInv, NEW q \in Pids, ChildExits(q)
  PROVE  IInv'
<1> USE DEF IInv, ChildExits, procVars
<1>1. TypeOK'
  BY DEF TypeOK
<1>2. ChildIsRegistered' /\ FreePidIsUnregistered' /\ ZombiesAreChildren'
  BY DEF ChildIsRegistered, FreePidIsUnregistered, ZombiesAreChildren, FreePids,
         TypeOK
<1>3. Lifeline' /\ LivesAreCounted'
  BY DEF Lifeline, LivesAreCounted, InProgress
<1> QED
  BY <1>1, <1>2, <1>3

\* A child is reaped: the pid unregistered is the child's own.
LEMMA ReapPreserves ==
  ASSUME IInv, NEW q \in Pids, Reap(q)
  PROVE  IInv'
<1> USE SupervisorAssumption DEF IInv
<1> DEFINE p == owner[q]
<1>0. /\ p \in Procs /\ p \in processes /\ p \notin idle /\ handle[p] = q
      /\ \A r \in Pids : owner[r] = p => r = q
      /\ q \in PidValues /\ Unregistered \in Names
  BY DEF Reap, Lifeline, ZombiesAreChildren, TypeOK, PidValues, Names
<1>1. /\ failures[p] \in Nat /\ attempts[p] <= Lives(p)
      /\ attempts[p] = IF p \in Daemons THEN failures[p] + 1 ELSE 1
  <2>1. /\ failures[p] \in Nat /\ attempts[p] \in Nat
        /\ p \notin Daemons => p \in Authenticators
    BY <1>0 DEF TypeOK, Procs
  <2>2. InProgress(p) = 1
    BY <1>0 DEF InProgress
  <2> QED
    BY <1>0, <2>1, <2>2 DEF LivesAreCounted
<1>2. /\ zombies' \subseteq zombies
      /\ \A r \in Pids : owner'[r] = IF owner[r] = p THEN Nobody ELSE owner[r]
      /\ owner' \in [Pids -> Procs \cup {Nobody}]
      /\ \A r \in zombies' : owner[r] # p
  BY <1>0 DEF Reap, TypeOK
<1>3. Lifeline' /\ ZombiesAreChildren' /\ LivesAreCounted'
  <2>0. attempts' = [attempts EXCEPT ![p] = attempts[p]]
    BY DEF Reap, TypeOK
  <2>1. CASE Rerun(p)
    <3>1. attempts' = [attempts EXCEPT ![p] = failures[p] + 1]
      BY <1>1, <2>0, <2>1 DEF Rerun, RunsAgain
    <3> QED
      BY <2>1, <3>1, <1>0, <1>2, RerunPreserves
  <2>2. CASE Remove(p)
    BY <2>0, <2>2, <1>0, <1>1, <1>2, RemovePreserves
  <2> QED
    BY <2>1, <2>2 DEF Reap
<1>4. ChildIsRegistered' /\ FreePidIsUnregistered'
  <2>1. \A r \in Pids : pidMap'[r] = IF r = q THEN Unregistered ELSE pidMap[r]
    BY <1>0 DEF Reap, Unregister, TypeOK, PidValues
  <2> QED
    BY <1>0, <1>2, <2>1 DEF ChildIsRegistered, FreePidIsUnregistered, FreePids
<1>5. TypeOK'
  <2>1. told' \in [Procs -> Seq(Messages)]
    BY <1>0, MessagesAreTyped, NotifyIsTyped DEF Reap, TypeOK, Messages
  <2>2. told' \in [Procs -> Seq({"created", "exited"})]
    BY <2>1 DEF Messages
  <2>3. failures' \in [Procs -> 0 .. MaxFailures]
    <3>1. /\ failures[p] \in 0 .. MaxFailures
          /\ p \in Daemons => failures[p] + 1 \in 0 .. MaxFailures
      BY <1>0, <1>1 DEF Lives, TypeOK
    <3>2. \/ p \in Daemons /\ failures' = [failures EXCEPT ![p] = failures[p] + 1]
          \/ failures' = [failures EXCEPT ![p] = failures[p]]
      BY DEF Reap, Rerun, RunsAgain, Remove
    <3> QED
      BY <3>1, <3>2 DEF TypeOK
  <2>4. /\ managerUp' \in BOOLEAN /\ processes' \subseteq Procs
        /\ idle' \subseteq Procs /\ running' \in [Procs -> BOOLEAN]
        /\ handle' \in [Procs -> PidValues]
    BY <1>0 DEF Reap, Rerun, Remove, TypeOK, PidValues
  <2>5. pidMap' \in [PidValues -> Names]
    BY <1>0 DEF Reap, Unregister, TypeOK
  <2> QED
    BY <1>2, <2>2, <2>3, <2>4, <2>5 DEF Reap, TypeOK
<1> QED
  BY <1>3, <1>4, <1>5

-----------------------------------------------------------------------------

\* The invariant is inductive, action by action.
LEMMA NextPreserves == IInv /\ [Next]_vars => IInv'
<1> SUFFICES ASSUME IInv, [Next]_vars PROVE IInv'
  OBVIOUS
<1>1. ASSUME NEW p \in Authenticators, CreateAuthenticator(p) PROVE IInv'
  BY <1>1, CreatePreserves
<1>2. ASSUME NEW p \in Procs, Spawn(p) PROVE IInv'
  BY <1>2, SpawnOkPreserves, SpawnFailsPreserves DEF Spawn
<1>3. ASSUME NEW q \in Pids, ChildExits(q) \/ Reap(q) PROVE IInv'
  BY <1>3, ChildExitsPreserves, ReapPreserves
<1>4. CASE Aborted \/ UNCHANGED vars
  <2>1. UNCHANGED vars
    BY <1>4 DEF Aborted
  <2> QED
    BY <2>1 DEF vars, procVars, kernelVars, IInv, TypeOK, ChildIsRegistered,
                FreePidIsUnregistered, Lifeline, ZombiesAreChildren,
                LivesAreCounted, InProgress, FreePids
<1> QED
  BY <1>1, <1>2, <1>3, <1>4 DEF Next

\* ... so it holds in every reachable state.
LEMMA Invariance == Spec => []IInv
BY InitIInv, NextPreserves, PTL DEF Spec

\* Every variable keeps its type; in particular no Proc ever fails, or is
\* spawned, more often than the limit allows.
THEOREM TypeCorrect == Spec => []TypeOK
<1>1. IInv => TypeOK
  BY DEF IInv
<1> QED
  BY <1>1, Invariance, PTL

\* A child the kernel still knows is registered under its own service: its
\* calls are routed, whatever other Procs are spawned, lost or removed; and a
\* free pid is registered under none.
THEOREM RegistryStaysExact == Spec => []RegistryIsExact
<1>1. IInv => RegistryIsExact
  BY DEF IInv, RegistryIsExact
<1> QED
  BY <1>1, Invariance, PTL

\* A listed Proc waits for its spawn or has exactly one child; any other has
\* neither.
THEOREM EveryProcHasOneLifeline == Spec => []OneLifeline
<1>1. ASSUME IInv, NEW p \in processes
      PROVE  \/ p \in idle /\ handle[p] = Unspawned /\ Holds(p) = {}
             \/ p \notin idle /\ handle[p] \in Pids /\ Holds(p) = {handle[p]}
  <2>1. \A q \in Pids : owner[q] = p => p \notin idle /\ handle[p] = q
    BY <1>1, SupervisorAssumption DEF IInv, Lifeline, TypeOK
  <2>2. CASE p \in idle
    BY <1>1, <2>1, <2>2 DEF IInv, Lifeline, Holds
  <2>3. CASE p \notin idle
    BY <1>1, <2>1, <2>3 DEF IInv, Lifeline, Holds
  <2> QED
    BY <2>2, <2>3
<1>2. ASSUME IInv, NEW p \in Procs \ processes
      PROVE  p \notin idle /\ handle[p] = NoHandle /\ Holds(p) = {}
  <2>1. \A q \in Pids : owner[q] # p
    BY <1>2, SupervisorAssumption DEF IInv, Lifeline
  <2> QED
    BY <1>2, <2>1 DEF IInv, Lifeline, Holds
<1>3. IInv => OneLifeline
  BY <1>1, <1>2 DEF OneLifeline
<1> QED
  BY <1>3, Invariance, PTL

\* Failures and the life in progress account for every spawn, and there are
\* never more than the lives a Proc is given.
THEOREM LivesAreBounded == Spec => []LivesAreCounted
<1>1. IInv => LivesAreCounted
  BY DEF IInv
<1> QED
  BY <1>1, Invariance, PTL

\* Nobody is given up early: a Proc leaves the list with all its lives spent.
THEOREM NobodyIsGivenUpEarly == Spec => GivesUpOnlyAfterAllLives
<1>1. ASSUME IInv, IInv', [Next]_vars, NEW p \in processes \ processes'
      PROVE  attempts'[p] = Lives(p)
  <2>1. p \in Procs /\ failures[p] \in Nat /\ attempts[p] \in Nat
    BY <1>1 DEF IInv, TypeOK
  <2>2. \/ \E q \in PidValues : SpawnFails(p, q) /\ Remove(p)
        \/ \E q \in Pids : owner[q] = p /\ Reap(q) /\ Remove(p)
    BY <1>1 DEF Next, vars, procVars, CreateAuthenticator, Spawn, SpawnOk,
                SpawnFails, Rerun, Remove, ChildExits, Reap, Aborted
  <2>3. attempts'[p] = failures[p] + 1
    <3>1. CASE p \in idle
      <4>1. \A q \in Pids : owner[q] # p
        BY <1>1, <2>1, <3>1, SupervisorAssumption DEF IInv, Lifeline
      <4>2. attempts' = [attempts EXCEPT ![p] = attempts[p] + 1]
        BY <2>2, <4>1 DEF SpawnFails
      <4>3. attempts'[p] = attempts[p] + 1
        BY <1>1, <2>1, <4>2 DEF IInv, TypeOK
      <4> QED
        BY <1>1, <2>1, <3>1, <4>3 DEF IInv, LivesAreCounted, InProgress
    <3>2. CASE p \notin idle
      <4>1. attempts'[p] = attempts[p]
        BY <2>2, <3>2 DEF SpawnFails, Reap
      <4> QED
        BY <1>1, <2>1, <3>2, <4>1 DEF IInv, LivesAreCounted, InProgress
    <3> QED
      BY <3>1, <3>2
  <2>4. failures[p] < Lives(p) /\ ~RunsAgain(p)
        /\ (p \notin Daemons => failures[p] = 0)
    BY <1>1, <2>1, <2>2 DEF IInv, LivesAreCounted, Remove, Procs
  <2> QED
    BY <2>1, <2>3, <2>4, SupervisorAssumption DEF RunsAgain, Lives
<1>2. IInv /\ IInv' /\ [Next]_vars =>
        [\A p \in processes \ processes' : attempts'[p] = Lives(p)]_vars
  BY <1>1
<1> QED
  BY <1>2, Invariance, NextPreserves, PTL DEF Spec, GivesUpOnlyAfterAllLives

-----------------------------------------------------------------------------
(* What the creator of an authenticator hears.                              *)

\* An authenticator has one life, so what its creator was told is known from
\* where that life is; the exit comes first if the spawn failed, and an abort
\* may keep the reply from it.
Hears(p) ==
  /\ attempts[p] = 0 => told[p] = <<>>
  /\ p \in processes /\ attempts[p] > 0 => told[p] = <<"created">>
  /\ p \notin processes /\ attempts[p] > 0 =>
       \/ told[p] = <<"created", "exited">>
       \/ told[p] = <<"exited", "created">>
       \/ told[p] = <<"exited">> /\ ~managerUp

CreatorsHear == \A p \in Authenticators : Hears(p)

\* How often a message is heard in what can have been told.
LEMMA HeardIs ==
  ASSUME NEW p
  PROVE  /\ told[p] = <<>> =>
              Heard(p, "created") = 0 /\ Heard(p, "exited") = 0
         /\ told[p] = <<"created">> =>
              Heard(p, "created") = 1 /\ Heard(p, "exited") = 0
         /\ told[p] = <<"exited">> =>
              Heard(p, "created") = 0 /\ Heard(p, "exited") = 1
         /\ told[p] \in {<<"created", "exited">>, <<"exited", "created">>} =>
              Heard(p, "created") = 1 /\ Heard(p, "exited") = 1
<1> DEFINE At(m) == {i \in DOMAIN told[p] : told[p][i] = m}
<1>1. /\ \A m : At(m) = {} => Heard(p, m) = 0
      /\ \A m, i : At(m) = {i} => Heard(p, m) = 1
  BY FS_EmptySet, FS_Singleton DEF Heard
<1>2. ASSUME told[p] = <<>>
      PROVE  At("created") = {} /\ At("exited") = {}
  BY <1>2
<1>3. ASSUME told[p] = <<"created">>
      PROVE  At("created") = {1} /\ At("exited") = {}
  BY <1>3
<1>4. ASSUME told[p] = <<"exited">>
      PROVE  At("created") = {} /\ At("exited") = {1}
  BY <1>4
<1>5. ASSUME told[p] = <<"created", "exited">>
      PROVE  At("created") = {1} /\ At("exited") = {2}
  BY <1>5
<1>6. ASSUME told[p] = <<"exited", "created">>
      PROVE  At("created") = {2} /\ At("exited") = {1}
  BY <1>6
<1> HIDE DEF At
<1> QED
  BY <1>1, <1>2, <1>3, <1>4, <1>5, <1>6

\* Two messages, one after the other.
LEMMA PairIs == ASSUME NEW a, NEW b PROVE <<a>> \o <<b>> = <<a, b>>
<1> DEFINE S == {a, b}
           s == <<a>> \o <<b>>
           t == <<a, b>>
<1>1. <<a>> \in Seq(S) /\ <<b>> \in Seq(S) /\ t \in Seq(S)
  OBVIOUS
<1>2. s \in Seq(S) /\ Len(s) = 2 /\ s[1] = a /\ s[2] = b
  BY <1>1
<1>3. Len(t) = 2 /\ t[1] = a /\ t[2] = b
  OBVIOUS
<1> HIDE DEF s, t
<1>4. \A i \in 1 .. 2 : s[i] = t[i]
  BY <1>2, <1>3
<1> QED
  BY <1>1, <1>2, <1>3, <1>4, SeqEqual DEF s, t

\* A step that leaves an authenticator alone, whatever becomes of the manager.
LEMMA HearsTheSame ==
  ASSUME NEW p, Hears(p), told'[p] = told[p], attempts'[p] = attempts[p],
         p \in processes' <=> p \in processes, ~managerUp => ~managerUp'
  PROVE  Hears(p)'
BY DEF Hears

\* Each listener of the supervisor tells the creator what it must.
LEMMA NextTells ==
  ASSUME IInv, CreatorsHear, [Next]_vars
  PROVE  CreatorsHear'
<1> USE SupervisorAssumption DEF IInv
<1> SUFFICES ASSUME NEW a \in Authenticators PROVE Hears(a)'
  BY DEF CreatorsHear
<1>1. /\ a \in Procs /\ a \notin Daemons /\ Hears(a) /\ attempts[a] \in Nat
      /\ told \in [Procs -> Seq({"created", "exited"})]
      /\ attempts \in [Procs -> 0 .. MaxFailures]
  BY DEF CreatorsHear, Procs, TypeOK
<1>2. /\ a \in processes => attempts[a] = InProgress(a)
      /\ a \notin processes => a \notin idle
  <2>1. /\ failures[a] = 0
        /\ a \in processes => attempts[a] = failures[a] + InProgress(a)
    BY <1>1 DEF LivesAreCounted
  <2>2. a \notin processes => a \notin idle
    BY <1>1 DEF Lifeline
  <2> QED
    BY <2>1, <2>2 DEF InProgress
<1>3. ASSUME NEW p \in Authenticators, CreateAuthenticator(p)
      PROVE  Hears(a)'
  <2>1. CASE p = a
    BY <1>1, <1>3, <2>1 DEF CreateAuthenticator, Hears
  <2>2. CASE p # a
    BY <1>1, <1>3, <2>2, HearsTheSame DEF CreateAuthenticator, Procs
  <2> QED
    BY <2>1, <2>2
<1>4. ASSUME NEW p \in Procs, NEW q \in Pids, SpawnOk(p, q)
      PROVE  Hears(a)'
  <2>1. CASE p = a
    <3>1. a \in processes /\ attempts[a] = 0 /\ told[a] = <<>>
      BY <1>1, <1>2, <1>4, <2>1 DEF SpawnOk, InProgress, Hears
    <3>2. Created(a) = <<"created">>
      BY <3>1 DEF Created, HasCallback
    <3>3. told'[a] = <<>> \o <<"created">>
      BY <1>1, <1>4, <2>1, <3>1, <3>2 DEF SpawnOk, Notify
    <3>4. /\ told'[a] = <<"created">> /\ attempts'[a] = 1
          /\ a \in processes'
      BY <1>1, <1>4, <2>1, <3>1, <3>3 DEF SpawnOk
    <3> QED
      BY <3>4 DEF Hears
  <2>2. CASE p # a
    BY <1>1, <1>4, <2>2, HearsTheSame DEF SpawnOk, Notify
  <2> QED
    BY <2>1, <2>2
<1>5. ASSUME NEW p \in Procs, NEW q \in PidValues, SpawnFails(p, q)
      PROVE  Hears(a)'
  <2>1. CASE p = a
    <3>1. a \in processes /\ attempts[a] = 0 /\ told[a] = <<>>
      BY <1>1, <1>2, <1>5, <2>1 DEF SpawnFails, InProgress, Hears
    <3>2. Created(a) = <<"created">> /\ ExitNotice(a) = <<"exited">>
      BY <3>1 DEF Created, HasCallback, ExitNotice
    <3>3. Remove(a)
      BY <1>1, <1>5, <2>1 DEF SpawnFails, Rerun, RunsAgain
    <3>4. \/ told'[a] = <<>> \o <<"exited">> /\ ~managerUp'
          \/ told'[a] = <<>> \o (<<"exited">> \o <<"created">>)
      BY <1>1, <1>5, <2>1, <3>1, <3>2 DEF SpawnFails, Rerun, RunsAgain, Notify
    <3>5. \/ told'[a] = <<"exited">> /\ ~managerUp'
          \/ told'[a] = <<"exited", "created">>
      BY <3>4, PairIs
    <3>6. attempts'[a] = 1 /\ a \notin processes'
      BY <1>1, <1>5, <2>1, <3>1, <3>3 DEF SpawnFails, Remove
    <3> QED
      BY <3>5, <3>6 DEF Hears
  <2>2. CASE p # a
    <3>1. told'[a] = told[a] /\ attempts'[a] = attempts[a]
      BY <1>1, <1>5, <2>2 DEF SpawnFails, Notify
    <3>2. a \in processes' <=> a \in processes
      BY <1>5, <2>2 DEF SpawnFails, Rerun, Remove
    <3> QED
      BY <1>1, <1>5, <3>1, <3>2, HearsTheSame DEF SpawnFails
  <2> QED
    BY <2>1, <2>2
<1>6. ASSUME NEW q \in Pids, ChildExits(q)
      PROVE  Hears(a)'
  BY <1>1, <1>6, HearsTheSame DEF ChildExits, procVars
<1>7. ASSUME NEW q \in Pids, Reap(q)
      PROVE  Hears(a)'
  <2>1. CASE owner[q] = a
    <3>1. a \in processes /\ attempts[a] = 1 /\ told[a] = <<"created">>
      <4>1. a \in processes \ idle
        BY <1>1, <1>7, <2>1 DEF Reap, Lifeline, ZombiesAreChildren, TypeOK
      <4> QED
        BY <1>1, <1>2, <4>1 DEF InProgress, Hears
    <3>2. Remove(a) /\ Notify(a, <<"exited">>)
      BY <1>1, <1>7, <2>1 DEF Reap, Rerun, RunsAgain, ExitNotice
    <3>3. told'[a] = <<"created">> \o <<"exited">>
      BY <1>1, <3>1, <3>2 DEF Notify
    <3>4. told'[a] = <<"created", "exited">>
      BY <3>3, PairIs, Zenon
    <3>5. attempts'[a] = 1 /\ a \notin processes'
      BY <1>7, <3>1, <3>2 DEF Reap, Remove
    <3> QED
      BY <3>4, <3>5 DEF Hears
  <2>2. CASE owner[q] # a
    <3>1. told'[a] = told[a] /\ attempts'[a] = attempts[a]
      BY <1>1, <1>7, <2>2 DEF Reap, Notify
    <3>2. a \in processes' <=> a \in processes
      BY <1>7, <2>2 DEF Reap, Rerun, Remove
    <3> QED
      BY <1>1, <1>7, <3>1, <3>2, HearsTheSame DEF Reap
  <2> QED
    BY <2>1, <2>2
<1>8. CASE Aborted \/ UNCHANGED vars
  BY <1>1, <1>8, HearsTheSame DEF Aborted, vars, procVars
<1> QED
  BY <1>3, <1>4, <1>5, <1>6, <1>7, <1>8 DEF Next, Spawn

\* What was told is what CreatorHearsOnce counts.
LEMMA HearingIsOnce == IInv /\ CreatorsHear => CreatorHearsOnce
<1> SUFFICES ASSUME IInv, CreatorsHear, NEW p \in Authenticators
             PROVE  /\ Heard(p, "created") <= 1
                    /\ attempts[p] = 0 => told[p] = <<>>
                    /\ p \in processes => Heard(p, "exited") = 0
                    /\ p \notin processes /\ attempts[p] > 0 =>
                         Heard(p, "exited") = 1
                    /\ attempts[p] > 0 /\ managerUp => Heard(p, "created") = 1
  BY DEF CreatorHearsOnce
<1>1. Hears(p) /\ attempts[p] \in Nat
  BY DEF CreatorsHear, IInv, TypeOK, Procs
<1>2. CASE attempts[p] = 0
  BY <1>1, <1>2, HeardIs DEF Hears
<1>3. CASE attempts[p] > 0 /\ p \in processes
  BY <1>1, <1>3, HeardIs DEF Hears
<1>4. CASE attempts[p] > 0 /\ p \notin processes
  <2>1. CASE told[p] = <<"exited">> /\ ~managerUp
    BY <1>4, <2>1, HeardIs
  <2>2. CASE told[p] \in {<<"created", "exited">>, <<"exited", "created">>}
    BY <1>4, <2>2, HeardIs
  <2> QED
    BY <1>1, <1>4, <2>1, <2>2 DEF Hears
<1> QED
  BY <1>1, <1>2, <1>3, <1>4

\* The creator of an authenticator hears once that it was created and once
\* that it has gone, for any number of authenticators whose slots are used
\* again: an exit is reported once, and only when the Proc has gone.
THEOREM CreatorsHearOnce == Spec => []CreatorHearsOnce
<1>1. Init => CreatorsHear
  BY SupervisorAssumption DEF Init, CreatorsHear, Hears, Procs
<1>2. IInv /\ CreatorsHear /\ [Next]_vars => CreatorsHear'
  BY NextTells
<1> QED
  BY <1>1, <1>2, HearingIsOnce, Invariance, PTL DEF Spec

-----------------------------------------------------------------------------
(* The supervisor implements the abstract lifecycle.                        *)

Phases == [r \in Procs |-> PhaseOf(r)]

\* CreateAuthenticatorCall admits a process to the lifecycle.
LEMMA CreateIsAdmit ==
  ASSUME IInv, NEW p \in Authenticators, CreateAuthenticator(p)
  PROVE  Life!Admit(p)
<1> USE SupervisorAssumption DEF IInv
<1>1. p \in Procs /\ p \notin Daemons /\ p \notin processes
  BY DEF CreateAuthenticator, Procs
<1>2. Phases' = [Phases EXCEPT ![p] = "due"]
  BY <1>1 DEF CreateAuthenticator, Phases, PhaseOf
<1>3. Phases[p] = "absent"
  BY <1>1 DEF Phases, PhaseOf
<1> QED
  BY <1>1, <1>2, <1>3 DEF Life!Admit, CreateAuthenticator, Phases

\* A spawn that succeeds starts a life.
LEMMA SpawnOkIsStart ==
  ASSUME IInv, NEW p \in Procs, NEW q \in Pids, SpawnOk(p, q)
  PROVE  Life!Start(p)
<1>1. p \in processes /\ p \in idle
  BY DEF SpawnOk, IInv, Lifeline
<1>2. Phases' = [Phases EXCEPT ![p] = "up"]
  BY <1>1 DEF SpawnOk, Phases, PhaseOf
<1>3. Phases[p] = "due"
  BY <1>1 DEF Phases, PhaseOf
<1> QED
  BY <1>2, <1>3 DEF Life!Start, SpawnOk, Phases

\* What exited() decides is what is left of the lives.
LEMMA ExitedIsAfterLife ==
  ASSUME IInv, NEW p \in processes, Rerun(p) \/ Remove(p)
  PROVE  Phases' = [Phases EXCEPT ![p] = Life!AfterLife(p, failures[p] + 1)]
<1> USE SupervisorAssumption DEF IInv
<1>1. p \in Procs /\ failures[p] \in Nat /\ (p \notin Daemons => failures[p] = 0)
  BY DEF TypeOK, LivesAreCounted, Procs
<1>2. RunsAgain(p) <=> failures[p] + 1 < Lives(p)
  BY <1>1 DEF RunsAgain, Lives
<1>3. CASE Rerun(p)
  <2>1. Life!AfterLife(p, failures[p] + 1) = "due"
    BY <1>2, <1>3 DEF Life!AfterLife, Rerun
  <2> QED
    BY <1>1, <1>3, <2>1 DEF Rerun, Phases, PhaseOf
<1>4. CASE Remove(p)
  <2>1. Life!AfterLife(p, failures[p] + 1) = "absent"
    BY <1>2, <1>4 DEF Life!AfterLife, Remove
  <2> QED
    BY <1>1, <1>4, <2>1 DEF Remove, Phases, PhaseOf
<1> QED
  BY <1>3, <1>4

\* A spawn that fails, and the exited() nested in it, is a stillborn life.
LEMMA SpawnFailsIsStillborn ==
  ASSUME IInv, NEW p \in Procs, NEW q \in PidValues, SpawnFails(p, q)
  PROVE  Life!Stillborn(p)
<1>1. p \in processes /\ p \in idle
  BY DEF SpawnFails, IInv, Lifeline
<1>2. attempts[p] = failures[p]
  BY <1>1 DEF IInv, LivesAreCounted, InProgress, TypeOK
<1>3. Phases' = [Phases EXCEPT ![p] = Life!AfterLife(p, failures[p] + 1)]
  BY <1>1, ExitedIsAfterLife DEF SpawnFails
<1>4. Phases[p] = "due"
  BY <1>1 DEF Phases, PhaseOf
<1> QED
  BY <1>2, <1>3, <1>4 DEF Life!Stillborn, SpawnFails, Phases

\* Reaping a child ends a life.
LEMMA ReapIsEnd ==
  ASSUME IInv, NEW q \in Pids, Reap(q)
  PROVE  owner[q] \in Procs /\ Life!End(owner[q])
<1> DEFINE p == owner[q]
<1>1. p \in processes /\ p \in Procs /\ p \notin idle
  BY DEF Reap, IInv, Lifeline, ZombiesAreChildren, TypeOK
<1>2. attempts[p] = failures[p] + 1
  BY <1>1 DEF IInv, LivesAreCounted, InProgress
<1>3. Phases' = [Phases EXCEPT ![p] = Life!AfterLife(p, failures[p] + 1)]
  BY <1>1, ExitedIsAfterLife DEF Reap
<1>4. Phases[p] = "up"
  BY <1>1 DEF Phases, PhaseOf
<1> QED
  BY <1>1, <1>2, <1>3, <1>4 DEF Life!End, Reap, Phases

\* A step of the supervisor is a step of the lifecycle, or none.
LEMMA StepIsLifecycle == IInv /\ [Next]_vars => [Life!Next]_(Life!vars)
<1> SUFFICES ASSUME IInv, [Next]_vars PROVE [Life!Next]_(Life!vars)
  OBVIOUS
<1>1. ASSUME NEW p \in Authenticators, CreateAuthenticator(p) PROVE Life!Next
  BY <1>1, CreateIsAdmit DEF Life!Next, Procs
<1>2. ASSUME NEW p \in Procs, Spawn(p) PROVE Life!Next
  BY <1>2, SpawnOkIsStart, SpawnFailsIsStillborn DEF Spawn, Life!Next
<1>3. ASSUME NEW q \in Pids, Reap(q) PROVE Life!Next
  BY <1>3, ReapIsEnd DEF Life!Next
<1>4. ASSUME NEW q \in Pids, ChildExits(q) PROVE UNCHANGED Life!vars
  BY <1>4 DEF ChildExits, procVars, Life!vars, PhaseOf
<1>5. ASSUME Aborted \/ UNCHANGED vars PROVE UNCHANGED Life!vars
  BY <1>5 DEF Aborted, vars, procVars, Life!vars, PhaseOf
<1> QED
  BY <1>1, <1>2, <1>3, <1>4, <1>5 DEF Next

\* ... and the first state of the one is the first of the other.
LEMMA InitIsLifecycle == Init => Life!Init
BY SupervisorAssumption DEF Init, Life!Init, PhaseOf

\* Every behaviour of the supervisor is one of the lifecycle: whatever happens
\* to handles, listeners and pids, a process is started, lost and given up as
\* its lives allow.
THEOREM SupervisorImplementsLifecycle == Spec => ImplementsLifecycle
BY InitIsLifecycle, StepIsLifecycle, Invariance, PTL
   DEF Spec, ImplementsLifecycle, Life!Spec
=============================================================================
