---------------------------- MODULE ProcSupervisor ----------------------------
(***************************************************************************)
(* The child-process supervisor of the manager daemon: lib/procmanager.cpp *)
(* together with the pid registry its hooks keep in the IPC server         *)
(* (apps/nfcdoorz-manager.cpp, lib/ipc/server.hpp).                        *)
(*                                                                         *)
(* Everything the manager does runs on one libuv loop, so an action is one *)
(* callback of that loop run to its end.  Between two callbacks the kernel *)
(* may end a child; it keeps the child's pid until the manager reaps it.   *)
(*                                                                         *)
(* Proc::run only QUEUES the spawn: a one-shot listener on the idle handle *)
(* does the work later.  A spawn that fails publishes its ErrorEvent while *)
(* that listener is still running, so Proc::exited runs nested inside it   *)
(* and the rest of the listener then works on what exited left behind.     *)
(***************************************************************************)
EXTENDS Integers, Sequences, FiniteSets

CONSTANTS
  Daemons,         \* Procs created by main() with restart = true
  Authenticators,  \* Proc slots of CreateAuthenticatorCall, restart = false
  Pids,            \* process ids the kernel may hand out
  MaxFailures,     \* the 5 of "++_failures < 5"
  Nobody           \* the owner of a pid that is not in use

Procs == Daemons \cup Authenticators

\* What Proc::getPid returns without a child: -1 when _handle is empty, and
\* the zeroed pid of a ProcessHandle that was not spawned yet.
NoHandle  == -1
Unspawned == 0
PidValues == Pids \cup {NoHandle, Unspawned}

ASSUME SupervisorAssumption ==
  /\ Daemons \cap Authenticators = {}
  /\ Pids \subseteq Nat \ {0}
  /\ MaxFailures \in Nat \ {0}
  /\ Nobody \notin Procs

\* The service a child is registered under: its Proc's _name.
Unregistered == "unregistered"
Garbled      == "garbled"   \* the name of a Proc read after its destruction
NameOf(p)    == IF p \in Daemons THEN "api" ELSE "auth"
Names        == {"api", "auth", Garbled, Unregistered}

VARIABLES
  managerUp,   \* FALSE once undefined behaviour has aborted the manager
  processes,   \* ProcManager::processes, the owner of every Proc
  handle,      \* _handle of every Proc, as the value getPid() returns
  idle,        \* Procs whose spawn listener waits for the next idle event
  running,     \* _running
  failures,    \* _failures
  attempts,    \* spawns tried since the Proc was created
  pidMap,      \* IpcServerMulti::pid_map
  owner,       \* kernel: the Proc a pid was forked for, until it is reaped
  zombies,     \* kernel: pids that have exited and wait to be reaped
  told         \* what the creator of an authenticator was sent, in order

procVars   == <<processes, handle, idle, running, failures, attempts>>
kernelVars == <<owner, zombies>>
vars == <<managerUp, procVars, pidMap, kernelVars, told>>

-----------------------------------------------------------------------------

\* main() creates the restartable children and queues their first run before
\* it enters the loop.
Init ==
  /\ managerUp = TRUE
  /\ processes = Daemons
  /\ handle = [p \in Procs |-> IF p \in Daemons THEN Unspawned ELSE NoHandle]
  /\ idle = Daemons
  /\ running = [p \in Procs |-> FALSE]
  /\ failures = [p \in Procs |-> 0]
  /\ attempts = [p \in Procs |-> 0]
  /\ pidMap = [q \in PidValues |-> Unregistered]
  /\ owner = [q \in Pids |-> Nobody]
  /\ zombies = {}
  /\ told = [p \in Procs |-> <<>>]

FreePids == {q \in Pids : owner[q] = Nobody}

\* Only the authenticator handler passes a callback to run(), and exited()
\* passes none when it runs a Proc again: the callback belongs to the first
\* attempt.  It completes the promise of the CreateAuthenticator reply.
HasCallback(p) == p \in Authenticators /\ attempts[p] = 0
Notify(p, msgs) == told' = [told EXCEPT ![p] = @ \o msgs]
Created(p) == IF HasCallback(p) THEN <<"created">> ELSE <<>>

\* The registry hooks: registerPid once the spawn has returned, unregisterPid
\* in exited() before the handle is dropped.
RegisterTooEarly(p, q) ==   \* fault: called before the spawn
  pidMap' = [pidMap EXCEPT ![Unspawned] = NameOf(p)]
RegisterAsApi(p, q) ==      \* fault: every Proc created under one name
  pidMap' = [pidMap EXCEPT ![q] = "api"]
Register(p, q) == pidMap' = [pidMap EXCEPT ![q] = NameOf(p)]

UnregisterTooLate(p) ==     \* fault: called when the handle is gone
  pidMap' = [pidMap EXCEPT ![NoHandle] = Unregistered]
Unregister(p) == pidMap' = [pidMap EXCEPT ![handle[p]] = Unregistered]

\* CreateAuthenticatorCall: a fresh Proc is listed and its spawn queued.
CreateAuthenticator(p) ==
  /\ managerUp
  /\ p \in Authenticators \ processes
  /\ processes' = processes \cup {p}
  /\ handle' = [handle EXCEPT ![p] = Unspawned]
  /\ idle' = idle \cup {p}
  /\ running' = [running EXCEPT ![p] = FALSE]
  /\ failures' = [failures EXCEPT ![p] = 0]
  /\ attempts' = [attempts EXCEPT ![p] = 0]
  /\ told' = [told EXCEPT ![p] = <<>>]
  /\ UNCHANGED <<managerUp, pidMap, kernelVars>>

\* The idle listener, spawn succeeds: register, mark as running, call back.
SpawnOk(p, q) ==
  /\ managerUp
  /\ p \in idle
  /\ q \in FreePids
  /\ owner' = [owner EXCEPT ![q] = p]
  /\ handle' = [handle EXCEPT ![p] = q]
  /\ idle' = idle \ {p}
  /\ attempts' = [attempts EXCEPT ![p] = @ + 1]
  /\ Register(p, q)
  /\ running' = [running EXCEPT ![p] = TRUE]
  /\ Notify(p, Created(p))
  /\ UNCHANGED <<managerUp, processes, failures, zombies>>

\* exited(), after it has unregistered the pid: count the failure, then either
\* run again or remove.
RunsOnceTooOften(p) ==      \* fault: _failures++ < 5
  p \in Daemons /\ failures[p] < MaxFailures
RunsWhateverItIs(p) ==      \* fault: _restart not looked at
  failures[p] + 1 < MaxFailures
RunsAgain(p) == p \in Daemons /\ failures[p] + 1 < MaxFailures

RerunRefused(p) ==          \* fault: run() while _handle is still set
  /\ RunsAgain(p)
  /\ failures' = [failures EXCEPT ![p] = @ + 1]
  /\ UNCHANGED <<handle, idle, processes>>

Rerun(p) ==
  /\ RunsAgain(p)
  /\ failures' = [failures EXCEPT ![p] = @ + 1]
  /\ handle' = [handle EXCEPT ![p] = Unspawned]
  /\ idle' = idle \cup {p}
  /\ UNCHANGED processes

\* remove() drops the last reference, so ~Proc runs: it reports the exit of an
\* authenticator and finds no handle left to kill.
Remove(p) ==
  /\ ~RunsAgain(p)
  /\ failures' = [failures EXCEPT ![p] = IF p \in Daemons THEN @ + 1 ELSE @]
  /\ handle' = [handle EXCEPT ![p] = NoHandle]
  /\ idle' = idle \ {p}
  /\ processes' = processes \ {p}

ExitNoticeIfRunning(p) ==   \* fault: only exits of what ran are reported
  IF p \in Authenticators /\ running[p] THEN <<"exited">> ELSE <<>>
ExitNotice(p) == IF p \in Authenticators THEN <<"exited">> ELSE <<>>

\* The idle listener, spawn fails.  libuv leaves in the handle either 0 (the
\* fork failed) or the pid of the child whose exec failed, already reaped; it
\* is what exited() unregisters.
\*   - The Proc runs again: its new, unspawned handle is registered as pid 0
\*     and _running is set although nothing runs.
\*   - The Proc is gone: the listener goes on with freed memory.  Either the
\*     manager aborts, or it registers pid -1 under whatever the name reads
\*     as, and calls back.
SpawnFails(p, q) ==
  /\ managerUp
  /\ p \in idle
  /\ q \in FreePids \cup {Unspawned}
  /\ attempts' = [attempts EXCEPT ![p] = @ + 1]
  /\ \/ /\ Rerun(p)
        /\ pidMap' = [pidMap EXCEPT ![q] = Unregistered,
                                    ![Unspawned] = NameOf(p)]
        /\ running' = [running EXCEPT ![p] = TRUE]
        /\ Notify(p, Created(p))
        /\ UNCHANGED managerUp
     \/ /\ Remove(p)
        /\ running' = [running EXCEPT ![p] = FALSE]
        /\ \/ /\ managerUp' = FALSE
              /\ pidMap' = [pidMap EXCEPT ![q] = Unregistered]
              /\ Notify(p, ExitNotice(p))
           \/ /\ pidMap' = [pidMap EXCEPT ![q] = Unregistered,
                                          ![NoHandle] = Garbled]
              /\ Notify(p, ExitNotice(p) \o Created(p))
              /\ UNCHANGED managerUp
  /\ UNCHANGED kernelVars

\* Any child may end at any time, whatever became of the manager.
ChildExits(q) ==
  /\ q \notin FreePids \cup zombies
  /\ zombies' = zombies \cup {q}
  /\ UNCHANGED <<managerUp, procVars, pidMap, owner, told>>

\* SIGCHLD: libuv waits for the child, which frees its pid, and the exit
\* callback runs exited().
Reap(q) ==
  /\ managerUp
  /\ q \in zombies
  /\ owner' = [owner EXCEPT ![q] = Nobody]
  /\ zombies' = zombies \ {q}
  /\ LET p == owner[q] IN
       /\ Unregister(p)
       /\ running' = [running EXCEPT ![p] = FALSE]
       /\ \/ Rerun(p) /\ UNCHANGED told
          \/ Remove(p) /\ Notify(p, ExitNotice(p))
  /\ UNCHANGED <<managerUp, attempts>>

\* An aborted manager does nothing more.
Aborted == ~managerUp /\ UNCHANGED vars

Spawn(p) ==
  \/ \E q \in Pids : SpawnOk(p, q)
  \/ \E q \in PidValues : SpawnFails(p, q)

Next ==
  \/ \E p \in Authenticators : CreateAuthenticator(p)
  \/ \E p \in Procs : Spawn(p)
  \/ \E q \in Pids : ChildExits(q) \/ Reap(q)
  \/ Aborted

Spec == Init /\ [][Next]_vars

\* The idle handle is started and never stopped, so the loop never blocks: a
\* queued listener runs, and a SIGCHLD is read.  Nothing obliges a child to
\* exit or a client to ask for an authenticator.
Fairness ==
  /\ \A p \in Procs : WF_vars(Spawn(p))
  /\ \A q \in Pids : WF_vars(Reap(q))

FairSpec == Spec /\ Fairness

-----------------------------------------------------------------------------

TypeOK ==
  /\ managerUp \in BOOLEAN
  /\ processes \subseteq Procs
  /\ handle \in [Procs -> PidValues]
  /\ idle \subseteq Procs
  /\ running \in [Procs -> BOOLEAN]
  /\ failures \in [Procs -> 0 .. MaxFailures]
  /\ attempts \in [Procs -> 0 .. MaxFailures]
  /\ pidMap \in [PidValues -> Names]
  /\ owner \in [Pids -> Procs \cup {Nobody}]
  /\ zombies \subseteq Pids
  /\ told \in [Procs -> Seq({"created", "exited"})]

\* The IPC server routes a call by the pid of its sender (pid_map).  A child
\* the kernel still knows is registered under its own service, through every
\* restart and every failed spawn of another Proc: its calls are not refused.
ChildIsRegistered ==
  \A q \in Pids \ FreePids : pidMap[q] = NameOf(owner[q])

\* ... and a pid that has been reaped is registered for nobody, so whichever
\* process the kernel gives it to next is not taken for a child.
FreePidIsUnregistered ==
  \A q \in FreePids : pidMap[q] = Unregistered

\* pid_map says of every pid whose child it is, if anybody's, whatever
\* becomes of the children and however their pids are used again.
RegistryIsExact == ChildIsRegistered /\ FreePidIsUnregistered

\* A listed Proc either waits for its spawn or holds a child of its own (never
\* both, never two children); one that is not listed has neither.  Nothing is
\* supervised by nobody and no Proc is listed with nothing left to happen.
Holds(p) == {q \in Pids : owner[q] = p}
OneLifeline ==
  \A p \in Procs :
    /\ p \in processes =>
         \/ p \in idle /\ handle[p] = Unspawned /\ Holds(p) = {}
         \/ p \notin idle /\ handle[p] \in Pids /\ Holds(p) = {handle[p]}
    /\ p \notin processes =>
         p \notin idle /\ handle[p] = NoHandle /\ Holds(p) = {}

\* A restartable child is given MaxFailures lives and an authenticator one,
\* whether a life ends in an exit or in a spawn that fails: the failures
\* counted and the life in progress add up to the spawns that were tried.
Lives(p) == IF p \in Daemons THEN MaxFailures ELSE 1
InProgress(p) == IF p \in processes \ idle THEN 1 ELSE 0
LivesAreCounted ==
  \A p \in Procs :
    /\ attempts[p] <= Lives(p)
    /\ p \in Daemons \cup processes => attempts[p] = failures[p] + InProgress(p)
    /\ p \in Authenticators => failures[p] = 0
    /\ p \in processes => failures[p] < Lives(p)

\* The supervisor gives a Proc up only when it has used all its lives.
GivesUpOnlyAfterAllLives ==
  [][\A p \in processes \ processes' : attempts'[p] = Lives(p)]_vars

\* The creator of an authenticator hears of each event once: its call is
\* answered when the spawn has been tried, and the exit is reported when, and
\* only when, the Proc has gone.  (After a spawn that fails, the exit event
\* comes BEFORE the reply that says it was created.)
Heard(p, m) == Cardinality({i \in DOMAIN told[p] : told[p][i] = m})
CreatorHearsOnce ==
  \A p \in Authenticators :
    /\ Heard(p, "created") <= 1
    /\ attempts[p] = 0 => told[p] = <<>>
    /\ p \in processes => Heard(p, "exited") = 0
    /\ p \notin processes /\ attempts[p] > 0 => Heard(p, "exited") = 1
    /\ attempts[p] > 0 /\ managerUp => Heard(p, "created") = 1

\* A restartable child that has died is running again, or was given up.
Alive(p) == handle[p] \in Pids \ zombies /\ owner[handle[p]] = p
DeadChildIsReplaced ==
  \A p \in Daemons :
    handle[p] \in zombies ~> Alive(p) \/ p \notin processes \/ ~managerUp


\* The supervisor implements the lifecycle: a listed Proc is due while its
\* spawn is queued and up while it has a child, reaped or not.
PhaseOf(p) ==
  IF p \notin processes THEN "absent" ELSE IF p \in idle THEN "due" ELSE "up"

Life == INSTANCE Lifecycle WITH
          Process <- Procs,
          Boot    <- Daemons,
          LivesOf <- Lives,
          phase   <- [p \in Procs |-> PhaseOf(p)],
          spent   <- attempts

ImplementsLifecycle == Life!Spec
=============================================================================
