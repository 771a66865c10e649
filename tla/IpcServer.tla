------------------------------- MODULE IpcServer -------------------------------
(***************************************************************************)
(* The manager daemon: the supervisor of ProcSupervisor composed with the  *)
(* IPC server its children call (lib/ipc/server.*, lib/ipc/ipc.cpp) and    *)
(* the handlers apps/nfcdoorz-manager.cpp registers.                       *)
(*                                                                         *)
(* A connection keeps the pid the kernel reported when its peer connected. *)
(* Each packet is routed by looking that pid up in pid_map at the moment   *)
(* it is read: a peer may have died, and its pid been unregistered or even *)
(* given to another child, while its packets were still queued.            *)
(*                                                                         *)
(* A handled call leaves a CallReplyCallback in idle_calls.  The callback  *)
(* and the exit notice of an authenticator hold the connection's pipe BY   *)
(* REFERENCE.  While the pipe is open and the peer gone, a write raises    *)
(* SIGPIPE, which nothing ignores.  Once the pipe has closed its memory is *)
(* free: the write goes to the connection whose pipe was made there since, *)
(* or else is lost or ends the manager.                                    *)
(***************************************************************************)
EXTENDS ProcSupervisor

CONSTANTS
  Conns,      \* bound: records of connections, kept while they matter
  Pipes,      \* addresses a PipeHandle may be made at; enough for Conns
  MaxCalls    \* bound: calls sent on one connection

ASSUME ServerAssumption ==
  MaxCalls \in Nat /\ Nobody \notin Conns /\ Nobody \notin Pipes

VARIABLES
  link,       \* "none", "backlog" (not accepted), "open", "closed" or, after
              \* a read error, "failed": neither read nor closed any more
  author,     \* the Proc whose child opened the connection
  peerPid,    \* the pid captured by the DataEvent listener
  pipe,       \* the address of its PipeHandle, once it was accepted
  hungUp,     \* connections whose peer has exited
  calls,      \* the calls sent on a connection, in order
  asker,      \* the connection an authenticator's exit is reported to
  astray      \* connections whose reply or exit notice another peer got

connVars   == <<link, author, peerPid, pipe, hungUp, calls>>
serverVars == <<connVars, asker, astray>>
allVars    == <<vars, serverVars>>

\* The calls each client library can make, and those the manager handles.
\* (Policy clients are never started; they would behave as auth ones.)
CallsOf(s)   == IF s = "api" THEN {"config", "status", "create", "destroy"}
                             ELSE {"config"}
Handled(s)   == CallsOf(s) \ {"destroy"}
Services     == {"api", "auth"}
Kinds        == CallsOf("api")

\* A call: its kind, where it stands, the service that took it and, for a
\* creation, the authenticator whose spawn completes the reply's promise.
States == {"sent", "waiting", "answered", "lost", "expired",
           "refused", "ignored", "dropped"}
Call == [kind : Kinds, state : States, by : Services \cup {Unregistered},
         for : Procs \cup {Nobody}]
NewCall(k) == [kind |-> k, state |-> "sent", by |-> Unregistered,
               for |-> Nobody]

Outstanding(c, state) == {i \in DOMAIN calls[c] : calls[c][i].state = state}
SetCall(c, i, call) == calls' = [calls EXCEPT ![c][i] = call]

ServerInit ==
  /\ Init
  /\ link = [c \in Conns |-> "none"]
  /\ author = [c \in Conns |-> Nobody]
  /\ peerPid = [c \in Conns |-> NoHandle]
  /\ pipe = [c \in Conns |-> Nobody]
  /\ hungUp = {}
  /\ calls = [c \in Conns |-> <<>>]
  /\ asker = [p \in Procs |-> Nobody]
  /\ astray = {}

-----------------------------------------------------------------------------
(* The children.                                                            *)

\* Something in the manager still refers to the connection's pipe.
Referenced(c) ==
  Outstanding(c, "waiting") # {} \/ \E p \in processes : asker[p] = c

\* A child connects once (IpcClientBase::connect), with its pid on record.
\* Bound: the record of an earlier connection is given up for the new one only
\* when nothing refers to it.  Of its pipe's memory this says nothing: Accept.
Connect(p, c) ==
  /\ managerUp
  /\ handle[p] \in Pids \ zombies
  /\ \A d \in Conns : author[d] = p /\ link[d] # "none" => d \in hungUp
  /\ link[c] = "none" \/ (link[c] \in {"closed", "failed"} /\ c \in hungUp)
  /\ ~Referenced(c)
  /\ link' = [link EXCEPT ![c] = "backlog"]
  /\ author' = [author EXCEPT ![c] = p]
  /\ peerPid' = [peerPid EXCEPT ![c] = handle[p]]
  /\ pipe' = [pipe EXCEPT ![c] = Nobody]
  /\ hungUp' = hungUp \ {c}
  /\ calls' = [calls EXCEPT ![c] = <<>>]
  /\ astray' = astray \ {c}
  /\ UNCHANGED <<vars, asker>>

\* Bound: a creation is asked for only when a slot is left to hold it, so the
\* finite number of slots never keeps the server from handling one.
Awaited(p) ==
  \E c \in Conns : \E i \in Outstanding(c, "waiting") : calls[c][i].for = p
FreeSlots == {p \in Authenticators \ processes : ~Awaited(p)}
SentCreations ==
  {ci \in Conns \X (1 .. MaxCalls) :
     ci[2] \in Outstanding(ci[1], "sent") /\ calls[ci[1]][ci[2]].kind = "create"}
SlotLeft == Cardinality(SentCreations) < Cardinality(FreeSlots)

SendCall(c, k) ==
  /\ link[c] \in {"backlog", "open"}
  /\ c \notin hungUp
  /\ k \in CallsOf(NameOf(author[c]))
  /\ Len(calls[c]) < MaxCalls
  /\ k = "create" => SlotLeft
  /\ calls' = [calls EXCEPT ![c] = Append(@, NewCall(k))]
  /\ UNCHANGED <<vars, link, author, peerPid, pipe, hungUp, asker, astray>>

\* A child's exit closes its socket; what it had sent stays readable.
PeerExits(q) ==
  /\ ChildExits(q)
  /\ hungUp' = hungUp \cup {c \in Conns : peerPid[c] = q /\ author[c] = owner[q]
                                          /\ link[c] # "none"}
  /\ UNCHANGED <<link, author, peerPid, pipe, calls, asker, astray>>

-----------------------------------------------------------------------------
(* The server's socket listeners.                                           *)

\* ListenEvent: a PipeHandle is made at any address that is free, that of a
\* pipe which has closed among them, whoever still refers to that one.  When
\* the peer's pid cannot be asked for, the new socket is closed at once.
Taken == {pipe[d] : d \in {d \in Conns : link[d] \in {"open", "failed"}}}

Accept(c) ==
  /\ managerUp
  /\ link[c] = "backlog"
  /\ \/ /\ \E a \in Pipes \ Taken : pipe' = [pipe EXCEPT ![c] = a]
        /\ link' = [link EXCEPT ![c] = "open"]
     \/ /\ link' = [link EXCEPT ![c] = "closed"]
        /\ UNCHANGED pipe
  /\ UNCHANGED <<vars, author, peerPid, hungUp, calls, asker, astray>>

\* DataEvent: the oldest packet of the connection, routed by its pid.
Reading(c, i) ==
  /\ managerUp
  /\ link[c] = "open"
  /\ i \in Outstanding(c, "sent")
  /\ \A j \in Outstanding(c, "sent") : i <= j

Service(c) == pidMap[peerPid[c]]

\* handleCall without effect: the pid is not registered, its name is no
\* service, the packet is not looked at, or the service has no handler for
\* the call.  None is answered.
Refuse(c, i) ==
  /\ Reading(c, i)
  /\ Service(c) \notin Services
  /\ SetCall(c, i, [calls[c][i] EXCEPT !.state = "refused"])
  /\ UNCHANGED <<vars, link, author, peerPid, pipe, hungUp, asker, astray>>

\* Only the first packet of a DataEvent is unpacked, and what came in one read
\* with the packet before it is dropped; so is a packet of another service
\* when it does not verify.
Drop(c, i) ==
  /\ Reading(c, i)
  /\ Service(c) \in Services
  /\ i > 1 \/ Service(c) # NameOf(author[c])
  /\ SetCall(c, i, [calls[c][i] EXCEPT !.state = "dropped"])
  /\ UNCHANGED <<vars, link, author, peerPid, pipe, hungUp, asker, astray>>

Ignore(c, i) ==
  /\ Reading(c, i)
  /\ Service(c) \in Services
  /\ calls[c][i].kind \notin Handled(Service(c))
  /\ SetCall(c, i, [calls[c][i] EXCEPT !.state = "ignored", !.by = Service(c)])
  /\ UNCHANGED <<vars, link, author, peerPid, pipe, hungUp, asker, astray>>

\* ConfigCall and StatusCall: the handler's future is ready when it returns.
HandleNow(c, i) ==
  /\ Reading(c, i)
  /\ Service(c) \in Services
  /\ calls[c][i].kind \in Handled(Service(c)) \ {"create"}
  /\ SetCall(c, i, [calls[c][i] EXCEPT !.state = "waiting", !.by = Service(c)])
  /\ UNCHANGED <<vars, link, author, peerPid, pipe, hungUp, asker, astray>>

\* CreateAuthenticatorCall: a new Proc whose exit is reported through this
\* pipe, and a future its first spawn completes.  The slots bound the number
\* of authenticators; one a waiting call still needs is not reused.  (The
\* handler throws when the union holds no create: the packet's type chose the
\* handler and every client packs the body with it, so it always does.)
HandleCreate(c, i, p) ==
  /\ Reading(c, i)
  /\ Service(c) \in Services
  /\ calls[c][i].kind \in Handled(Service(c)) \cap {"create"}
  /\ ~Awaited(p)
  /\ CreateAuthenticator(p)
  /\ asker' = [asker EXCEPT ![p] = c]
  /\ SetCall(c, i, [calls[c][i] EXCEPT !.state = "waiting", !.by = Service(c),
                                       !.for = p])
  /\ UNCHANGED <<link, author, peerPid, pipe, hungUp, astray>>

EndWhenDrained(c) ==        \* fault: closed once there is nothing to read
  /\ managerUp
  /\ link[c] = "open"
  /\ calls[c] # <<>> /\ Outstanding(c, "sent") = {}
  /\ link' = [link EXCEPT ![c] = "closed"]
  /\ UNCHANGED <<vars, author, peerPid, pipe, hungUp, calls, asker, astray>>

\* EndEvent: the stream is drained and the peer is gone.
End(c) ==
  /\ managerUp
  /\ link[c] = "open"
  /\ c \in hungUp
  /\ Outstanding(c, "sent") = {}
  /\ link' = [link EXCEPT ![c] = "closed"]
  /\ UNCHANGED <<vars, author, peerPid, pipe, hungUp, calls, asker, astray>>

\* ErrorEvent: a peer that exits with replies unread resets the connection,
\* and what it had sent cannot be read.  The listener only logs.
ReadError(c) ==
  /\ managerUp
  /\ link[c] = "open"
  /\ c \in hungUp
  /\ link' = [link EXCEPT ![c] = "failed"]
  /\ UNCHANGED <<vars, author, peerPid, pipe, hungUp, calls, asker, astray>>

-----------------------------------------------------------------------------
(* The idle listener: CallReplyCallback under Executable::runWithTimeout.   *)

\* The promise of a creation is set by the callback of its first spawn.
ReadyAtOnce(call) ==        \* fault: answered when handled, not when spawned
  TRUE
ReadyIfAlive(call) ==       \* fault: answered only while the Proc is listed
  call.for # Nobody => call.for \in processes /\ Heard(call.for, "created") > 0
Ready(call) == call.for # Nobody => Heard(call.for, "created") > 0

\* The timeout is looked at first: 1000 ms after the call was read it is
\* dropped unanswered, ready or not.  The loop may be late at any time.
Expire(c, i) ==
  /\ managerUp
  /\ i \in Outstanding(c, "waiting")
  /\ SetCall(c, i, [calls[c][i] EXCEPT !.state = "expired"])
  /\ UNCHANGED <<vars, link, author, peerPid, pipe, hungUp, asker, astray>>

\* Whom a write through the reference to the connection's pipe reaches: the
\* peer of the connection whose pipe is at that address now.
Reaches(c) ==
  {d \in Conns : link[d] = "open" /\ d \notin hungUp /\ pipe[d] = pipe[c]}
GoesAstray(c) == c \notin Reaches(c) /\ Reaches(c) # {}

Answer(c, i) ==
  /\ managerUp
  /\ i \in Outstanding(c, "waiting")
  /\ Ready(calls[c][i])
  /\ SetCall(c, i, [calls[c][i] EXCEPT
                      !.state = IF c \in Reaches(c) THEN "answered" ELSE "lost"])
  /\ astray' = astray \cup {d \in {c} : GoesAstray(d)}
  /\ managerUp' \in {TRUE, Reaches(c) # {}}
  /\ UNCHANGED <<procVars, pidMap, kernelVars, told>>
  /\ UNCHANGED <<link, author, peerPid, pipe, hungUp, asker>>

-----------------------------------------------------------------------------
(* The supervisor's listeners, with the exit notice of an authenticator.    *)

\* A Proc that is removed writes its notice, and drops its listener's
\* reference to the pipe.
NotifyAsker ==
  LET gone == processes \ processes' IN
    /\ asker' = [p \in Procs |-> IF p \in gone THEN Nobody ELSE asker[p]]
    /\ astray' = astray \cup {c \in {asker[p] : p \in gone} \cap Conns :
                                GoesAstray(c)}

Supervise ==
  /\ \/ \E p \in Procs : Spawn(p)
     \/ \E q \in Pids : Reap(q)
  /\ NotifyAsker
  /\ UNCHANGED connVars

\* ... and the other outcome when the notice reaches nobody: the manager ends
\* in the middle of the removal.

NoticeAborts(p) ==
  /\ managerUp
  /\ p \in Authenticators \cap processes
  /\ asker[p] \in Conns /\ Reaches(asker[p]) = {}
  /\ p \in idle \/ handle[p] \in zombies
  /\ managerUp' = FALSE
  /\ UNCHANGED <<procVars, pidMap, kernelVars, told, serverVars>>

HandleCall(c) ==
  \E i \in 1 .. MaxCalls :
    \/ Refuse(c, i)
    \/ Drop(c, i)
    \/ Ignore(c, i)
    \/ HandleNow(c, i)
    \/ \E p \in Authenticators : HandleCreate(c, i, p)

IdleCall(c, i) == Answer(c, i) \/ Expire(c, i)

ServerAborted == Aborted /\ UNCHANGED serverVars

\* With every daemon given up and every socket closed the loop turns for ever
\* with nothing to do: nobody is left to ask for anything.
Deserted ==
  /\ processes = {}
  /\ \A c \in Conns : link[c] \notin {"backlog", "open"} /\ ~Referenced(c)
  /\ UNCHANGED allVars

ServerNext ==
  \/ \E p \in Procs, c \in Conns : Connect(p, c)
  \/ \E c \in Conns, k \in Kinds : SendCall(c, k)
  \/ \E q \in Pids : PeerExits(q)
  \/ \E c \in Conns : Accept(c) \/ HandleCall(c) \/ End(c) \/ ReadError(c)
  \/ \E c \in Conns, i \in 1 .. MaxCalls : IdleCall(c, i)
  \/ Supervise
  \/ \E p \in Authenticators : NoticeAborts(p)
  \/ ServerAborted
  \/ Deserted

ServerSpec == ServerInit /\ [][ServerNext]_allVars

\* One loop turn polls every socket and runs every idle call.
ServerFairness ==
  /\ \A p \in Procs : WF_allVars(Spawn(p) /\ NotifyAsker /\ UNCHANGED connVars)
  /\ \A q \in Pids : WF_allVars(Reap(q) /\ NotifyAsker /\ UNCHANGED connVars)
  /\ \A c \in Conns : WF_allVars(Accept(c)) /\ WF_allVars(HandleCall(c))
                      /\ WF_allVars(End(c))
  /\ \A c \in Conns, i \in 1 .. MaxCalls : WF_allVars(Answer(c, i))

FairServerSpec == ServerSpec /\ ServerFairness

-----------------------------------------------------------------------------

ServerTypeOK ==
  /\ TypeOK
  /\ link \in [Conns -> {"none", "backlog", "open", "closed", "failed"}]
  /\ author \in [Conns -> Procs \cup {Nobody}]
  /\ peerPid \in [Conns -> Pids \cup {NoHandle}]
  /\ pipe \in [Conns -> Pipes \cup {Nobody}]
  /\ hungUp \subseteq Conns
  /\ calls \in [Conns -> Seq(Call)]
  /\ asker \in [Procs -> Conns \cup {Nobody}]
  /\ astray \subseteq Conns

\* A call of a living child is never refused: its pid was registered before
\* its first packet could be read, and stays registered until it is reaped.
LiveCallNotRefused ==
  \A c \in Conns : Outstanding(c, "refused") # {} => c \in hungUp

\* A call of a living child is taken by the child's own service.  Only what a
\* dead child left in its socket can be read as another service's call, when
\* its pid has been given to a new child.
ServedAsItself ==
  \A c \in Conns : \A i \in DOMAIN calls[c] :
    calls[c][i].by \notin {Unregistered, NameOf(author[c])} => c \in hungUp

\* A creation that has been answered was tried: the reply never precedes the
\* spawn, though it says nothing of its success.
AnsweredAfterSpawn ==
  [][\A c \in Conns : \A i \in Outstanding(c, "waiting") :
       LET p == calls[c][i].for IN
         /\ calls'[c][i].state = "answered"
         /\ p # Nobody
         => attempts[p] = 1]_allVars

\* What the manager writes through a reference it has kept to a pipe reaches
\* the child it is owed to as long as that child lives, however long the reply
\* or the authenticator takes and whatever pipes are made meanwhile: a reply
\* is lost, or mail is given to another child, only when its own child has
\* exited.  Of a daemon the supervisor knows so too: it waits to be reaped, a
\* failure was counted, or it was given up.
Died(p) == handle[p] \in zombies \/ failures[p] > 0 \/ p \notin processes
StrayMailNeedsADeath ==
  \A c \in Conns :
    c \in astray \/ Outstanding(c, "lost") # {} =>
      c \in hungUp /\ (author[c] \in Daemons => Died(author[c]))

\* "This executable will be rescheduled every event loop iteration until run()
\* returns true" (lib/ipc/ipc.hpp): a call that waits for its reply leaves
\* idle_calls only by a run that finds the future ready.  The code drops it
\* when its second is over, without running it.
RescheduledUntilDone ==
  [][\A c \in Conns : \A i \in Outstanding(c, "waiting") :
       calls'[c][i].state = "waiting" \/ calls'[c][i].state \in {"answered", "lost"}
     ]_allVars

\* Every call that reaches the server is settled: answered, expired, refused,
\* dropped or ignored, so no idle call stays for ever.  What a dead child had
\* sent is settled too, or its connection has failed.
Unsettled(c, i) ==
  \/ i \in Outstanding(c, "sent") /\ link[c] \in {"backlog", "open"}
  \/ i \in Outstanding(c, "waiting")
EveryCallIsSettled ==
  \A c \in Conns, i \in 1 .. MaxCalls :
    Unsettled(c, i) ~> ~Unsettled(c, i) \/ ~managerUp
=============================================================================
