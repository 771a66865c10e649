------------------------------- MODULE IpcClient -------------------------------
(***************************************************************************)
(* A client of the manager (lib/ipc/client.hpp, client.cpp): one thread of *)
(* the application makes blocking calls, Callable::gen, and a loop thread, *)
(* runThread, owns the socket.  They share call_returns (a promise per     *)
(* call) and calls_out_queue; call_mutex guards only the drawing of an id, *)
(* so both are touched by two threads with no lock.                        *)
(*                                                                         *)
(* An action is one access to shared state.  Where the accesses of the two *)
(* threads to call_returns can overlap, the outcome is undefined: as       *)
(* intended, the new promise lost from the tree, or the process aborted;   *)
(* in the queue, as intended or aborted.                                   *)
(*                                                                         *)
(* The manager is external here: it answers a call once, with the call's   *)
(* id, or never (see IpcServer for when).  What it may send to this client *)
(* by mistake, the mail of a child that has gone, is left out.             *)
(***************************************************************************)
EXTENDS Integers, Sequences, FiniteSets

CONSTANT MaxId   \* bound: the ids drawn from _next_id

ASSUME ClientAssumption == MaxId \in Nat

Ids  == 0 .. MaxId - 1
NoId == -1

VARIABLES
  nextId,        \* _next_id
  caller,        \* what the application thread does next, and its call's id
  callReturns,   \* the ids call_returns holds a promise for
  future,        \* the shared state of a call: the payload set, or NoId
  outQueue,      \* calls_out_queue
  asyncSent,     \* a wake-up of the loop thread is pending (they coalesce)
  loop,          \* what the loop thread does next, and the reply it handles
  toServer,      \* packets on their way to the manager
  toClient,      \* replies on their way back
  accepted,      \* calls the manager has read and may still answer
  served,        \* calls the manager has answered
  linkUp,        \* the manager still holds its end of the connection
  clientUp,      \* FALSE once undefined behaviour has aborted the client
  outcome        \* what gen() gave its caller

callerVars == <<nextId, caller, outcome>>
sharedVars == <<callReturns, future, outQueue, asyncSent>>
netVars    == <<toServer, toClient, accepted, served, linkUp>>
vars == <<callerVars, sharedVars, loop, netVars, clientUp>>

CallerPcs == {"idle", "insert", "enqueue", "notify", "wait"}
LoopPcs   == {"poll", "draining", "deliver", "erase", "closed"}

Init ==
  /\ nextId = 0
  /\ caller = [pc |-> "idle", id |-> NoId]
  /\ callReturns = {}
  /\ future = [i \in Ids |-> NoId]
  /\ outQueue = <<>>
  /\ asyncSent = FALSE
  /\ loop = [pc |-> "poll", id |-> NoId]
  /\ toServer = <<>>
  /\ toClient = <<>>
  /\ accepted = {}
  /\ served = {}
  /\ linkUp = TRUE
  /\ clientUp = TRUE
  /\ outcome = [i \in Ids |-> "none"]

-----------------------------------------------------------------------------
(* The application thread.                                                  *)

At(pc)   == clientUp /\ caller.pc = pc
Goto(pc) == caller' = [caller EXCEPT !.pc = pc]

\* getCall, under call_mutex: _next_id++.
PreIncremented == nextId + 1   \* fault: ++_next_id
DrawnId        == nextId
Advanced       == nextId + 1

GetCall ==
  /\ At("idle")
  /\ nextId < MaxId
  /\ caller' = [pc |-> "insert", id |-> DrawnId]
  /\ nextId' = Advanced
  /\ UNCHANGED <<outcome, sharedVars, loop, netVars, clientUp>>

\* makeCall: call_returns[call.id] = promise, while the loop thread may be
\* looking a promise up in the same tree or erasing one from it.
Overlap == loop.pc \in {"deliver", "erase"}

Insert ==
  /\ At("insert")
  /\ \/ /\ callReturns' = callReturns \cup {caller.id}
        /\ Goto("enqueue")
        /\ UNCHANGED clientUp
     \/ /\ Overlap
        /\ Goto("enqueue")
        /\ UNCHANGED <<callReturns, clientUp>>
     \/ /\ Overlap
        /\ clientUp' = FALSE
        /\ UNCHANGED <<callReturns, caller>>
  /\ UNCHANGED <<nextId, outcome, future, outQueue, asyncSent, loop, netVars>>

Enqueue ==
  /\ At("enqueue")
  /\ \/ /\ outQueue' = Append(outQueue, caller.id)
        /\ Goto("notify")
        /\ UNCHANGED clientUp
     \/ /\ loop.pc = "draining"
        /\ clientUp' = FALSE
        /\ UNCHANGED <<outQueue, caller>>
  /\ UNCHANGED <<nextId, outcome, callReturns, future, asyncSent, loop,
                 netVars>>

NoWakeup == asyncSent   \* fault: the loop thread is not woken
Wakeup   == TRUE

Send ==
  /\ At("notify")
  /\ asyncSent' = Wakeup
  /\ Goto("wait")
  /\ UNCHANGED <<nextId, outcome, callReturns, future, outQueue, loop,
                 netVars, clientUp>>

\* gen: wait_for(5 s).  A future that is ready is returned, or reported as an
\* exception when the reply in it is of another type than the call; otherwise
\* the caller gets an exception, and the promise stays in call_returns.
Finish(result) ==
  /\ outcome' = [outcome EXCEPT ![caller.id] = result]
  /\ caller' = [pc |-> "idle", id |-> NoId]
  /\ UNCHANGED <<nextId, sharedVars, loop, netVars, clientUp>>

GetReplyUnwaited == At("wait") /\ Finish("answered")   \* fault: no wait
GetReply == At("wait") /\ future[caller.id] # NoId /\ Finish("answered")
WrongType == At("wait") /\ future[caller.id] # NoId /\ Finish("mistyped")
TimeoutNever == FALSE                                 \* fault: an endless wait
Timeout  == At("wait") /\ future[caller.id] = NoId /\ Finish("timeout")

-----------------------------------------------------------------------------
(* The loop thread.                                                         *)

LoopAt(pc) == clientUp /\ loop.pc = pc

AsyncEvent ==
  /\ LoopAt("poll")
  /\ asyncSent
  /\ asyncSent' = FALSE
  /\ loop' = [loop EXCEPT !.pc = "draining"]
  /\ UNCHANGED <<callerVars, callReturns, future, outQueue, netVars, clientUp>>

\* onAsyncEvent: while (!calls_out_queue.empty()).  A packet written to a
\* manager that has gone is lost; the write raises SIGPIPE, which nothing
\* ignores, so it may end the client.
OneForOne  == "poll"       \* fault: one call for one wake-up
AfterOne   == "draining"

DrainOne ==
  /\ LoopAt("draining")
  /\ outQueue # <<>>
  /\ toServer' = IF linkUp THEN Append(toServer, Head(outQueue)) ELSE toServer
  /\ outQueue' = Tail(outQueue)
  /\ loop' = [loop EXCEPT !.pc = AfterOne]
  /\ clientUp' \in IF linkUp THEN {TRUE} ELSE BOOLEAN
  /\ UNCHANGED <<callerVars, callReturns, future, asyncSent, toClient,
                 accepted, served, linkUp>>

DrainDone ==
  /\ LoopAt("draining")
  /\ outQueue = <<>>
  /\ loop' = [loop EXCEPT !.pc = "poll"]
  /\ UNCHANGED <<callerVars, sharedVars, netVars, clientUp>>

\* onDataEvent with a reply: look the promise up, set it, then erase it.  The
\* caller may return, and call again, between the last two.  A lookup that
\* overlaps an insertion may miss what is there.
DataEvent ==
  /\ LoopAt("poll")
  /\ toClient # <<>>
  /\ loop' = [pc |-> "deliver", id |-> Head(toClient)]
  /\ toClient' = Tail(toClient)
  /\ UNCHANGED <<callerVars, sharedVars, toServer, accepted, served, linkUp,
                 clientUp>>

\* ... or with one that is not looked at: it does not verify, or came in one
\* read behind another packet, of which only the first is unpacked.
Unverified ==
  /\ LoopAt("poll")
  /\ toClient # <<>>
  /\ toClient' = Tail(toClient)
  /\ UNCHANGED <<callerVars, sharedVars, loop, toServer, accepted, served,
                 linkUp, clientUp>>

CurrentCall == caller.id   \* fault: a reply is taken for the current call's
RepliedCall == loop.id

Deliver ==
  /\ LoopAt("deliver")
  /\ \/ /\ RepliedCall \in callReturns
        /\ future' = [future EXCEPT ![RepliedCall] = loop.id]
        /\ loop' = [loop EXCEPT !.pc = "erase"]
     \/ /\ RepliedCall \notin callReturns \/ caller.pc = "insert"
        /\ loop' = [pc |-> "poll", id |-> NoId]
        /\ UNCHANGED future
  /\ UNCHANGED <<callerVars, callReturns, outQueue, asyncSent, netVars,
                 clientUp>>

NothingErased == {}        \* fault: the promise is left behind
Erased        == {loop.id}

Erase ==
  /\ LoopAt("erase")
  /\ callReturns' = callReturns \ Erased
  /\ loop' = [pc |-> "poll", id |-> NoId]
  /\ UNCHANGED <<callerVars, future, outQueue, asyncSent, netVars, clientUp>>

\* EndEvent, once the stream is drained; ErrorEvent when the manager left
\* packets unread, and what it had replied cannot be read either.  The async
\* handle keeps its listener: calls are still taken from the queue, and lost.
EndEvent ==
  /\ LoopAt("poll")
  /\ ~linkUp /\ toClient = <<>>
  /\ loop' = [loop EXCEPT !.pc = "closed"]
  /\ UNCHANGED <<callerVars, sharedVars, netVars, clientUp>>

ErrorEvent ==
  /\ LoopAt("poll")
  /\ ~linkUp
  /\ toClient' = <<>>
  /\ loop' = [loop EXCEPT !.pc = "closed"]
  /\ UNCHANGED <<callerVars, sharedVars, toServer, accepted, served, linkUp,
                 clientUp>>

AsyncAfterEnd ==
  /\ LoopAt("closed")
  /\ asyncSent
  /\ asyncSent' = FALSE
  /\ outQueue' = <<>>
  /\ clientUp' \in IF outQueue = <<>> THEN {TRUE} ELSE BOOLEAN
  /\ UNCHANGED <<callerVars, callReturns, future, loop, netVars>>

-----------------------------------------------------------------------------
(* The manager, as its clients see it.                                      *)

Read ==
  /\ linkUp
  /\ toServer # <<>>
  /\ accepted' = accepted \cup {Head(toServer)}
  /\ toServer' = Tail(toServer)
  /\ UNCHANGED <<callerVars, sharedVars, loop, toClient, served, linkUp,
                 clientUp>>

Reply(i) ==
  /\ linkUp
  /\ i \in accepted
  /\ accepted' = accepted \ {i}
  /\ served' = served \cup {i}
  /\ toClient' = Append(toClient, i)
  /\ UNCHANGED <<callerVars, sharedVars, loop, toServer, linkUp, clientUp>>

\* Refused, ignored or expired in the manager: no reply, ever.
Drop(i) ==
  /\ linkUp
  /\ i \in accepted
  /\ accepted' = accepted \ {i}
  /\ UNCHANGED <<callerVars, sharedVars, loop, toServer, toClient, served,
                 linkUp, clientUp>>

ManagerGone ==
  /\ linkUp
  /\ linkUp' = FALSE
  /\ toServer' = <<>>
  /\ accepted' = {}
  /\ UNCHANGED <<callerVars, sharedVars, loop, toClient, served, clientUp>>

\* The bound on ids, or an abort, ends a behaviour of the model.
Stopped ==
  /\ ~clientUp \/ (At("idle") /\ nextId = MaxId)
  /\ UNCHANGED vars

Application == GetCall \/ Insert \/ Enqueue \/ Send \/ GetReply \/ WrongType
               \/ Timeout
LoopThread  == AsyncEvent \/ DrainOne \/ DrainDone \/ DataEvent \/ Unverified
               \/ Deliver \/ Erase \/ EndEvent \/ ErrorEvent \/ AsyncAfterEnd
Manager     == Read \/ ManagerGone \/ \E i \in Ids : Reply(i) \/ Drop(i)

Next == Application \/ LoopThread \/ Manager \/ Stopped

Spec == Init /\ [][Next]_vars

\* Both threads run; a wait ends when its five seconds are over.  The manager
\* owes nothing.
Fairness ==
  /\ WF_vars(Insert \/ Enqueue \/ Send \/ GetReply \/ WrongType \/ Timeout)
  /\ WF_vars(LoopThread)

FairSpec == Spec /\ Fairness

-----------------------------------------------------------------------------

TypeOK ==
  /\ nextId \in 0 .. MaxId
  /\ caller \in [pc : CallerPcs, id : Ids \cup {NoId}]
  /\ callReturns \subseteq Ids
  /\ future \in [Ids -> Ids \cup {NoId}]
  /\ outQueue \in Seq(Ids)
  /\ asyncSent \in BOOLEAN
  /\ loop \in [pc : LoopPcs, id : Ids \cup {NoId}]
  /\ toServer \in Seq(Ids)
  /\ toClient \in Seq(Ids)
  /\ accepted \subseteq Ids
  /\ served \subseteq Ids
  /\ linkUp \in BOOLEAN
  /\ clientUp \in BOOLEAN
  /\ outcome \in [Ids -> {"none", "answered", "mistyped", "timeout"}]

TimedOut == {i \in Ids : outcome[i] = "timeout"}

\* A promise is set at most once.  A second set_value would throw future_error
\* on the loop thread and end the process.
PromiseSetOnce ==
  [][\A i \in Ids : future[i] # NoId => future'[i] = future[i] /\
       ~(loop.pc = "deliver" /\ loop.id = i /\ loop'.pc = "erase")]_vars

\* A call in the queue is never forgotten: while the loop thread sleeps, its
\* wake-up is pending or about to be sent, although wake-ups coalesce.
NoLostWakeup ==
  outQueue # <<>> /\ loop.pc \in {"poll", "closed"} /\ clientUp =>
    asyncSent \/ caller.pc = "notify"

\* call_returns holds no promise but that of the call being made, of one whose
\* reply is being handled and of calls that timed out: only those leak.
OnlyTimeoutsLeak ==
  callReturns \subseteq {caller.id, loop.id} \cup TimedOut

\* The two threads meet in the unguarded queue, or in the lookup of a promise,
\* only after a call has timed out.
RacesNeedATimeout ==
  \/ caller.pc = "enqueue" /\ loop.pc = "draining"
  \/ caller.pc = "insert" /\ loop.pc = "deliver"
  => TimedOut # {}

\* gen() always returns, whatever becomes of the manager.
CallReturns == \A i \in Ids : caller.id = i ~> caller.id # i \/ ~clientUp

\* Every call that is queued is taken from the queue, by one wake-up or another.
InQueue(i) == \E k \in DOMAIN outQueue : outQueue[k] = i
QueueDrains == \A i \in Ids : InQueue(i) ~> ~InQueue(i) \/ ~clientUp

\* The client implements request and reply: an answer is the one given to this
\* call, a late reply to a call that timed out is not seen by the next one.
Status(i) ==
  CASE outcome[i] = "answered"                    -> "answered"
    [] outcome[i] \in {"mistyped", "timeout"}     -> "failed"
    [] outcome[i] = "none" /\ i < nextId          -> "asked"
    [] OTHER                                      -> "unasked"

Abstract == INSTANCE RequestReply WITH
              Calls  <- Ids,
              status <- [i \in Ids |-> Status(i)],
              broken <- ~clientUp

ImplementsRequestReply == Abstract!Spec
=============================================================================
