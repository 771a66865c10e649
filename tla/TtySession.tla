------------------------------ MODULE TtySession ------------------------------
(***************************************************************************)
(* The tty sessions of the API daemon (lib/apps/api/handlers.cpp) with the *)
(* exit events its client receives (lib/ipc/client.hpp).  A websocket that *)
(* connects is given a pty; an authenticator, started by the manager on    *)
(* the other side of it, talks to the reader behind the websocket.         *)
(*                                                                         *)
(* Two threads: the web server's runs onConnect, onData, onDisconnect and  *)
(* the tasks given to server.execute; the loop thread of IpcClient runs    *)
(* the poll listeners and the exit event.  close_mutex serialises closeOut *)
(* only.  What else they share (connections, fds, handles, the callbacks,  *)
(* the loop's own tables) is touched by both with no lock: a step of the   *)
(* web thread in the middle of one of the loop thread has undefined        *)
(* behaviour, here as intended or an abort.                                *)
(*                                                                         *)
(* Every session has the device id "yes", so each of the maps has at most  *)
(* one entry, whichever sessions there are.                                *)
(***************************************************************************)
EXTENDS Integers, Sequences, FiniteSets

CONSTANTS
  Sockets,      \* addresses a WebSocket may be allocated at
  Fds,          \* descriptors of pty masters; they name the tty as well
  MaxSessions,  \* bound: websockets that connect, one after another
  MaxTasks      \* bound: tasks queued when an authenticator writes

ASSUME SessionAssumption ==
  /\ MaxSessions \in Nat /\ MaxTasks \in Nat
  /\ 0 \notin Sockets \cup Fds

Sessions == 1 .. MaxSessions
None     == 0

VARIABLES
  apiUp,        \* FALSE once undefined behaviour or an exception ended the API
  started,      \* sessions that have connected
  web,          \* where the web thread is: "serving", or a step of onConnect
  loop,         \* where the loop thread is, and for which session
  socketOf,     \* the WebSocket pointer a session's lambdas captured
  fdOf,         \* the master descriptor they captured
  tenant,       \* the session whose WebSocket is alive at an address
  leaving,      \* sessions whose websocket was shut down by either side
  connections,  \* connections["yes"], an address
  fds,          \* fds["yes"], a descriptor
  handles,      \* handles["yes"], the session whose PollHandle it is
  polling,      \* sessions whose PollHandle is started and not closed
  handlers,     \* sessions whose exit-event callback is registered
  tasks,        \* what server.execute has queued
  master,       \* the session that opened a descriptor's pty
  output,       \* the authenticator whose bytes wait in a pty
  auth,         \* a session's authenticator, as the manager runs it
  attached,     \* authenticators that hold their tty open
  exitEvents,   \* AuthenticatorExitEvents on their way
  alone         \* sessions that began when no other was under way

sessionVars == <<started, socketOf, fdOf, alone>>
socketVars  == <<tenant, leaving>>
heldVars    == <<connections, fds, handles, polling, tasks, master, output,
                 attached>>
authVars    == <<auth, exitEvents>>
vars == <<apiUp, sessionVars, web, loop, socketVars, heldVars, handlers, authVars>>

Init ==
  /\ apiUp = TRUE
  /\ started = 0
  /\ web = "serving"
  /\ loop = [pc |-> "idle", session |-> None, hup |-> FALSE]
  /\ socketOf = [k \in Sessions |-> None]
  /\ fdOf = [k \in Sessions |-> None]
  /\ tenant = [s \in Sockets |-> None]
  /\ leaving = {}
  /\ connections = None /\ fds = None /\ handles = None
  /\ polling = {}
  /\ handlers = {}
  /\ tasks = <<>>
  /\ master = [n \in Fds |-> None]
  /\ output = [n \in Fds |-> None]
  /\ auth = [k \in Sessions |-> "none"]
  /\ attached = {}
  /\ exitEvents = {}
  /\ alone = {}

Live(k) == k <= started /\ tenant[socketOf[k]] = k

-----------------------------------------------------------------------------
(* closeOut, under close_mutex: each of the three maps by itself.           *)

Forget == connections' = None /\ fds' = None /\ handles' = None

\* The lambda that is queued, with what it captured; "at" is not in the code but
\* records how many sessions there had been.
Task(do, socket, from) ==
  [do |-> do, socket |-> socket, from |-> from, at |-> started]

CloseTaskUnchecked ==    \* fault: count() not looked at, a null pointer
  <<Task("close", connections, None)>>
CloseTask == IF connections = None THEN <<>>
             ELSE <<Task("close", connections, None)>>

CloseFd(left) ==
  /\ master' = [n \in Fds |-> IF n = fds THEN None ELSE master[n]]
  /\ output' = [n \in Fds |-> IF n = fds THEN None ELSE left[n]]
  /\ attached' = {a \in attached : fdOf[a] # fds}

\* queued: what the caller has just queued; left: the bytes it left unread.
CloseOutKeepsHandle(queued, left) ==   \* fault: the handle is not closed
  /\ tasks' = tasks \o queued \o CloseTask
  /\ CloseFd(left)
  /\ Forget
  /\ UNCHANGED polling

CloseOut(queued, left) ==
  /\ tasks' = tasks \o queued \o CloseTask
  /\ polling' = polling \ {handles}
  /\ CloseFd(left)
  /\ Forget

-----------------------------------------------------------------------------
(* The web thread.                                                          *)

Web(step) == apiUp /\ web = step

\* A step that shares data with the loop thread and takes no lock against it.
Unlocked == apiUp' \in IF loop.pc = "idle" THEN {TRUE} ELSE BOOLEAN

\* onConnect, in the order of the code: after the pty has been opened, the
\* maps are filled, the callback registered and the authenticator asked for.
AsksFirst == <<"install", "ask", "subscribe", "wait">>   \* fault: order swapped
OnConnect == <<"install", "subscribe", "ask", "wait">>
StepAfter(step) ==
  OnConnect[1 + CHOOSE i \in DOMAIN OnConnect : OnConnect[i] = step]

\* No session is under way: no websocket is open, and every authenticator
\* that was asked for has gone and been heard of.  Tasks may still be queued.
Quiet ==
  /\ \A s \in Sockets : tenant[s] = None
  /\ loop.pc = "idle" /\ exitEvents = {}
  /\ \A k \in Sessions : auth[k] \in {"none", "down"}

\* openpty, and a poll handle started on the master.  The slave has been
\* opened and closed again, so until an authenticator opens it the master
\* reports a hang-up.
OpenTty(s, n) ==
  /\ Web("serving")
  /\ started < MaxSessions
  /\ tenant[s] = None /\ master[n] = None
  /\ LET k == started + 1 IN
       /\ started' = k
       /\ tenant' = [tenant EXCEPT ![s] = k]
       /\ socketOf' = [socketOf EXCEPT ![k] = s]
       /\ fdOf' = [fdOf EXCEPT ![k] = n]
       /\ master' = [master EXCEPT ![n] = k]
       /\ polling' = polling \cup {k}
       /\ alone' = IF Quiet THEN alone \cup {k} ELSE alone
  /\ connections' = s
  /\ web' = OnConnect[1]
  /\ Unlocked
  /\ UNCHANGED <<loop, leaving, fds, handles, handlers, tasks, output,
                 attached, authVars>>

Install ==
  /\ Web("install")
  /\ fds' = fdOf[started]
  /\ handles' = started
  /\ web' = StepAfter("install")
  /\ Unlocked
  /\ UNCHANGED <<sessionVars, loop, socketVars, connections, polling, tasks,
                 master, output, attached, handlers, authVars>>

Subscribe ==
  /\ Web("subscribe")
  /\ handlers' = handlers \cup {started}
  /\ web' = StepAfter("subscribe")
  /\ Unlocked
  /\ UNCHANGED <<sessionVars, loop, socketVars, heldVars, authVars>>

Ask ==
  /\ Web("ask")
  /\ auth' = [auth EXCEPT ![started] = "asked"]
  /\ web' = StepAfter("ask")
  /\ UNCHANGED <<apiUp, sessionVars, loop, socketVars, heldVars, handlers,
                 exitEvents>>

\* gen() returns: with the manager's reply, whose status is always true; or
\* with an exception, when five seconds are over, that nothing here catches.
Return ==
  /\ Web("wait")
  /\ web' = "serving"
  /\ apiUp' \in BOOLEAN
  /\ UNCHANGED <<sessionVars, loop, socketVars, heldVars, handlers, authVars>>

\* onData writes to the tty that is in the map, whose ever it is, or, when
\* there is none, throws: fds.at().
OnData(k) ==
  /\ Web("serving")
  /\ Live(k) /\ k \notin leaving
  /\ fds = None
  /\ apiUp' \in BOOLEAN
  /\ UNCHANGED <<sessionVars, web, loop, socketVars, heldVars, handlers,
                 authVars>>

\* onDisconnect, after which the server frees the WebSocket.  The close that
\* closeOut queues is for the very socket that is going.
OnDisconnect(k) ==
  /\ Web("serving")
  /\ Live(k) /\ k \in leaving
  /\ CloseOut(<<>>, output)
  /\ tenant' = [tenant EXCEPT ![socketOf[k]] = None]
  /\ Unlocked
  /\ UNCHANGED <<sessionVars, web, loop, leaving, handlers, authVars>>

\* A task uses its socket by address.  If the WebSocket has been freed, that
\* is harmless, or ends the API, or hits the one that now lives there.
RunTask ==
  /\ Web("serving")
  /\ tasks # <<>>
  /\ tasks' = Tail(tasks)
  /\ LET t == Head(tasks)
         k == tenant[t.socket]
     IN \/ /\ k = None
           /\ apiUp' \in BOOLEAN
           /\ UNCHANGED leaving
        \/ /\ k # None /\ t.do = "close"
           /\ leaving' = leaving \cup {k}
           /\ UNCHANGED apiUp
        \/ /\ k # None /\ t.do = "send"
           /\ UNCHANGED <<apiUp, leaving>>
  /\ UNCHANGED <<sessionVars, web, loop, tenant, connections, fds, handles,
                 polling, master, output, attached, handlers, authVars>>

-----------------------------------------------------------------------------
(* The loop thread.                                                         *)

Loop(pc) == apiUp /\ loop.pc = pc
LoopIdle == loop' = [pc |-> "idle", session |-> None, hup |-> FALSE]

HangUp(n) == \A a \in attached : fdOf[a] # n

\* A master is readable, or hung up: libuv then reports READABLE and, when
\* there was nothing to read, DISCONNECT with it.
PollWakes(k) ==
  /\ Loop("idle")
  /\ k \in polling
  /\ output[fdOf[k]] # None \/ HangUp(fdOf[k])
  /\ loop' = [pc |-> "poll", session |-> k, hup |-> output[fdOf[k]] = None]
  /\ UNCHANGED <<apiUp, sessionVars, web, socketVars, heldVars, handlers,
                 authVars>>

\* The PollEvent listener: a read that fails returns at once, with DISCONNECT
\* not looked at.  The descriptor may have been closed, or opened for another
\* session, since the poll.
HungUpCloses ==     \* fault: DISCONNECT looked at although the read failed
  \/ loop.hup /\ CloseOut(<<>>, output)
  \/ ~loop.hup /\ UNCHANGED heldVars
ReadFails == UNCHANGED heldVars

PollEvent ==
  /\ Loop("poll")
  /\ LoopIdle
  /\ LET n    == fdOf[loop.session]
         read == [output EXCEPT ![n] = None]
         send == Task("send", socketOf[loop.session], output[n])
     IN \/ output[n] = None /\ ReadFails
        \/ /\ output[n] # None /\ ~loop.hup
           /\ tasks' = Append(tasks, send)
           /\ output' = read
           /\ UNCHANGED <<connections, fds, handles, polling, master, attached>>
        \/ output[n] # None /\ loop.hup /\ CloseOut(<<send>>, read)
  /\ UNCHANGED <<apiUp, sessionVars, web, socketVars, handlers, authVars>>

\* onDataEvent with an AuthenticatorExitEvent: every registered callback finds
\* its own device id in it, closes out and is dropped.
ExitEventBegins(k) ==
  /\ Loop("idle")
  /\ k \in exitEvents
  /\ exitEvents' = exitEvents \ {k}
  /\ loop' = [pc |-> "exit", session |-> k, hup |-> FALSE]
  /\ UNCHANGED <<apiUp, sessionVars, web, socketVars, heldVars, handlers, auth>>

ExitEventEnds ==
  /\ Loop("exit")
  /\ LoopIdle
  /\ handlers' = {}
  /\ \/ handlers # {} /\ CloseOut(<<>>, output)
     \/ handlers = {} /\ UNCHANGED heldVars
  /\ UNCHANGED <<apiUp, sessionVars, web, socketVars, authVars>>

-----------------------------------------------------------------------------
(* The websocket's far end, and the authenticators the manager runs.        *)

ClientLeaves(k) ==
  /\ Live(k)
  /\ leaving' = leaving \cup {k}
  /\ UNCHANGED <<apiUp, sessionVars, web, loop, tenant, heldVars, handlers,
                 authVars>>

apiVars == <<apiUp, sessionVars, web, loop, socketVars, handlers, connections,
             fds, handles, polling, tasks, master>>

\* The spawn is tried, at any time after it was asked for.
AuthSpawned(k) ==
  /\ auth[k] = "asked"
  /\ \/ auth' = [auth EXCEPT ![k] = "up"] /\ UNCHANGED exitEvents
     \/ /\ auth' = [auth EXCEPT ![k] = "down"]
        /\ exitEvents' = exitEvents \cup {k}
  /\ UNCHANGED <<apiVars, output, attached>>

\* The tty is named by number: a later session may have been given it.
AuthOpens(k) ==
  /\ auth[k] = "up" /\ k \notin attached
  /\ master[fdOf[k]] # None
  /\ attached' = attached \cup {k}
  /\ UNCHANGED <<apiVars, output, authVars>>

\* auth.cpp closes the tty once before libnfc opens it again.
AuthCloses(k) ==
  /\ k \in attached
  /\ attached' = attached \ {k}
  /\ UNCHANGED <<apiVars, output, authVars>>

AuthWrites(k) ==
  /\ k \in attached
  /\ output[fdOf[k]] = None
  /\ Len(tasks) < MaxTasks
  /\ output' = [output EXCEPT ![fdOf[k]] = k]
  /\ UNCHANGED <<apiVars, attached, authVars>>

AuthExits(k) ==
  /\ auth[k] = "up"
  /\ auth' = [auth EXCEPT ![k] = "down"]
  /\ attached' = attached \ {k}
  /\ exitEvents' = exitEvents \cup {k}
  /\ UNCHANGED <<apiVars, output>>

\* The bound on sessions, or an abort, ends a behaviour of the model.
Stopped ==
  /\ ~apiUp \/ (started = MaxSessions /\ web = "serving")
  /\ UNCHANGED vars

WebThread ==
  \/ \E s \in Sockets, n \in Fds : OpenTty(s, n)
  \/ Install \/ Subscribe \/ Ask \/ Return \/ RunTask
  \/ \E k \in Sessions : OnData(k) \/ OnDisconnect(k)

LoopThread ==
  \/ \E k \in Sessions : PollWakes(k) \/ ExitEventBegins(k)
  \/ PollEvent \/ ExitEventEnds

\* What goes on outside is of no interest once the API has ended.
Outside ==
  /\ apiUp
  /\ \E k \in Sessions :
       ClientLeaves(k) \/ AuthSpawned(k) \/ AuthOpens(k) \/ AuthCloses(k)
       \/ AuthWrites(k) \/ AuthExits(k)

Next == WebThread \/ LoopThread \/ Outside \/ Stopped

Spec == Init /\ [][Next]_vars

\* Both threads run.  A turn of the loop handles every descriptor that is
\* ready, so a hang-up that is always there does not keep an event waiting; a
\* turn of the web server runs its tasks and sees the sockets that are shut.
Fairness ==
  /\ WF_vars(Install \/ Subscribe \/ Ask \/ Return)
  /\ WF_vars(PollEvent \/ ExitEventEnds)
  /\ SF_vars(RunTask)
  /\ \A k \in Sessions : SF_vars(ExitEventBegins(k)) /\ SF_vars(OnDisconnect(k))

FairSpec == Spec /\ Fairness

-----------------------------------------------------------------------------

TypeOK ==
  /\ apiUp \in BOOLEAN
  /\ started \in 0 .. MaxSessions
  /\ web \in {"serving", "install", "subscribe", "ask", "wait"}
  /\ loop \in [pc : {"idle", "poll", "exit"}, session : 0 .. started,
               hup : BOOLEAN]
  /\ socketOf \in [Sessions -> Sockets \cup {None}]
  /\ fdOf \in [Sessions -> Fds \cup {None}]
  /\ tenant \in [Sockets -> 0 .. started]
  /\ connections \in Sockets \cup {None}
  /\ fds \in Fds \cup {None}
  /\ handles \in 0 .. started
  /\ leaving \cup polling \cup handlers \cup attached \cup exitEvents \cup alone
       \subseteq 1 .. started
  /\ tasks \in Seq([do : {"close", "send"}, socket : Sockets, from : 0 .. started,
                    at : 0 .. started])
  /\ master \in [Fds -> 0 .. started]
  /\ output \in [Fds -> 0 .. started]
  /\ auth \in [Sessions -> {"none", "asked", "up", "down"}]

\* A session that is over has released its poll handle and its pty, whichever
\* thread closed it out and however often; only a session that was joined by
\* another can leave them behind.
OnlyJoinedSessionsLeak ==
  \A k \in 1 .. started :
    \/ Live(k)
    \/ k \notin polling /\ master[fdOf[k]] # k
    \/ \E j \in k + 1 .. started : j \notin alone

\* A session that began alone is closed out because its websocket went or its
\* authenticator did; in one more case only, when bytes arrive between the
\* poll that reported the tty unopened and the read.  That the tty is hung up
\* while the authenticator starts does not close it.
ClosedForACause ==
  [][\A k \in alone :
       handles = k /\ handles' = None =>
         \/ k \in leaving
         \/ auth[k] = "down"
         \/ loop.hup /\ output[fdOf[loop.session]] # None]_vars

\* No session has begun, since k did, while another was under way.
Unjoined(k) == \A j \in k + 1 .. started : j \in alone

\* When a task delivers bytes of the authenticator of a session that began
\* alone and was not joined, the websocket at its raw pointer is that session's
\* own, although descriptor and pointer were captured long before.  Once the
\* session's has gone the bytes are lost, or hit the websocket of a session
\* that connected at the same address while this very task was waiting.
ReaderHearsItsOwn ==
  [][\A k \in alone :
       LET t == Head(tasks) IN
         Unjoined(k) /\ Len(tasks') < Len(tasks) /\ t.do = "send" /\ t.from = k
           => \/ tenant[t.socket] = k
              \/ ~Live(k) /\ (tenant[t.socket] = None \/ tenant[t.socket] > t.at)]_vars

\* When the authenticator of a session that began alone has gone, its websocket
\* is closed: the exit event finds a callback, even if it overtakes the reply
\* to the call that asked for the authenticator.
EndsWithItsAuthenticator ==
  \A k \in Sessions :
    k \in alone /\ auth[k] = "down" ~> ~Live(k) \/ started > k \/ ~apiUp
=============================================================================
