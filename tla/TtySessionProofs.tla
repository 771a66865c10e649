---------------------------- MODULE TtySessionProofs ----------------------------
(***************************************************************************)
(* Theorems about TtySession, for any numbers of addresses, descriptors    *)
(* and sessions.                                                           *)
(*                                                                         *)
(* The argument: the maps always describe one session, the latest or, as   *)
(* long as the latest has not been put into them, the one before (MapsInv) *)
(* so whoever closes out releases the poll handle and the pty of the same  *)
(* session.  And a session that began alone has no predecessor that could  *)
(* still close it out or read its tty (AloneInv).  What was read is sent    *)
(* later, by a task: HearInv says where every queued task will find whom.   *)
(***************************************************************************)
EXTENDS TtySession, SequenceTheorems, TLAPS

SessionTypes ==
  /\ TypeOK
  /\ \A k \in 1 .. started : socketOf[k] \in Sockets /\ fdOf[k] \in Fds
  /\ \A k \in Sessions : k > started => auth[k] = "none"
  /\ web # "serving" => started # 0
  /\ loop.pc = "idle" <=> loop.session = None

\* What the maps hold, and what a session has that is not in them.
MapsInv ==
  /\ IF web = "install"
     THEN /\ started \in polling
          /\ handles # None => handles = started - 1 /\ started \notin alone
     ELSE handles \in {None, started}
  /\ fds = IF handles = None THEN None ELSE fdOf[handles]
  /\ handles # None => handles \in polling
  /\ started \in polling => handles = started \/ web = "install"
  /\ started # 0 /\ ~ Live(started) => handles = None /\ web = "serving"

\* A session polls its pty as long as the pty is its own.
PollInv ==
  /\ \A k \in 1 .. started : k \in polling <=> master[fdOf[k]] = k
  /\ \A k \in polling, e \in 1 .. started : k < e => fdOf[k] # fdOf[e]
  /\ \A n \in Fds : output[n] # None => fdOf[output[n]] = n

\* An exit is told when it has happened.
ExitInv ==
  /\ web \in {"install", "subscribe", "ask"} => auth[started] = "none"
  /\ \A e \in exitEvents : auth[e] = "down"
  /\ loop.pc = "exit" => auth[loop.session] = "down"

\* What is left of the sessions before one that began alone: nothing but, if
\* they leaked it, a poll handle on a pty of their own.
AloneInv ==
  \A k \in alone : \A e \in 1 .. k - 1 :
    /\ ~ Live(e) /\ auth[e] \in {"none", "down"} /\ e \notin exitEvents
    /\ loop.session = e =>
         loop.pc = "poll" /\ (k \in polling => e \in polling)

TtyInv ==
  SessionTypes /\ MapsInv /\ PollInv /\ ExitInv /\ AloneInv
    /\ OnlyJoinedSessionsLeak

TaskSet(n) ==
  [do : {"close", "send"}, socket : Sockets, from : 0 .. n, at : 0 .. n]

-----------------------------------------------------------------------------
(* What outside the API happens.                                            *)

LEMMA ClientLeavesKeeps ==
  ASSUME TtyInv, NEW k \in Sessions, ClientLeaves(k)
  PROVE  TtyInv'
<1> USE DEF ClientLeaves, sessionVars, heldVars, authVars
<1>1. SessionTypes'
  <2>1. leaving' \subseteq 1 .. started /\ started' = started
    BY DEF Live, Sessions, TtyInv, SessionTypes, TypeOK
  <2> QED
    BY <2>1 DEF TtyInv, SessionTypes, TypeOK
<1>2. MapsInv' /\ PollInv' /\ ExitInv'
  BY DEF TtyInv, MapsInv, PollInv, ExitInv, Live
<1>3. AloneInv' /\ OnlyJoinedSessionsLeak'
  BY DEF TtyInv, AloneInv, OnlyJoinedSessionsLeak, Live
<1> QED
  BY <1>1, <1>2, <1>3 DEF TtyInv

LEMMA AuthSpawnedKeeps ==
  ASSUME TtyInv, NEW k \in Sessions, AuthSpawned(k)
  PROVE  TtyInv'
<1> USE DEF AuthSpawned, apiVars, sessionVars, socketVars
<1>1. /\ k \in 1 .. started /\ auth \in [Sessions -> {"none", "asked", "up", "down"}]
      /\ UNCHANGED <<apiUp, started, socketOf, fdOf, alone, web, loop, tenant,
                     leaving, handlers, connections, fds, handles, polling,
                     tasks, master, output, attached>>
  BY DEF Sessions, TtyInv, SessionTypes, TypeOK
<1>2. PICK r \in {"up", "down"} :
        /\ auth' = [auth EXCEPT ![k] = r]
        /\ exitEvents' = exitEvents \/ (r = "down" /\ exitEvents' = exitEvents \cup {k})
  OBVIOUS
<1>3. SessionTypes'
  <2>1. auth' \in [Sessions -> {"none", "asked", "up", "down"}]
    BY <1>1, <1>2
  <2>2. exitEvents' \subseteq 1 .. started
    BY <1>1, <1>2 DEF TtyInv, SessionTypes, TypeOK
  <2>3. \A e \in Sessions : e > started => auth'[e] = "none"
    BY <1>1, <1>2 DEF TtyInv, SessionTypes, TypeOK
  <2> QED
    BY <1>1, <2>1, <2>2, <2>3 DEF TtyInv, SessionTypes, TypeOK
<1>4. MapsInv' /\ PollInv' /\ OnlyJoinedSessionsLeak'
  BY <1>1 DEF TtyInv, MapsInv, PollInv, OnlyJoinedSessionsLeak, Live
<1>5. ExitInv'
  <2>1. \A e \in Sessions : e # k => auth'[e] = auth[e]
    BY <1>1, <1>2
  <2>2. auth'[k] = r /\ k \in Sessions
    BY <1>1, <1>2
  <2>3. ASSUME web \in {"install", "subscribe", "ask"}
        PROVE  auth'[started] = "none"
    <3>1. auth[started] = "none" /\ started \in Sessions
      BY <2>3 DEF TtyInv, ExitInv, Sessions, SessionTypes, TypeOK
    <3>2. QED
      BY <2>1, <3>1
  <2>4. ASSUME NEW e \in exitEvents'
        PROVE  auth'[e] = "down"
    <3>1. CASE e \in exitEvents
      <4>1. auth[e] = "down" /\ e \in 1 .. started
        BY <3>1 DEF TtyInv, ExitInv, SessionTypes, TypeOK
      <4>2. e \in Sessions /\ e # k
        <5>1. started \in 0 .. MaxSessions /\ auth[k] = "asked"
          BY DEF TtyInv, SessionTypes, TypeOK
        <5>2. QED
          BY <4>1, <5>1, SessionAssumption DEF Sessions
      <4>3. QED
        BY <2>1, <4>1, <4>2
    <3>2. CASE e \notin exitEvents
      BY <1>2, <2>2, <2>4, <3>2
    <3>3. QED
      BY <3>1, <3>2
  <2>5. ASSUME loop.pc = "exit"
        PROVE  auth'[loop.session] = "down"
    <3>1. auth[loop.session] = "down"
      BY <2>5 DEF TtyInv, ExitInv
    <3>2. loop.session \in Sessions
      <4>1. /\ loop.session \in 0 .. started /\ loop.session # None
            /\ started \in 0 .. MaxSessions
        BY <2>5 DEF TtyInv, SessionTypes, TypeOK
      <4>2. QED
        BY <4>1, SessionAssumption DEF Sessions, None
    <3>3. QED
      BY <2>1, <3>1, <3>2
  <2> QED
    BY <1>1, <2>3, <2>4, <2>5 DEF ExitInv
<1>6. AloneInv'
  <2> SUFFICES ASSUME NEW j \in alone, NEW e \in 1 .. j - 1
               PROVE  /\ ~ Live(e) /\ auth'[e] \in {"none", "down"} /\ e \notin exitEvents'
                      /\ loop.session = e =>
                           loop.pc = "poll" /\ (j \in polling => e \in polling)
    BY <1>1 DEF AloneInv, Live
  <2>1. auth[e] \in {"none", "down"} /\ e \notin exitEvents
    BY DEF TtyInv, AloneInv
  <2>2. e # k
    BY <2>1
  <2> QED
    BY <1>1, <1>2, <2>1, <2>2 DEF TtyInv, AloneInv
<1> QED
  BY <1>3, <1>4, <1>5, <1>6 DEF TtyInv

LEMMA AuthOpensKeeps ==
  ASSUME TtyInv, NEW k \in Sessions, AuthOpens(k)
  PROVE  TtyInv'
<1> USE DEF AuthOpens, apiVars, sessionVars, socketVars, authVars
<1>1. SessionTypes'
  <2>1. attached' \subseteq 1 .. started /\ started' = started
    BY DEF Sessions, TtyInv, SessionTypes, TypeOK
  <2> QED
    BY <2>1 DEF TtyInv, SessionTypes, TypeOK
<1>2. MapsInv' /\ PollInv' /\ ExitInv'
  BY DEF TtyInv, MapsInv, PollInv, ExitInv, Live
<1>3. AloneInv' /\ OnlyJoinedSessionsLeak'
  BY DEF TtyInv, AloneInv, OnlyJoinedSessionsLeak, Live
<1> QED
  BY <1>1, <1>2, <1>3 DEF TtyInv

LEMMA AuthClosesKeeps ==
  ASSUME TtyInv, NEW k \in Sessions, AuthCloses(k)
  PROVE  TtyInv'
<1> USE DEF AuthCloses, apiVars, sessionVars, socketVars, authVars
<1>1. SessionTypes'
  <2>1. attached' \subseteq 1 .. started /\ started' = started
    BY DEF TtyInv, SessionTypes, TypeOK
  <2> QED
    BY <2>1 DEF TtyInv, SessionTypes, TypeOK
<1>2. MapsInv' /\ PollInv' /\ ExitInv'
  BY DEF TtyInv, MapsInv, PollInv, ExitInv, Live
<1>3. AloneInv' /\ OnlyJoinedSessionsLeak'
  BY DEF TtyInv, AloneInv, OnlyJoinedSessionsLeak, Live
<1> QED
  BY <1>1, <1>2, <1>3 DEF TtyInv

LEMMA AuthWritesKeeps ==
  ASSUME TtyInv, NEW k \in Sessions, AuthWrites(k)
  PROVE  TtyInv'
<1> USE DEF AuthWrites, apiVars, sessionVars, socketVars, authVars
<1>1. /\ k \in 1 .. started /\ fdOf[k] \in Fds
      /\ output \in [Fds -> 0 .. started]
  BY DEF Sessions, TtyInv, SessionTypes, TypeOK
<1>2. SessionTypes'
  <2>1. output' \in [Fds -> 0 .. started] /\ started' = started
    BY <1>1
  <2> QED
    BY <2>1 DEF TtyInv, SessionTypes, TypeOK
<1>3. MapsInv' /\ ExitInv'
  BY DEF TtyInv, MapsInv, ExitInv, Live
<1>4. AloneInv' /\ OnlyJoinedSessionsLeak'
  BY DEF TtyInv, AloneInv, OnlyJoinedSessionsLeak, Live
<1>5. PollInv'
  <2>1. \A n \in Fds : output'[n] # None => fdOf[output'[n]] = n
    BY <1>1 DEF TtyInv, PollInv
  <2> QED
    BY <2>1 DEF TtyInv, PollInv
<1> QED
  BY <1>2, <1>3, <1>4, <1>5 DEF TtyInv

LEMMA AuthExitsKeeps ==
  ASSUME TtyInv, NEW k \in Sessions, AuthExits(k)
  PROVE  TtyInv'
<1> USE DEF AuthExits, apiVars, sessionVars, socketVars
<1>1. /\ k \in 1 .. started /\ auth \in [Sessions -> {"none", "asked", "up", "down"}]
      /\ UNCHANGED <<apiUp, started, socketOf, fdOf, alone, web, loop, tenant,
                     leaving, handlers, connections, fds, handles, polling,
                     tasks, master, output>>
  BY DEF Sessions, TtyInv, SessionTypes, TypeOK
<1>2. SessionTypes'
  <2>1. auth' \in [Sessions -> {"none", "asked", "up", "down"}]
    BY <1>1
  <2>2. exitEvents' \cup attached' \subseteq 1 .. started
    BY <1>1 DEF TtyInv, SessionTypes, TypeOK
  <2>3. \A e \in Sessions : e > started => auth'[e] = "none"
    BY <1>1 DEF TtyInv, SessionTypes, TypeOK
  <2> QED
    BY <1>1, <2>1, <2>2, <2>3 DEF TtyInv, SessionTypes, TypeOK
<1>3. MapsInv' /\ PollInv' /\ OnlyJoinedSessionsLeak'
  BY <1>1 DEF TtyInv, MapsInv, PollInv, OnlyJoinedSessionsLeak, Live
<1>4. ExitInv'
  <2>1. auth[k] = "up" /\ \A e \in Sessions : e # k => auth'[e] = auth[e]
    BY <1>1
  <2>2. auth'[k] = "down"
    BY <1>1
  <2>3. started \in 0 .. MaxSessions /\ loop.session \in 0 .. started
    BY DEF TtyInv, SessionTypes, TypeOK
  <2>4. ASSUME web \in {"install", "subscribe", "ask"}
        PROVE  auth'[started] = "none"
    <3>1. auth[started] = "none"
      BY <2>4 DEF TtyInv, ExitInv
    <3>2. started \in Sessions
      BY <1>1, <2>3, SessionAssumption DEF Sessions
    <3>3. QED
      BY <2>1, <3>1, <3>2
  <2>5. ASSUME NEW e \in exitEvents'
        PROVE  auth'[e] = "down"
    <3>1. CASE e = k
      BY <2>2, <3>1
    <3>2. CASE e # k
      <4>1. auth[e] = "down" /\ e \in 1 .. started
        BY <2>5, <3>2 DEF TtyInv, ExitInv, SessionTypes, TypeOK
      <4>2. e \in Sessions
        BY <2>3, <4>1, SessionAssumption DEF Sessions
      <4>3. QED
        BY <2>1, <3>2, <4>1, <4>2
    <3>3. QED
      BY <3>1, <3>2
  <2>6. ASSUME loop.pc = "exit"
        PROVE  auth'[loop.session] = "down"
    <3>1. auth[loop.session] = "down" /\ loop.session # None
      BY <2>6 DEF TtyInv, ExitInv, SessionTypes
    <3>2. loop.session \in Sessions
      BY <2>3, <3>1, SessionAssumption DEF Sessions, None
    <3>3. QED
      BY <2>1, <2>2, <3>1, <3>2
  <2> QED
    BY <1>1, <2>4, <2>5, <2>6 DEF ExitInv
<1>5. AloneInv'
  <2> SUFFICES ASSUME NEW j \in alone, NEW e \in 1 .. j - 1
               PROVE  /\ ~ Live(e) /\ auth'[e] \in {"none", "down"} /\ e \notin exitEvents'
                      /\ loop.session = e =>
                           loop.pc = "poll" /\ (j \in polling => e \in polling)
    BY <1>1 DEF AloneInv, Live
  <2>1. auth[e] \in {"none", "down"} /\ e \notin exitEvents
    BY DEF TtyInv, AloneInv
  <2>2. e # k
    BY <2>1
  <2> QED
    BY <1>1, <2>1, <2>2 DEF TtyInv, AloneInv
<1> QED
  BY <1>2, <1>3, <1>4, <1>5 DEF TtyInv

-----------------------------------------------------------------------------
(* closeOut.                                                                *)

\* Where the maps are, the latest session is or will be.
LEMMA HandlesAre ==
  ASSUME TtyInv
  PROVE  /\ started \in Nat /\ handles \in 0 .. started /\ started - 1 \in Int
         /\ handles # None => /\ handles \in 1 .. started /\ handles \in polling
                              /\ fds = fdOf[handles] /\ fds \in Fds
                              /\ master[fds] = handles
         /\ handles = None => fds = None /\ \A n \in Fds : n # fds
<1>1. started \in Nat /\ handles \in 0 .. started
  BY SessionAssumption DEF TtyInv, SessionTypes, TypeOK
<1>2. ASSUME handles # None
      PROVE  /\ handles \in 1 .. started /\ handles \in polling
             /\ fds = fdOf[handles] /\ fds \in Fds /\ master[fds] = handles
  BY <1>1, <1>2 DEF TtyInv, SessionTypes, MapsInv, PollInv, None
<1>3. ASSUME handles = None PROVE fds = None /\ \A n \in Fds : n # fds
  BY <1>3, SessionAssumption DEF TtyInv, MapsInv, None
<1> QED
  BY <1>1, <1>2, <1>3

\* closeOut releases the poll handle and the pty of one session, the one the
\* maps describe, and of no other.
LEMMA ClosedOut ==
  ASSUME TtyInv, NEW queued \in Seq(TaskSet(started)),
         NEW left \in [Fds -> 0 .. started],
         \A n \in Fds : left[n] \in {None, output[n]},
         CloseOut(queued, left), UNCHANGED <<started, socketOf, fdOf>>
  PROVE  /\ tasks' \in Seq(TaskSet(started))
         /\ master' \in [Fds -> 0 .. started] /\ output' \in [Fds -> 0 .. started]
         /\ attached' \subseteq attached /\ polling' = polling \ {handles}
         /\ connections' = None /\ fds' = None /\ handles' = None
         /\ PollInv'
<1>1. /\ tasks' = tasks \o queued \o CloseTask /\ polling' = polling \ {handles}
      /\ master' = [n \in Fds |-> IF n = fds THEN None ELSE master[n]]
      /\ output' = [n \in Fds |-> IF n = fds THEN None ELSE left[n]]
      /\ attached' = {a \in attached : fdOf[a] # fds}
      /\ connections' = None /\ fds' = None /\ handles' = None
  BY DEF CloseOut, CloseFd, Forget
<1>2. /\ started \in Nat /\ master \in [Fds -> 0 .. started]
      /\ output \in [Fds -> 0 .. started] /\ polling \subseteq 1 .. started
      /\ connections \in Sockets \cup {None} /\ tasks \in Seq(TaskSet(started))
      /\ \A k \in 1 .. started : fdOf[k] \in Fds
  BY HandlesAre DEF TtyInv, SessionTypes, TypeOK, TaskSet
<1>3. tasks' \in Seq(TaskSet(started))
  <2>1. CloseTask \in Seq(TaskSet(started))
    <3>1. CASE connections = None
      BY <3>1 DEF CloseTask
    <3>2. CASE connections # None
      <4>1. Task("close", connections, None) \in TaskSet(started)
        BY <1>2, <3>2, HandlesAre DEF Task, TaskSet, None
      <4> QED
        BY <3>2, <4>1 DEF CloseTask
    <3> QED
      BY <3>1, <3>2
  <2> QED
    BY <1>1, <1>2, <2>1, ConcatProperties
<1>4. /\ master' \in [Fds -> 0 .. started] /\ output' \in [Fds -> 0 .. started]
  BY <1>1, <1>2 DEF None
<1>5. PollInv'
  <2>1. ASSUME NEW k \in 1 .. started
        PROVE  k \in polling' <=> master'[fdOf[k]] = k
    <3>1. /\ k \in polling <=> master[fdOf[k]] = k
          /\ fdOf[k] \in Fds /\ k # None
      BY <1>2 DEF TtyInv, PollInv, None
    <3>2. CASE handles = None
      BY <1>1, <3>1, <3>2, HandlesAre
    <3>3. CASE handles # None
      BY <1>1, <3>1, <3>3, HandlesAre
    <3> QED
      BY <3>2, <3>3
  <2>2. \A k \in polling', e \in 1 .. started : k < e => fdOf[k] # fdOf[e]
    BY <1>1 DEF TtyInv, PollInv
  <2>3. \A n \in Fds : output'[n] # None => fdOf[output'[n]] = n
    BY <1>1 DEF TtyInv, PollInv
  <2> QED
    BY <2>1, <2>2, <2>3 DEF PollInv
<1> QED
  BY <1>1, <1>3, <1>4, <1>5

\* A session before one that began alone is not in the maps.
LEMMA NotBeforeALoner ==
  ASSUME TtyInv, NEW k \in alone, NEW e \in 1 .. k - 1
  PROVE  handles # e
<1>1. k \in 1 .. started /\ started \in Nat
  BY HandlesAre DEF TtyInv, SessionTypes, TypeOK
<1>2. CASE handles = started
  BY <1>1, <1>2
<1>3. CASE handles = None
  BY <1>1, <1>3 DEF None
<1>4. CASE handles # None /\ handles = started - 1 /\ started \notin alone
  BY <1>1, <1>4
<1> QED
  BY <1>2, <1>3, <1>4 DEF TtyInv, MapsInv

-----------------------------------------------------------------------------
(* The web thread.                                                          *)

LEMMA Known ==
  ASSUME TtyInv
  PROVE  /\ started \in Nat /\ 1 .. started \subseteq Sessions
         /\ alone \cup exitEvents \cup polling \subseteq 1 .. started
         /\ \A k \in alone, e \in Int : e \in 1 .. k - 1 => e \in 1 .. started /\ e < k
         /\ loop.session \in 0 .. started
         /\ loop.pc # "idle" => loop.session \in 1 .. started
<1>1. /\ started \in Nat /\ started \in 0 .. MaxSessions /\ MaxSessions \in Nat
      /\ loop.session \in 0 .. started
      /\ alone \cup exitEvents \cup polling \subseteq 1 .. started
  BY HandlesAre, SessionAssumption DEF TtyInv, SessionTypes, TypeOK
<1>2. loop.pc # "idle" => loop.session # 0
  BY DEF TtyInv, SessionTypes, None
<1> QED
  BY <1>1, <1>2 DEF Sessions

\* The steps of onConnect, in their order.
LEMMA Steps ==
  /\ OnConnect[1] = "install" /\ StepAfter("install") = "subscribe"
  /\ StepAfter("subscribe") = "ask" /\ StepAfter("ask") = "wait"
<1>1. /\ DOMAIN OnConnect = 1 .. 4 /\ OnConnect[1] = "install"
      /\ OnConnect[2] = "subscribe" /\ OnConnect[3] = "ask" /\ OnConnect[4] = "wait"
  BY DEF OnConnect
<1>2. (CHOOSE i \in DOMAIN OnConnect : OnConnect[i] = "install") = 1
  BY <1>1
<1>3. (CHOOSE i \in DOMAIN OnConnect : OnConnect[i] = "subscribe") = 2
  BY <1>1
<1>4. (CHOOSE i \in DOMAIN OnConnect : OnConnect[i] = "ask") = 3
  BY <1>1
<1> QED
  BY <1>1, <1>2, <1>3, <1>4 DEF StepAfter

LEMMA SameTasks ==
  ASSUME NEW n \in Nat, NEW t \in Seq(TaskSet(n))
  PROVE  t \in Seq(TaskSet(n + 1))
<1>1. TaskSet(n) \subseteq TaskSet(n + 1)
  BY DEF TaskSet
<1>2. t \in [1 .. Len(t) -> TaskSet(n)] /\ Len(t) \in Nat
  BY LenProperties
<1>3. t \in [1 .. Len(t) -> TaskSet(n + 1)]
  BY <1>1, <1>2
<1> QED
  BY <1>2, <1>3, SeqDef

LEMMA OpenTtyKeeps ==
  ASSUME TtyInv, NEW s \in Sockets, NEW n \in Fds, OpenTty(s, n)
  PROVE  TtyInv'
<1> DEFINE k == started + 1
<1>1. /\ started \in 0 .. MaxSessions /\ started < MaxSessions /\ MaxSessions \in Nat
      /\ web = "serving" /\ tenant[s] = None /\ master[n] = None
      /\ started' = k /\ connections' = s /\ web' = "install"
      /\ tenant' = [tenant EXCEPT ![s] = k]
      /\ socketOf' = [socketOf EXCEPT ![k] = s] /\ fdOf' = [fdOf EXCEPT ![k] = n]
      /\ master' = [master EXCEPT ![n] = k] /\ polling' = polling \cup {k}
      /\ alone' = IF Quiet THEN alone \cup {k} ELSE alone
      /\ apiUp' \in BOOLEAN
      /\ UNCHANGED <<loop, leaving, fds, handles, handlers, tasks, output,
                     attached, auth, exitEvents>>
  BY SessionAssumption, Steps
     DEF OpenTty, Web, Unlocked, authVars, TtyInv, SessionTypes, TypeOK
<1>2. /\ socketOf \in [Sessions -> Sockets \cup {None}]
      /\ fdOf \in [Sessions -> Fds \cup {None}]
      /\ tenant \in [Sockets -> 0 .. started] /\ master \in [Fds -> 0 .. started]
      /\ output \in [Fds -> 0 .. started] /\ tasks \in Seq(TaskSet(started))
      /\ loop \in [pc : {"idle", "poll", "exit"}, session : 0 .. started, hup : BOOLEAN]
      /\ polling \cup alone \cup exitEvents \subseteq 1 .. started
      /\ handles \in 0 .. started /\ \A m \in Fds : m # None
  BY SessionAssumption DEF TtyInv, SessionTypes, TypeOK, TaskSet, None
<1>3. k \in Sessions /\ k \in Nat /\ k # 0 /\ k - 1 = started /\ started \in Nat
  BY <1>1 DEF Sessions
<1> HIDE DEF k
<1>4. \A j \in 1 .. started : /\ j # k /\ j \in Sessions
                              /\ socketOf'[j] = socketOf[j] /\ fdOf'[j] = fdOf[j]
                              /\ socketOf[j] \in Sockets /\ fdOf[j] \in Fds
                              /\ tenant'[socketOf[j]] = j <=> tenant[socketOf[j]] = j
  <2> SUFFICES ASSUME NEW j \in 1 .. started
               PROVE  /\ j # k /\ j \in Sessions
                      /\ socketOf'[j] = socketOf[j] /\ fdOf'[j] = fdOf[j]
                      /\ socketOf[j] \in Sockets /\ fdOf[j] \in Fds
                      /\ tenant'[socketOf[j]] = j <=> tenant[socketOf[j]] = j
    OBVIOUS
  <2>1. j # k /\ j \in Sessions
    BY <1>1, <1>3 DEF Sessions, k
  <2>2. socketOf[j] \in Sockets /\ fdOf[j] \in Fds
    BY DEF TtyInv, SessionTypes
  <2> QED
    BY <1>1, <1>2, <2>1, <2>2 DEF None
<1>5. socketOf'[k] = s /\ fdOf'[k] = n /\ tenant'[s] = k /\ master'[n] = k
  BY <1>1, <1>2, <1>3
<1>6. 1 .. k = (1 .. started) \cup {k} /\ 0 .. started \subseteq 0 .. k
  BY <1>3
<1>7. SessionTypes'
  <2>1. /\ socketOf' \in [Sessions -> Sockets \cup {None}]
        /\ fdOf' \in [Sessions -> Fds \cup {None}]
    BY <1>1, <1>2
  <2>2. /\ tenant' \in [Sockets -> 0 .. k] /\ master' \in [Fds -> 0 .. k]
        /\ output' \in [Fds -> 0 .. k]
    BY <1>1, <1>2, <1>3, <1>6
  <2>3. tasks' \in Seq(TaskSet(k))
    BY <1>1, <1>2, <1>3, SameTasks DEF TaskSet, k
  <2>4. loop' \in [pc : {"idle", "poll", "exit"}, session : 0 .. k, hup : BOOLEAN]
    BY <1>1, <1>2, <1>6
  <2>5. /\ leaving' \cup polling' \cup handlers' \cup attached' \cup exitEvents'
             \cup alone' \subseteq 1 .. k
        /\ handles' \in 0 .. k /\ k \in 0 .. MaxSessions
    <3>1. k \in 1 .. k /\ k \in 0 .. MaxSessions
      BY <1>1, <1>3 DEF k
    <3> QED
      BY <1>1, <1>6, <3>1 DEF TtyInv, SessionTypes, TypeOK
  <2>6. TypeOK'
    BY <1>1, <2>1, <2>2, <2>3, <2>4, <2>5 DEF TypeOK, TtyInv, SessionTypes, TaskSet
  <2>7. \A j \in 1 .. k : socketOf'[j] \in Sockets /\ fdOf'[j] \in Fds
    BY <1>4, <1>5, <1>6
  <2>8. \A j \in Sessions : j > k => auth'[j] = "none"
    BY <1>1, <1>3 DEF k, Sessions, TtyInv, SessionTypes
  <2> QED
    BY <1>1, <1>3, <2>6, <2>7, <2>8 DEF TtyInv, SessionTypes
<1>8. handles \in {None, started} /\ (Quiet => handles = None)
  <2>1. handles \in {None, started}
    BY <1>1 DEF TtyInv, MapsInv
  <2>2. ASSUME Quiet, started # 0 PROVE handles = None
    <3>1. ~ Live(started)
      BY <1>4, <1>3, <2>2 DEF Quiet, Live, None
    <3> QED
      BY <2>2, <3>1 DEF TtyInv, MapsInv
  <2> QED
    BY <2>1, <2>2 DEF None
<1>9. MapsInv'
  <2>1. alone \subseteq 1 .. started /\ k \notin alone
    BY <1>2, <1>3 DEF k
  <2>2. handles = started /\ handles # None => ~ Quiet /\ k \notin alone'
    BY <1>1, <1>8, <2>1
  <2>3. fds = IF handles = None THEN None ELSE fdOf'[handles]
    BY <1>2, <1>4 DEF TtyInv, MapsInv, None
  <2>4. Live(started)'
    BY <1>1, <1>3, <1>5 DEF Live
  <2>5. handles # None => handles \in polling
    BY DEF TtyInv, MapsInv
  <2> QED
    BY <1>1, <1>3, <1>8, <2>2, <2>3, <2>4, <2>5 DEF MapsInv
<1>10. PollInv'
  <2>1. \A j \in 1 .. started : /\ j \in polling <=> master[fdOf[j]] = j
                                /\ j \in polling => fdOf[j] # n
    BY <1>1 DEF TtyInv, PollInv, None
  <2>2. ASSUME NEW j \in 1 .. k PROVE j \in polling' <=> master'[fdOf'[j]] = j
    <3>1. CASE j = k
      BY <1>1, <1>5, <3>1
    <3>2. CASE j \in 1 .. started
      <4>1. CASE fdOf[j] = n
        BY <1>1, <1>4, <1>5, <2>1, <3>2, <4>1
      <4>2. CASE fdOf[j] # n
        BY <1>1, <1>2, <1>4, <2>1, <3>2, <4>2
      <4> QED
        BY <4>1, <4>2
    <3> QED
      BY <1>6, <3>1, <3>2
  <2>3. ASSUME NEW j \in polling', NEW e \in 1 .. k, j < e
        PROVE  fdOf'[j] # fdOf'[e]
    <3>1. j \in 1 .. started /\ j \in polling
      BY <1>1, <1>2, <1>3, <1>6, <2>3 DEF k
    <3>2. CASE e = k
      BY <1>4, <1>5, <2>1, <3>1, <3>2
    <3>3. CASE e \in 1 .. started
      BY <1>4, <2>3, <3>1, <3>3 DEF TtyInv, PollInv
    <3> QED
      BY <1>6, <3>2, <3>3
  <2>4. ASSUME NEW m \in Fds, output'[m] # None PROVE fdOf'[output'[m]] = m
    <3>1. output[m] \in 1 .. started
      BY <1>1, <1>2, <2>4 DEF None
    <3> QED
      BY <1>1, <1>4, <2>4, <3>1 DEF TtyInv, PollInv
  <2> QED
    BY <1>1, <2>2, <2>3, <2>4 DEF PollInv
<1>11. ExitInv'
  <2>1. auth[k] = "none"
    BY <1>3 DEF TtyInv, SessionTypes, k
  <2> QED
    BY <1>1, <2>1 DEF TtyInv, ExitInv
<1>12. AloneInv'
  <2> SUFFICES ASSUME NEW j \in alone', NEW e \in 1 .. j - 1
               PROVE  /\ ~ Live(e)' /\ auth[e] \in {"none", "down"} /\ e \notin exitEvents
                      /\ loop.session = e =>
                           loop.pc = "poll" /\ (j \in polling' => e \in polling')
    BY <1>1 DEF AloneInv
  <2>1. CASE j \in alone
    <3>1. e \in 1 .. started /\ j \in 1 .. started /\ j # k
      BY <1>2, <1>3, <2>1 DEF k
    <3>2. ~ Live(e)
      BY <2>1 DEF TtyInv, AloneInv
    <3>3. ~ Live(e)'
      BY <1>1, <1>3, <1>4, <3>1, <3>2 DEF Live
    <3> QED
      BY <1>1, <2>1, <3>1, <3>3 DEF TtyInv, AloneInv
  <2>2. CASE j \notin alone
    <3>1. Quiet /\ j = k /\ e \in 1 .. started /\ e \in Sessions
      BY <1>1, <1>3, <1>4, <2>2
    <3>2. tenant'[socketOf'[e]] # e
      BY <1>4, <3>1 DEF Quiet, None
    <3>3. loop.session = None /\ e # None
      BY <3>1 DEF Quiet, TtyInv, SessionTypes, None
    <3> QED
      BY <3>1, <3>2, <3>3 DEF Quiet, Live
  <2> QED
    BY <2>1, <2>2
<1>13. OnlyJoinedSessionsLeak'
  <2> SUFFICES ASSUME NEW j \in 1 .. k
               PROVE  \/ Live(j)'
                      \/ j \notin polling' /\ master'[fdOf'[j]] # j
                      \/ \E e \in j + 1 .. k : e \notin alone'
    BY <1>1 DEF OnlyJoinedSessionsLeak
  <2>1. CASE j = k
    BY <1>1, <1>3, <1>5, <2>1 DEF Live
  <2>2. CASE j # k /\ ~ Quiet
    <3>1. k \in j + 1 .. k /\ k \notin alone'
      BY <1>1, <1>2, <1>3, <2>2 DEF k
    <3> QED
      BY <3>1
  <2>3. CASE j # k /\ Quiet
    <3>1. j \in 1 .. started /\ ~ Live(j)
      BY <1>4, <1>6, <2>3 DEF Quiet, Live, None
    <3>2. CASE \E e \in j + 1 .. started : e \notin alone
      <4>1. PICK e \in j + 1 .. started : e \notin alone
        BY <3>2
      <4>2. e \in j + 1 .. k /\ e \notin alone'
        BY <1>1, <1>3, <3>1, <4>1 DEF k
      <4> QED
        BY <4>2
    <3>3. CASE j \notin polling
      BY <1>1, <1>10, <2>3, <3>3 DEF PollInv
    <3> QED
      BY <3>1, <3>2, <3>3 DEF TtyInv, OnlyJoinedSessionsLeak
  <2> QED
    BY <2>1, <2>2, <2>3
<1> QED
  BY <1>7, <1>9, <1>10, <1>11, <1>12, <1>13 DEF TtyInv

LEMMA InstallKeeps ==
  ASSUME TtyInv, Install
  PROVE  TtyInv'
<1> USE DEF Install, sessionVars, socketVars, authVars
<1>1. /\ web = "install" /\ web' = "subscribe" /\ apiUp' \in BOOLEAN
      /\ started \in 1 .. started /\ fds' = fdOf[started] /\ handles' = started
      /\ fdOf[started] \in Fds /\ Live(started) /\ started # None
  <2>1. apiUp' \in BOOLEAN
    BY DEF Unlocked, Web, TtyInv, SessionTypes, TypeOK
  <2>2. started # None /\ started \in 1 .. started
    BY HandlesAre DEF Web, TtyInv, SessionTypes, None
  <2> QED
    BY <2>1, <2>2, Steps DEF Web, TtyInv, SessionTypes, MapsInv, None
<1>2. SessionTypes'
  BY <1>1 DEF TtyInv, SessionTypes, TypeOK
<1>3. started \in polling
  BY <1>1 DEF TtyInv, MapsInv
<1>4. MapsInv'
  BY <1>1, <1>3 DEF MapsInv, Live
<1>5. PollInv' /\ AloneInv' /\ OnlyJoinedSessionsLeak'
  BY DEF TtyInv, PollInv, AloneInv, OnlyJoinedSessionsLeak, Live
<1>6. ExitInv'
  BY <1>1 DEF TtyInv, ExitInv
<1> QED
  BY <1>2, <1>4, <1>5, <1>6 DEF TtyInv

LEMMA SubscribeKeeps ==
  ASSUME TtyInv, Subscribe
  PROVE  TtyInv'
<1> USE DEF Subscribe, sessionVars, socketVars, heldVars, authVars
<1>1. /\ web = "subscribe" /\ web' = "ask" /\ apiUp' \in BOOLEAN
      /\ started \in 1 .. started
  <2>1. apiUp' \in BOOLEAN
    BY DEF Unlocked, Web, TtyInv, SessionTypes, TypeOK
  <2>2. started # None /\ started \in 1 .. started
    BY HandlesAre DEF Web, TtyInv, SessionTypes, None
  <2> QED
    BY <2>1, <2>2, Steps DEF Web
<1>2. SessionTypes'
  BY <1>1 DEF TtyInv, SessionTypes, TypeOK
<1>3. MapsInv'
  BY <1>1 DEF TtyInv, MapsInv, Live
<1>4. PollInv' /\ AloneInv' /\ OnlyJoinedSessionsLeak'
  BY DEF TtyInv, PollInv, AloneInv, OnlyJoinedSessionsLeak, Live
<1>5. ExitInv'
  BY <1>1 DEF TtyInv, ExitInv
<1> QED
  BY <1>2, <1>3, <1>4, <1>5 DEF TtyInv

LEMMA AskKeeps ==
  ASSUME TtyInv, Ask
  PROVE  TtyInv'
<1> USE DEF Ask, sessionVars, socketVars, heldVars
<1>1. /\ web = "ask" /\ web' = "wait" /\ started \in 1 .. started
      /\ auth \in [Sessions -> {"none", "asked", "up", "down"}]
      /\ auth' = [auth EXCEPT ![started] = "asked"] /\ auth[started] = "none"
      /\ started \in Sessions /\ UNCHANGED <<started, exitEvents, loop, alone>>
  <2>1. started # None /\ started \in 1 .. started
    BY HandlesAre DEF Web, TtyInv, SessionTypes, None
  <2> QED
    BY <2>1, Steps, SessionAssumption
       DEF Web, Sessions, TtyInv, SessionTypes, TypeOK, ExitInv
<1>2. SessionTypes'
  <2>1. auth' \in [Sessions -> {"none", "asked", "up", "down"}]
    BY <1>1
  <2>2. \A e \in Sessions : e > started => auth'[e] = "none"
    BY <1>1 DEF Sessions, TtyInv, SessionTypes
  <2> QED
    BY <1>1, <2>1, <2>2 DEF TtyInv, SessionTypes, TypeOK
<1>3. MapsInv'
  BY <1>1 DEF TtyInv, MapsInv, Live
<1>4. PollInv' /\ OnlyJoinedSessionsLeak'
  BY DEF TtyInv, PollInv, OnlyJoinedSessionsLeak, Live
<1>5. ExitInv'
  <2>1. \A e \in exitEvents : auth[e] = "down" /\ e \in Sessions /\ e # started
    BY <1>1, Known DEF TtyInv, ExitInv
  <2>2. loop.pc = "exit" => auth[loop.session] = "down" /\ loop.session # started
    BY <1>1 DEF TtyInv, ExitInv
  <2>3. loop.pc = "exit" => loop.session \in Sessions
    BY Known
  <2> QED
    BY <1>1, <2>1, <2>2, <2>3 DEF ExitInv
<1>6. AloneInv'
  <2> SUFFICES ASSUME NEW j \in alone, NEW e \in 1 .. j - 1
               PROVE  /\ ~ Live(e) /\ auth'[e] \in {"none", "down"} /\ e \notin exitEvents
                      /\ loop.session = e =>
                           loop.pc = "poll" /\ (j \in polling => e \in polling)
    BY <1>1 DEF AloneInv, Live
  <2>1. e # started /\ e \in Sessions
    BY <1>1, Known
  <2> QED
    BY <1>1, <2>1 DEF TtyInv, AloneInv
<1> QED
  BY <1>2, <1>3, <1>4, <1>5, <1>6 DEF TtyInv

LEMMA ReturnKeeps ==
  ASSUME TtyInv, Return
  PROVE  TtyInv'
<1> USE DEF Return, sessionVars, socketVars, heldVars, authVars
<1>1. web = "wait" /\ web' = "serving" /\ apiUp' \in BOOLEAN
  BY DEF Web
<1>2. SessionTypes'
  BY <1>1 DEF TtyInv, SessionTypes, TypeOK
<1>3. MapsInv'
  BY <1>1 DEF TtyInv, MapsInv, Live
<1>4. PollInv' /\ AloneInv' /\ OnlyJoinedSessionsLeak'
  BY DEF TtyInv, PollInv, AloneInv, OnlyJoinedSessionsLeak, Live
<1>5. ExitInv'
  BY <1>1 DEF TtyInv, ExitInv
<1> QED
  BY <1>2, <1>3, <1>4, <1>5 DEF TtyInv

LEMMA OnDataKeeps ==
  ASSUME TtyInv, NEW k \in Sessions, OnData(k)
  PROVE  TtyInv'
<1> USE DEF OnData, sessionVars, socketVars, heldVars, authVars
<1>1. SessionTypes'
  BY DEF TtyInv, SessionTypes, TypeOK
<1>2. MapsInv' /\ PollInv' /\ AloneInv' /\ OnlyJoinedSessionsLeak' /\ ExitInv'
  BY DEF TtyInv, MapsInv, PollInv, AloneInv, ExitInv, OnlyJoinedSessionsLeak, Live
<1> QED
  BY <1>1, <1>2 DEF TtyInv

LEMMA RunTaskKeeps ==
  ASSUME TtyInv, RunTask
  PROVE  TtyInv'
<1> USE DEF RunTask, sessionVars, authVars
<1>1. /\ started \in Nat /\ tasks \in Seq(TaskSet(started)) /\ tasks # <<>>
      /\ tasks' = Tail(tasks) /\ started' = started
      /\ tenant \in [Sockets -> 0 .. started] /\ apiUp \in BOOLEAN
      /\ leaving \subseteq 1 .. started
  BY HandlesAre DEF TtyInv, SessionTypes, TypeOK, TaskSet
<1>2. Head(tasks) \in TaskSet(started) /\ tasks' \in Seq(TaskSet(started))
  BY <1>1, HeadTailProperties
<1>3. tenant[Head(tasks).socket] \in 0 .. started
  BY <1>1, <1>2 DEF TaskSet
<1>4. apiUp' \in BOOLEAN /\ leaving' \subseteq 1 .. started
  <2> DEFINE k == tenant[Head(tasks).socket]
  <2>1. \/ leaving' = leaving /\ apiUp' \in {TRUE, FALSE, apiUp}
        \/ k # None /\ leaving' = leaving \cup {k} /\ apiUp' = apiUp
    OBVIOUS
  <2>2. k # None => k \in 1 .. started
    BY <1>3, <1>1 DEF None
  <2> QED
    BY <1>1, <2>1, <2>2
<1>5. SessionTypes'
  BY <1>1, <1>2, <1>4 DEF TtyInv, SessionTypes, TypeOK, TaskSet
<1>6. MapsInv' /\ PollInv' /\ AloneInv' /\ OnlyJoinedSessionsLeak' /\ ExitInv'
  BY DEF TtyInv, MapsInv, PollInv, AloneInv, ExitInv, OnlyJoinedSessionsLeak, Live
<1> QED
  BY <1>5, <1>6 DEF TtyInv

LEMMA OnDisconnectKeeps ==
  ASSUME TtyInv, NEW k \in Sessions, OnDisconnect(k)
  PROVE  TtyInv'
<1>1. /\ apiUp' \in BOOLEAN /\ web = "serving" /\ Live(k) /\ CloseOut(<<>>, output)
      /\ tenant' = [tenant EXCEPT ![socketOf[k]] = None]
      /\ UNCHANGED <<started, socketOf, fdOf, alone, web, loop, leaving, handlers,
                     auth, exitEvents>>
  BY DEF OnDisconnect, Web, Unlocked, TtyInv, SessionTypes, TypeOK, sessionVars,
         authVars
<1>2. /\ started \in Nat /\ output \in [Fds -> 0 .. started]
      /\ tenant \in [Sockets -> 0 .. started] /\ k \in 1 .. started
      /\ socketOf[k] \in Sockets /\ alone \subseteq 1 .. started
      /\ attached \cup polling \subseteq 1 .. started
  <2>1. started \in Nat /\ k \in 1 .. started
    BY <1>1, HandlesAre DEF Live, Sessions
  <2> QED
    BY <2>1 DEF TtyInv, SessionTypes, TypeOK
<1>3. /\ tasks' \in Seq(TaskSet(started))
      /\ master' \in [Fds -> 0 .. started] /\ output' \in [Fds -> 0 .. started]
      /\ attached' \subseteq attached /\ polling' = polling \ {handles}
      /\ connections' = None /\ fds' = None /\ handles' = None
      /\ PollInv'
  <2>1. <<>> \in Seq(TaskSet(started)) /\ \A n \in Fds : output[n] \in {None, output[n]}
    OBVIOUS
  <2> QED
    BY <1>1, <1>2, <2>1, ClosedOut
<1>4. \A j \in 1 .. started : Live(j)' <=> Live(j) /\ j # k
  <2> SUFFICES ASSUME NEW j \in 1 .. started PROVE Live(j)' <=> Live(j) /\ j # k
    OBVIOUS
  <2>1. socketOf[j] \in Sockets /\ j # None /\ j <= started
    BY <1>2 DEF TtyInv, SessionTypes, None
  <2> QED
    BY <1>1, <1>2, <2>1 DEF Live
<1>5. SessionTypes'
  <2>1. tenant' \in [Sockets -> 0 .. started]
    BY <1>1, <1>2 DEF None
  <2> QED
    BY <1>1, <1>2, <1>3, <2>1 DEF TtyInv, SessionTypes, TypeOK, TaskSet, None
<1>6. handles \in {None, started}
  BY <1>1 DEF TtyInv, MapsInv
<1>7. MapsInv'
  <2>1. started \in polling => handles = started
    BY <1>1 DEF TtyInv, MapsInv
  <2> QED
    BY <1>1, <1>3, <2>1 DEF MapsInv
<1>8. ExitInv'
  BY <1>1 DEF TtyInv, ExitInv
<1>9. AloneInv'
  <2> SUFFICES ASSUME NEW j \in alone, NEW e \in 1 .. j - 1
               PROVE  /\ ~ Live(e)' /\ auth[e] \in {"none", "down"} /\ e \notin exitEvents
                      /\ loop.session = e =>
                           loop.pc = "poll" /\ (j \in polling' => e \in polling')
    BY <1>1 DEF AloneInv
  <2>1. e \in 1 .. started /\ handles # e
    BY <1>2, NotBeforeALoner
  <2> QED
    BY <1>3, <1>4, <2>1 DEF TtyInv, AloneInv
<1>10. OnlyJoinedSessionsLeak'
  <2> SUFFICES ASSUME NEW j \in 1 .. started,
                      ~ \E e \in j + 1 .. started : e \notin alone
               PROVE  Live(j)' \/ j \notin polling'
    BY <1>1, <1>3 DEF OnlyJoinedSessionsLeak, PollInv
  <2>1. CASE j # k
    BY <1>3, <1>4, <2>1 DEF TtyInv, OnlyJoinedSessionsLeak
  <2>2. CASE j = k
    <3>1. ASSUME k # started PROVE FALSE
      <4>1. started \in j + 1 .. started /\ j \in 1 .. started - 1
        BY <1>2, <2>2, <3>1
      <4>2. started \in alone
        BY <4>1
      <4> QED
        BY <1>1, <2>2, <4>1, <4>2 DEF TtyInv, AloneInv
    <3>2. started \in polling => handles = started
      BY <1>1 DEF TtyInv, MapsInv
    <3> QED
      BY <1>3, <2>2, <3>1, <3>2
  <2> QED
    BY <2>1, <2>2
<1> QED
  BY <1>3, <1>5, <1>7, <1>8, <1>9, <1>10 DEF TtyInv

-----------------------------------------------------------------------------
(* The loop thread.                                                         *)

LEMMA PollWakesKeeps ==
  ASSUME TtyInv, NEW k \in Sessions, PollWakes(k)
  PROVE  TtyInv'
<1> USE DEF PollWakes, sessionVars, socketVars, heldVars, authVars
<1>1. /\ k \in polling /\ k \in 1 .. started /\ k # None
      /\ loop'.pc = "poll" /\ loop'.session = k
      /\ loop' \in [pc : {"idle", "poll", "exit"}, session : 0 .. started, hup : BOOLEAN]
  BY Known DEF None
<1>2. SessionTypes'
  BY <1>1 DEF TtyInv, SessionTypes, TypeOK
<1>3. MapsInv' /\ PollInv' /\ OnlyJoinedSessionsLeak'
  BY DEF TtyInv, MapsInv, PollInv, OnlyJoinedSessionsLeak, Live
<1>4. ExitInv'
  BY <1>1 DEF TtyInv, ExitInv
<1>5. AloneInv'
  BY <1>1 DEF TtyInv, AloneInv, Live
<1> QED
  BY <1>2, <1>3, <1>4, <1>5 DEF TtyInv

LEMMA ExitEventBeginsKeeps ==
  ASSUME TtyInv, NEW k \in Sessions, ExitEventBegins(k)
  PROVE  TtyInv'
<1> USE DEF ExitEventBegins, sessionVars, socketVars, heldVars
<1>1. /\ k \in exitEvents /\ k \in 1 .. started /\ k # None
      /\ loop'.pc = "exit" /\ loop'.session = k
      /\ loop' \in [pc : {"idle", "poll", "exit"}, session : 0 .. started, hup : BOOLEAN]
      /\ exitEvents' \subseteq exitEvents
  BY Known DEF None
<1>2. SessionTypes'
  BY <1>1 DEF TtyInv, SessionTypes, TypeOK
<1>3. MapsInv' /\ PollInv' /\ OnlyJoinedSessionsLeak'
  BY DEF TtyInv, MapsInv, PollInv, OnlyJoinedSessionsLeak, Live
<1>4. ExitInv'
  BY <1>1 DEF TtyInv, ExitInv
<1>5. AloneInv'
  BY <1>1 DEF TtyInv, AloneInv, Live
<1> QED
  BY <1>2, <1>3, <1>4, <1>5 DEF TtyInv

\* A listener has returned, and the maps are as they were.
LEMMA ListenerKeeps ==
  ASSUME TtyInv, LoopIdle, handlers' \subseteq handlers,
         tasks' \in Seq(TaskSet(started)), output' \in [Fds -> 0 .. started],
         \A n \in Fds : output'[n] \in {None, output[n]},
         UNCHANGED <<apiUp, started, socketOf, fdOf, alone, web, tenant, leaving,
                     connections, fds, handles, polling, master, attached, auth,
                     exitEvents>>
  PROVE  TtyInv'
<1>1. /\ loop'.pc = "idle" /\ loop'.session = None
      /\ loop' \in [pc : {"idle", "poll", "exit"}, session : 0 .. started, hup : BOOLEAN]
  BY Known DEF LoopIdle, None
<1>2. SessionTypes'
  BY <1>1 DEF TtyInv, SessionTypes, TypeOK, TaskSet
<1>3. MapsInv' /\ OnlyJoinedSessionsLeak'
  BY DEF TtyInv, MapsInv, OnlyJoinedSessionsLeak, Live
<1>4. ExitInv'
  BY <1>1 DEF TtyInv, ExitInv
<1>5. AloneInv'
  BY <1>1, SessionAssumption, Known DEF TtyInv, AloneInv, Live, None
<1>6. PollInv'
  BY DEF TtyInv, PollInv
<1> QED
  BY <1>2, <1>3, <1>4, <1>5, <1>6 DEF TtyInv

\* A listener has closed out.
LEMMA ListenerClosesOut ==
  ASSUME TtyInv, LoopIdle, handlers' \subseteq handlers,
         NEW queued \in Seq(TaskSet(started)), NEW left \in [Fds -> 0 .. started],
         \A n \in Fds : left[n] \in {None, output[n]}, CloseOut(queued, left),
         UNCHANGED <<apiUp, started, socketOf, fdOf, alone, web, tenant, leaving,
                     auth, exitEvents>>
  PROVE  TtyInv'
<1>1. /\ loop'.pc = "idle" /\ loop'.session = None
      /\ loop' \in [pc : {"idle", "poll", "exit"}, session : 0 .. started, hup : BOOLEAN]
  BY Known DEF LoopIdle, None
<1>2. /\ tasks' \in Seq(TaskSet(started))
      /\ master' \in [Fds -> 0 .. started] /\ output' \in [Fds -> 0 .. started]
      /\ attached' \subseteq attached /\ polling' = polling \ {handles}
      /\ connections' = None /\ fds' = None /\ handles' = None
      /\ PollInv'
  BY ClosedOut
<1>3. SessionTypes'
  BY <1>1, <1>2, Known DEF TtyInv, SessionTypes, TypeOK, TaskSet, None
<1>4. MapsInv'
  <2>1. web = "install" => handles # started
    BY Known DEF TtyInv, SessionTypes, MapsInv, None
  <2>2. started \in polling' => web = "install"
    BY <1>2 DEF TtyInv, MapsInv
  <2>3. web = "install" => started \in polling'
    BY <1>2, <2>1 DEF TtyInv, MapsInv
  <2>4. started # 0 /\ ~ Live(started) => web = "serving"
    BY DEF TtyInv, MapsInv
  <2> QED
    BY <1>2, <2>2, <2>3, <2>4 DEF MapsInv, Live
<1>5. ExitInv'
  BY <1>1 DEF TtyInv, ExitInv
<1>6. AloneInv'
  BY <1>1, Known DEF TtyInv, AloneInv, Live, None
<1>7. OnlyJoinedSessionsLeak'
  <2>1. \A j \in 1 .. started : j \in polling' => j \in polling
    BY <1>2
  <2>2. \A j \in 1 .. started : j \in polling' <=> master'[fdOf[j]] = j
    BY <1>2 DEF PollInv
  <2> QED
    BY <2>1, <2>2 DEF TtyInv, OnlyJoinedSessionsLeak, Live
<1> QED
  BY <1>2, <1>3, <1>4, <1>5, <1>6, <1>7 DEF TtyInv

\* What the listener reads, and where it sends it.
LEMMA Listened ==
  ASSUME TtyInv, loop.pc = "poll"
  PROVE  LET n == fdOf[loop.session]
             read == [output EXCEPT ![n] = None]
             send == Task("send", socketOf[loop.session], output[n])
         IN /\ n \in Fds /\ send \in TaskSet(started) /\ <<send>> \in Seq(TaskSet(started))
            /\ read \in [Fds -> 0 .. started]
            /\ \A m \in Fds : read[m] \in {None, output[m]}
<1> DEFINE n == fdOf[loop.session]
<1>1. n \in Fds /\ socketOf[loop.session] \in Sockets
  BY Known DEF TtyInv, SessionTypes
<1>2. output \in [Fds -> 0 .. started] /\ started \in Nat
  BY Known DEF TtyInv, SessionTypes, TypeOK
<1> QED
  BY <1>1, <1>2 DEF Task, TaskSet, None

LEMMA PollEventKeeps ==
  ASSUME TtyInv, PollEvent
  PROVE  TtyInv'
<1> DEFINE n == fdOf[loop.session]
           read == [output EXCEPT ![n] = None]
           send == Task("send", socketOf[loop.session], output[n])
<1>1. /\ loop.pc = "poll" /\ LoopIdle
      /\ UNCHANGED <<apiUp, started, socketOf, fdOf, alone, web, tenant, leaving,
                     handlers, auth, exitEvents>>
      /\ \/ UNCHANGED heldVars
         \/ /\ tasks' = Append(tasks, send) /\ output' = read
            /\ UNCHANGED <<connections, fds, handles, polling, master, attached>>
         \/ CloseOut(<<send>>, read)
  BY DEF PollEvent, Loop, ReadFails, sessionVars, socketVars, authVars
<1>2. /\ n \in Fds /\ send \in TaskSet(started) /\ <<send>> \in Seq(TaskSet(started))
      /\ read \in [Fds -> 0 .. started]
      /\ \A m \in Fds : read[m] \in {None, output[m]}
  BY <1>1, Listened
<1>3. tasks \in Seq(TaskSet(started)) /\ output \in [Fds -> 0 .. started]
  BY DEF TtyInv, SessionTypes, TypeOK, TaskSet
<1> HIDE DEF read, send
<1>4. CASE UNCHANGED heldVars
  BY <1>1, <1>3, <1>4, ListenerKeeps DEF heldVars
<1>5. CASE /\ tasks' = Append(tasks, send) /\ output' = read
           /\ UNCHANGED <<connections, fds, handles, polling, master, attached>>
  BY <1>1, <1>2, <1>3, <1>5, AppendProperties, ListenerKeeps
<1>6. CASE CloseOut(<<send>>, read)
  BY <1>1, <1>2, <1>6, ListenerClosesOut
<1> QED
  BY <1>1, <1>4, <1>5, <1>6

LEMMA ExitEventEndsKeeps ==
  ASSUME TtyInv, ExitEventEnds
  PROVE  TtyInv'
<1>1. /\ LoopIdle /\ handlers' = {}
      /\ CloseOut(<<>>, output) \/ UNCHANGED heldVars
      /\ UNCHANGED <<apiUp, started, socketOf, fdOf, alone, web, tenant, leaving,
                     auth, exitEvents>>
  BY DEF ExitEventEnds, sessionVars, socketVars, authVars
<1>2. /\ tasks \in Seq(TaskSet(started)) /\ output \in [Fds -> 0 .. started]
      /\ <<>> \in Seq(TaskSet(started)) /\ {} \subseteq handlers
      /\ \A n \in Fds : output[n] \in {None, output[n]}
  BY DEF TtyInv, SessionTypes, TypeOK, TaskSet
<1>3. CASE CloseOut(<<>>, output)
  BY <1>1, <1>2, <1>3, ListenerClosesOut
<1>4. CASE UNCHANGED heldVars
  BY <1>1, <1>2, <1>4, ListenerKeeps DEF heldVars
<1> QED
  BY <1>1, <1>3, <1>4

-----------------------------------------------------------------------------
(* The theorems.                                                            *)

LEMMA TtyInit == Init => TtyInv
<1> SUFFICES ASSUME Init PROVE TtyInv
  OBVIOUS
<1>1. /\ started = 0 /\ 1 .. 0 = {} /\ 0 .. 0 = {0} /\ MaxSessions \in Nat
  BY SessionAssumption DEF Init
<1>2. TypeOK
  BY <1>1 DEF Init, TypeOK, None
<1>3. SessionTypes
  BY <1>1, <1>2 DEF Init, SessionTypes, None
<1>4. MapsInv /\ PollInv
  BY <1>1 DEF Init, MapsInv, PollInv, None
<1>5. ExitInv /\ AloneInv /\ OnlyJoinedSessionsLeak
  BY <1>1 DEF Init, ExitInv, AloneInv, OnlyJoinedSessionsLeak
<1> QED
  BY <1>3, <1>4, <1>5 DEF TtyInv

LEMMA TtyStays == TtyInv /\ UNCHANGED vars => TtyInv'
<1> SUFFICES ASSUME TtyInv, UNCHANGED vars PROVE TtyInv'
  OBVIOUS
<1> USE DEF vars, sessionVars, socketVars, heldVars, authVars
<1>1. SessionTypes'
  BY DEF TtyInv, SessionTypes, TypeOK
<1>2. MapsInv' /\ PollInv' /\ ExitInv' /\ AloneInv' /\ OnlyJoinedSessionsLeak'
  BY DEF TtyInv, MapsInv, PollInv, ExitInv, AloneInv, OnlyJoinedSessionsLeak, Live
<1> QED
  BY <1>1, <1>2 DEF TtyInv

LEMMA TtyStep == TtyInv /\ [Next]_vars => TtyInv'
<1> SUFFICES ASSUME TtyInv, [Next]_vars PROVE TtyInv'
  OBVIOUS
<1>1. CASE WebThread
  BY <1>1, OpenTtyKeeps, InstallKeeps, SubscribeKeeps, AskKeeps, ReturnKeeps,
     RunTaskKeeps, OnDataKeeps, OnDisconnectKeeps DEF WebThread
<1>2. CASE LoopThread
  BY <1>2, PollWakesKeeps, ExitEventBeginsKeeps, PollEventKeeps,
     ExitEventEndsKeeps DEF LoopThread
<1>3. CASE Outside
  BY <1>3, ClientLeavesKeeps, AuthSpawnedKeeps, AuthOpensKeeps, AuthClosesKeeps,
     AuthWritesKeeps, AuthExitsKeeps DEF Outside
<1>4. CASE Stopped \/ UNCHANGED vars
  BY <1>4, TtyStays DEF Stopped
<1> QED
  BY <1>1, <1>2, <1>3, <1>4 DEF Next

LEMMA TtyInvariant == Spec => []TtyInv
BY TtyInit, TtyStep, PTL DEF Spec

\* The maps, the tasks and the sessions have the types handlers.cpp gives them.
THEOREM SessionTypeCorrect == Spec => []TypeOK
<1>1. TtyInv => TypeOK
  BY DEF TtyInv, SessionTypes
<1> QED
  BY <1>1, TtyInvariant, PTL

\* Whatever the two threads do to the unlocked maps, and however often closeOut
\* runs, a session that is over and was not joined by another has released its
\* poll handle and its pty.
THEOREM SessionsThatWereAloneDoNotLeak == Spec => []OnlyJoinedSessionsLeak
<1>1. TtyInv => OnlyJoinedSessionsLeak
  BY DEF TtyInv
<1> QED
  BY <1>1, TtyInvariant, PTL

-----------------------------------------------------------------------------
(* Who closes out, and who reads.                                           *)

\* Only three steps empty the maps or add to the tasks.
LEMMA WhoClosesOut ==
  ASSUME TtyInv, [Next]_vars,
         (handles # None /\ handles' = None) \/ Len(tasks') > Len(tasks)
  PROVE  (\E k \in Sessions : OnDisconnect(k)) \/ PollEvent \/ ExitEventEnds
<1> USE DEF sessionVars, socketVars, heldVars, authVars
<1>1. Len(tasks) \in Nat
  BY LenProperties DEF TtyInv, SessionTypes, TypeOK
<1>2. ~ UNCHANGED <<handles, tasks>>
  BY <1>1
<1>3. ASSUME RunTask PROVE FALSE
  <2>1. tasks' = Tail(tasks) /\ tasks # <<>> /\ handles' = handles
    BY <1>3 DEF RunTask
  <2>2. Len(tasks') = Len(tasks) - 1
    BY <2>1, HeadTailProperties DEF TtyInv, SessionTypes, TypeOK
  <2> QED
    BY <1>1, <2>1, <2>2
<1>4. ASSUME Install PROVE FALSE
  <2>1. handles' = started /\ tasks' = tasks /\ started # None
    BY <1>4 DEF Install, Web, TtyInv, SessionTypes, None
  <2> QED
    BY <1>1, <2>1
<1>5. CASE WebThread
  <2>1. ASSUME NEW s \in Sockets, NEW n \in Fds, OpenTty(s, n) PROVE FALSE
    BY <1>2, <2>1 DEF OpenTty
  <2>2. ~ Subscribe /\ ~ Ask /\ ~ Return
    BY <1>2 DEF Subscribe, Ask, Return
  <2>3. ASSUME NEW k \in Sessions, OnData(k) PROVE FALSE
    BY <1>2, <2>3 DEF OnData
  <2> QED
    BY <1>3, <1>4, <1>5, <2>1, <2>2, <2>3 DEF WebThread
<1>6. CASE LoopThread
  <2>1. ASSUME NEW k \in Sessions, PollWakes(k) \/ ExitEventBegins(k) PROVE FALSE
    BY <1>2, <2>1 DEF PollWakes, ExitEventBegins
  <2> QED
    BY <1>6, <2>1 DEF LoopThread
<1>7. ASSUME Outside PROVE FALSE
  BY <1>2, <1>7 DEF Outside, ClientLeaves, AuthSpawned, AuthOpens, AuthCloses,
     AuthWrites, AuthExits, apiVars
<1>8. ~ Stopped /\ ~ UNCHANGED vars
  BY <1>2 DEF Stopped, vars
<1> QED
  BY <1>5, <1>6, <1>7, <1>8 DEF Next

\* No session but its own has a say in what becomes of one that began alone:
\* its websocket has gone, its authenticator has, or what a poll found empty
\* has been written to before the read.
LEMMA Causes ==
  ASSUME TtyInv, [Next]_vars, NEW k \in alone, handles = k, handles' = None
  PROVE  \/ k \in leaving
         \/ auth[k] = "down"
         \/ loop.hup /\ output[fdOf[loop.session]] # None
<1>1. handles # None /\ started \in Nat /\ k \in 1 .. started
  BY Known DEF None
<1>2. CASE \E j \in Sessions : OnDisconnect(j)
  <2>1. PICK j \in Sessions : OnDisconnect(j)
    BY <1>2
  <2>2. web = "serving" /\ Live(j) /\ j \in leaving
    BY <2>1 DEF OnDisconnect, Web
  <2>3. k = started /\ j \in 1 .. started
    BY <1>1, <2>2 DEF TtyInv, MapsInv, Live, Sessions
  <2>4. j \notin 1 .. k - 1
    BY <2>2 DEF TtyInv, AloneInv
  <2>5. j = k
    BY <1>1, <2>3, <2>4
  <2> QED
    BY <2>2, <2>5
<1>3. CASE PollEvent
  <2>1. ~ UNCHANGED handles
    BY <1>1
  <2> QED
    BY <1>3, <2>1 DEF PollEvent, ReadFails, heldVars
<1>4. CASE ExitEventEnds
  <2> DEFINE e == loop.session
  <2>1. loop.pc = "exit" /\ auth[e] = "down" /\ e \in 1 .. started
    BY <1>4, Known DEF ExitEventEnds, Loop, TtyInv, ExitInv
  <2>2. ~ (e < k)
    <3>1. ASSUME e < k PROVE e \in 1 .. k - 1
      BY <1>1, <2>1, <3>1
    <3> QED
      BY <2>1, <3>1 DEF TtyInv, AloneInv
  <2>3. ASSUME e > k PROVE FALSE
    <3>1. k # started
      BY <1>1, <2>1, <2>3
    <3>2. web = "install" /\ k = started - 1
      BY <1>1, <3>1 DEF TtyInv, MapsInv
    <3>3. e = started
      BY <1>1, <2>1, <2>3, <3>2
    <3> QED
      BY <2>1, <3>2, <3>3 DEF TtyInv, ExitInv
  <2>4. e = k
    BY <1>1, <2>1, <2>2, <2>3
  <2> QED
    BY <2>1, <2>4
<1> QED
  BY <1>1, <1>2, <1>3, <1>4, WhoClosesOut

\* Bytes of a session that began alone are read by its own poll handle.
LEMMA ReadsItsOwn ==
  ASSUME TtyInv, loop.pc = "poll", NEW k \in alone \cap polling,
         output[fdOf[loop.session]] = k
  PROVE  loop.session = k
<1> DEFINE e == loop.session
<1>1. k \in 1 .. started /\ started \in Nat /\ e \in 1 .. started /\ k # None
  BY Known DEF None
<1>2. fdOf[e] \in Fds
  BY <1>1 DEF TtyInv, SessionTypes
<1>3. fdOf[k] = fdOf[e]
  BY <1>1, <1>2 DEF TtyInv, PollInv
<1>4. ASSUME e < k PROVE FALSE
  <2>1. e \in 1 .. k - 1
    BY <1>1, <1>4
  <2>2. e \in polling
    BY <2>1 DEF TtyInv, AloneInv
  <2> QED
    BY <1>1, <1>3, <1>4, <2>2 DEF TtyInv, PollInv
<1>5. ASSUME k < e PROVE FALSE
  BY <1>1, <1>3, <1>5 DEF TtyInv, PollInv
<1> QED
  BY <1>1, <1>4, <1>5

-----------------------------------------------------------------------------
(* Where the bytes go that a task sends.                                    *)

\* A queued task knows the address of the session whose authenticator wrote.
OwnTask(t) ==
  t.do = "send" /\ t.from \in alone /\ Unjoined(t.from) =>
    /\ t.socket = socketOf[t.from]
    /\ tenant[t.socket] \in {t.from, None} \/ tenant[t.socket] > t.at

Queued(t, q) == \E i \in 1 .. Len(q) : q[i] = t

HearInv ==
  /\ \A t \in TaskSet(started) : Queued(t, tasks) => OwnTask(t)
  /\ \A k \in alone : Unjoined(k) =>
       /\ k \in attached => k \in polling
       /\ \A n \in Fds : output[n] = k => k \in polling
  /\ \A n \in Fds : master[n] # None => fdOf[master[n]] = n

LEMMA ConcatQueued ==
  ASSUME NEW S, NEW q \in Seq(S), NEW r \in Seq(S), NEW t, Queued(t, q \o r)
  PROVE  Queued(t, q) \/ Queued(t, r)
<1>1. PICK i \in 1 .. Len(q \o r) : (q \o r)[i] = t
  BY DEF Queued
<1>2. /\ Len(q) \in Nat /\ Len(r) \in Nat /\ Len(q \o r) = Len(q) + Len(r)
      /\ (q \o r)[i] = IF i <= Len(q) THEN q[i] ELSE r[i - Len(q)]
  BY <1>1, ConcatProperties, LenProperties
<1>3. CASE i <= Len(q)
  BY <1>1, <1>2, <1>3 DEF Queued
<1>4. CASE ~(i <= Len(q))
  <2>1. i - Len(q) \in 1 .. Len(r)
    BY <1>1, <1>2, <1>4
  <2> QED
    BY <1>1, <1>2, <1>4, <2>1 DEF Queued
<1> QED
  BY <1>3, <1>4

LEMMA TailQueued ==
  ASSUME NEW S, NEW q \in Seq(S), q # <<>>, NEW t, Queued(t, Tail(q))
  PROVE  Queued(t, q)
<1>1. PICK i \in 1 .. Len(Tail(q)) : Tail(q)[i] = t
  BY DEF Queued
<1>2. Len(q) \in Nat /\ Len(Tail(q)) = Len(q) - 1 /\ Tail(q)[i] = q[i + 1]
  BY <1>1, HeadTailProperties, LenProperties
<1>3. i + 1 \in 1 .. Len(q)
  BY <1>1, <1>2
<1> QED
  BY <1>1, <1>2, <1>3 DEF Queued

\* A websocket that goes, and nothing else, leaves a task what it was.
LEMMA OwnStays ==
  ASSUME TtyInv, NEW t \in TaskSet(started), OwnTask(t),
         \A s \in Sockets : tenant'[s] \in {None, tenant[s]},
         UNCHANGED <<started, alone, socketOf>>
  PROVE  OwnTask(t)'
<1>1. t.socket \in Sockets
  BY DEF TaskSet
<1>2. Unjoined(t.from)' = Unjoined(t.from)
  BY DEF Unjoined
<1> QED
  BY <1>1, <1>2 DEF OwnTask

\* The tasks closeOut adds are what its caller had queued, and a close.
LEMMA Added ==
  ASSUME TtyInv, NEW queued \in Seq(TaskSet(started)), NEW left,
         CloseOut(queued, left), NEW t, Queued(t, tasks')
  PROVE  Queued(t, tasks) \/ Queued(t, queued) \/ t.do = "close"
<1>1. tasks' = (tasks \o queued) \o CloseTask
  BY DEF CloseOut
<1>2. /\ tasks \in Seq(TaskSet(started)) /\ connections \in Sockets \cup {None}
      /\ tasks \o queued \in Seq(TaskSet(started)) /\ started \in Nat
  BY ConcatProperties, Known DEF TtyInv, SessionTypes, TypeOK, TaskSet
<1>3. CloseTask \in Seq(TaskSet(started)) /\ (Queued(t, CloseTask) => t.do = "close")
  <2> DEFINE close == Task("close", connections, None)
  <2>1. CASE connections = None
    BY <2>1 DEF CloseTask, Queued
  <2>2. CASE connections # None
    <3>1. close \in TaskSet(started) /\ close.do = "close"
      BY <1>2, <2>2 DEF Task, TaskSet, None
    <3>2. CloseTask = <<close>>
      BY <2>2 DEF CloseTask
    <3> HIDE DEF close
    <3> QED
      BY <3>1, <3>2 DEF Queued
  <2> QED
    BY <2>1, <2>2
<1>4. Queued(t, tasks \o queued) \/ Queued(t, CloseTask)
  BY <1>1, <1>2, <1>3, ConcatQueued
<1> QED
  BY <1>2, <1>3, <1>4, ConcatQueued

\* What the poll listener sends it read for the session it sends it to.
LEMMA SendIsOwn ==
  ASSUME TtyInv, HearInv, loop.pc = "poll", output[fdOf[loop.session]] # None
  PROVE  OwnTask(Task("send", socketOf[loop.session], output[fdOf[loop.session]]))
<1> DEFINE n == fdOf[loop.session]
           k == output[n]
<1>1. n \in Fds
  BY Listened
<1> SUFFICES ASSUME k \in alone, Unjoined(k)
             PROVE  /\ socketOf[loop.session] = socketOf[k]
                    /\ tenant[socketOf[k]] = k
  BY DEF OwnTask, Task
<1>2. k \in polling
  BY <1>1 DEF HearInv
<1>3. loop.session = k
  BY <1>2, ReadsItsOwn
<1>4. Live(k)
  <2>1. k \in 1 .. started /\ ~ \E j \in k + 1 .. started : j \notin alone
    BY Known DEF Unjoined
  <2> QED
    BY <1>2, <2>1 DEF TtyInv, OnlyJoinedSessionsLeak
<1> QED
  BY <1>3, <1>4 DEF Live

LEMMA TasksStayOwn ==
  ASSUME TtyInv, HearInv, [Next]_vars, NEW t \in TaskSet(started'), Queued(t, tasks')
  PROVE  OwnTask(t)'
<1> USE DEF sessionVars, socketVars, heldVars, authVars
<1>1. /\ started \in Nat /\ tasks \in Seq(TaskSet(started))
      /\ tenant \in [Sockets -> 0 .. started]
      /\ <<>> \in Seq(TaskSet(started)) /\ ~ Queued(t, <<>>)
  BY Known DEF TtyInv, SessionTypes, TypeOK, TaskSet, Queued
<1>2. \A u \in TaskSet(started) : Queued(u, tasks) => OwnTask(u)
  BY DEF HearInv
<1>3. ASSUME NEW s \in Sockets, NEW n \in Fds, OpenTty(s, n) PROVE OwnTask(t)'
  <2>1. /\ started' = started + 1 /\ tasks' = tasks
        /\ tenant' = [tenant EXCEPT ![s] = started + 1]
        /\ socketOf' = [socketOf EXCEPT ![started + 1] = s]
        /\ alone' \subseteq alone \cup {started + 1} /\ alone \subseteq alone'
    BY <1>3 DEF OpenTty
  <2>2. t \in TaskSet(started)
    BY <1>1, <2>1 DEF Queued
  <2>3. /\ t.socket \in Sockets /\ t.at \in 0 .. started /\ t.from \in 0 .. started
    BY <2>2 DEF TaskSet
  <2>4. OwnTask(t)
    BY <1>2, <2>1, <2>2
  <2> SUFFICES ASSUME t.do = "send", t.from \in alone', Unjoined(t.from)'
               PROVE  /\ t.socket = socketOf'[t.from]
                      /\ \/ tenant'[t.socket] \in {t.from, None}
                         \/ tenant'[t.socket] > t.at
    BY DEF OwnTask
  <2>5. t.from \in alone /\ t.from # started + 1
    BY <1>1, <2>1, <2>3
  <2>6. Unjoined(t.from)
    <3> SUFFICES ASSUME NEW j \in t.from + 1 .. started PROVE j \in alone
      BY DEF Unjoined
    <3>1. j \in t.from + 1 .. started + 1 /\ j # started + 1
      BY <1>1, <2>3
    <3> QED
      BY <2>1, <3>1 DEF Unjoined
  <2>7. /\ t.socket = socketOf[t.from]
        /\ tenant[t.socket] \in {t.from, None} \/ tenant[t.socket] > t.at
    BY <2>4, <2>5, <2>6 DEF OwnTask
  <2>8. socketOf'[t.from] = socketOf[t.from]
    BY <2>1, <2>5, <2>3 DEF TtyInv, SessionTypes, TypeOK
  <2>9. tenant'[t.socket] = tenant[t.socket] \/ tenant'[t.socket] = started + 1
    BY <1>1, <2>1, <2>3
  <2> QED
    BY <1>1, <2>3, <2>7, <2>8, <2>9
<1>4. ASSUME UNCHANGED <<started, alone, socketOf, tenant>>,
             Queued(t, tasks) \/ t.do = "close"
      PROVE  OwnTask(t)'
  <2>1. CASE Queued(t, tasks)
    BY <1>1, <1>2, <1>4, <2>1, OwnStays DEF TtyInv, SessionTypes, TypeOK
  <2>2. CASE t.do = "close"
    BY <2>2 DEF OwnTask
  <2> QED
    BY <1>4, <2>1, <2>2
<1>5. ASSUME NEW k \in Sessions, OnDisconnect(k) PROVE OwnTask(t)'
  <2>1. /\ UNCHANGED <<started, alone, socketOf>> /\ CloseOut(<<>>, output)
        /\ tenant' = [tenant EXCEPT ![socketOf[k]] = None]
    BY <1>5 DEF OnDisconnect
  <2>2. \A s \in Sockets : tenant'[s] \in {None, tenant[s]}
    BY <1>1, <2>1
  <2>3. Queued(t, tasks) \/ t.do = "close"
    BY <1>1, <2>1, Added
  <2>4. CASE Queued(t, tasks)
    BY <1>2, <2>1, <2>2, <2>4, OwnStays
  <2>5. CASE t.do = "close"
    BY <2>5 DEF OwnTask
  <2> QED
    BY <2>3, <2>4, <2>5
<1>6. ASSUME RunTask PROVE OwnTask(t)'
  BY <1>1, <1>4, <1>6, TailQueued DEF RunTask
<1>7. ASSUME PollEvent PROVE OwnTask(t)'
  <2> DEFINE n == fdOf[loop.session]
             send == Task("send", socketOf[loop.session], output[n])
             read == [output EXCEPT ![n] = None]
  <2>1. /\ loop.pc = "poll" /\ UNCHANGED <<started, alone, socketOf, tenant>>
        /\ \/ UNCHANGED heldVars
           \/ /\ output[n] # None
              /\ tasks' = Append(tasks, send) \/ CloseOut(<<send>>, read)
    BY <1>7 DEF PollEvent, Loop, ReadFails
  <2>2. <<send>> \in Seq(TaskSet(started)) /\ send \in TaskSet(started)
    BY <2>1, Listened
  <2>3. output[n] # None => OwnTask(send)
    BY <2>1, SendIsOwn
  <2> HIDE DEF n, send, read
  <2>4. Queued(t, <<send>>) => t = send
    BY DEF Queued
  <2>5. \/ Queued(t, tasks) \/ t.do = "close"
        \/ output[n] # None /\ t = send
    <3>1. CASE UNCHANGED heldVars
      BY <3>1
    <3>2. CASE output[n] # None /\ tasks' = Append(tasks, send)
      <4>1. tasks' = tasks \o <<send>>
        BY <1>1, <2>2, <3>2, AppendIsConcat
      <4> QED
        BY <1>1, <2>2, <2>4, <3>2, <4>1, ConcatQueued
    <3>3. CASE output[n] # None /\ CloseOut(<<send>>, read)
      BY <2>2, <2>4, <3>3, Added
    <3> QED
      BY <2>1, <3>1, <3>2, <3>3
  <2>6. CASE output[n] # None /\ t = send
    BY <1>1, <2>1, <2>2, <2>3, <2>6, OwnStays DEF TtyInv, SessionTypes, TypeOK
  <2> QED
    BY <1>4, <2>1, <2>5, <2>6
<1>8. ASSUME ExitEventEnds PROVE OwnTask(t)'
  <2>1. /\ UNCHANGED <<started, alone, socketOf, tenant>>
        /\ CloseOut(<<>>, output) \/ tasks' = tasks
    BY <1>8 DEF ExitEventEnds
  <2>2. Queued(t, tasks) \/ t.do = "close"
    BY <1>1, <2>1, Added
  <2> QED
    BY <1>4, <2>1, <2>2
<1>9. CASE WebThread
  <2>1. ASSUME Install \/ Subscribe \/ Ask \/ Return PROVE OwnTask(t)'
    BY <1>4, <2>1 DEF Install, Subscribe, Ask, Return
  <2>2. ASSUME NEW k \in Sessions, OnData(k) PROVE OwnTask(t)'
    BY <1>4, <2>2 DEF OnData
  <2> QED
    BY <1>3, <1>5, <1>6, <1>9, <2>1, <2>2 DEF WebThread
<1>10. CASE LoopThread
  <2>1. ASSUME NEW k \in Sessions, PollWakes(k) \/ ExitEventBegins(k)
        PROVE  OwnTask(t)'
    BY <1>4, <2>1 DEF PollWakes, ExitEventBegins
  <2> QED
    BY <1>7, <1>8, <1>10, <2>1 DEF LoopThread
<1>11. CASE Outside
  BY <1>4, <1>11 DEF Outside, ClientLeaves, AuthSpawned, AuthOpens, AuthCloses,
     AuthWrites, AuthExits, apiVars
<1>12. CASE Stopped \/ UNCHANGED vars
  BY <1>4, <1>12 DEF Stopped, vars
<1> QED
  BY <1>9, <1>10, <1>11, <1>12 DEF Next

\* closeOut is called from three places and looks at what is in the maps, not
\* at who called; yet a session that began alone is closed out only for its own
\* websocket, its own authenticator, or bytes that came between the poll that
\* reported a hang-up and the read.
THEOREM SessionsAreClosedForACause == Spec => ClosedForACause
<1>1. TtyInv /\ [Next]_vars =>
        [\A k \in alone :
           handles = k /\ handles' = None =>
             \/ k \in leaving
             \/ auth[k] = "down"
             \/ loop.hup /\ output[fdOf[loop.session]] # None]_vars
  BY Causes
<1> QED
  BY <1>1, TtyInvariant, PTL DEF Spec, ClosedForACause

\* An authenticator holds its tty, and bytes of it wait there, only while its
\* session polls; and whoever is the master of a descriptor opened it.
LEMMA TtysStayOwn ==
  ASSUME TtyInv, HearInv, [Next]_vars
  PROVE  /\ \A k \in alone' : Unjoined(k)' =>
              /\ k \in attached' => k \in polling'
              /\ \A n \in Fds : output'[n] = k => k \in polling'
         /\ \A n \in Fds : master'[n] # None => fdOf'[master'[n]] = n
<1> DEFINE Goal ==
      /\ \A k \in alone' : Unjoined(k)' =>
           /\ k \in attached' => k \in polling'
           /\ \A n \in Fds : output'[n] = k => k \in polling'
      /\ \A n \in Fds : master'[n] # None => fdOf'[master'[n]] = n
<1> USE DEF sessionVars, socketVars, heldVars, authVars
<1>1. /\ started \in Nat /\ alone \subseteq 1 .. started
      /\ attached \subseteq 1 .. started /\ polling \subseteq 1 .. started
      /\ master \in [Fds -> 0 .. started] /\ output \in [Fds -> 0 .. started]
      /\ fdOf \in [Sessions -> Fds \cup {None}]
  BY Known DEF TtyInv, SessionTypes, TypeOK
<1>2. /\ \A k \in alone : Unjoined(k) =>
           /\ k \in attached => k \in polling
           /\ \A n \in Fds : output[n] = k => k \in polling
      /\ \A n \in Fds : master[n] # None => fdOf[master[n]] = n
  BY DEF HearInv
<1>3. ASSUME NEW s \in Sockets, NEW n \in Fds, OpenTty(s, n) PROVE Goal
  <2> DEFINE j == started + 1
  <2>1. /\ started' = j /\ fdOf' = [fdOf EXCEPT ![j] = n]
        /\ master' = [master EXCEPT ![n] = j] /\ polling' = polling \cup {j}
        /\ alone' \subseteq alone \cup {j} /\ alone \subseteq alone'
        /\ UNCHANGED <<attached, output>> /\ j \in Sessions
    BY <1>1, <1>3, SessionAssumption DEF OpenTty, Sessions
  <2>2. ASSUME NEW k \in alone', Unjoined(k)'
        PROVE  /\ k \in attached => k \in polling'
               /\ \A m \in Fds : output[m] = k => k \in polling'
    <3>1. CASE k = j
      BY <2>1, <3>1
    <3>2. CASE k # j
      <4>1. k \in alone /\ k \in 1 .. started
        BY <1>1, <2>1, <3>2
      <4>2. Unjoined(k)
        <5> SUFFICES ASSUME NEW i \in k + 1 .. started PROVE i \in alone
          BY DEF Unjoined
        <5>1. i \in k + 1 .. j /\ i # j
          BY <1>1, <4>1
        <5> QED
          BY <2>1, <2>2, <5>1 DEF Unjoined
      <4> QED
        BY <1>2, <2>1, <4>1, <4>2
    <3> QED
      BY <3>1, <3>2
  <2>3. ASSUME NEW m \in Fds, master'[m] # None PROVE fdOf'[master'[m]] = m
    <3>1. CASE m = n
      BY <1>1, <2>1, <3>1
    <3>2. CASE m # n
      <4>1. master'[m] = master[m] /\ master[m] \in 0 .. started /\ master[m] # j
        BY <1>1, <2>1, <3>2
      <4> QED
        BY <1>1, <1>2, <2>1, <2>3, <4>1
    <3> QED
      BY <3>1, <3>2
  <2> QED
    BY <2>1, <2>2, <2>3
<1>4. ASSUME UNCHANGED <<started, alone, polling, master, fdOf>>,
             attached' \subseteq attached,
             \A n \in Fds : output'[n] \in {None, output[n]}
      PROVE  Goal
  <2>1. \A k \in alone : k # None /\ Unjoined(k)' = Unjoined(k)
    BY <1>1, <1>4 DEF Unjoined, None
  <2> QED
    BY <1>2, <1>4, <2>1
<1>5. ASSUME NEW queued, NEW left \in [Fds -> 0 .. started],
             \A n \in Fds : left[n] \in {None, output[n]},
             CloseOut(queued, left), UNCHANGED <<started, alone, fdOf>>
      PROVE  Goal
  <2>1. /\ polling' = polling \ {handles}
        /\ master' = [n \in Fds |-> IF n = fds THEN None ELSE master[n]]
        /\ output' = [n \in Fds |-> IF n = fds THEN None ELSE left[n]]
        /\ attached' = {a \in attached : fdOf[a] # fds}
    BY <1>5 DEF CloseOut, CloseFd
  <2>2. ASSUME NEW k \in alone, Unjoined(k)'
        PROVE  /\ k \in attached' => k \in polling'
               /\ \A n \in Fds : output'[n] = k => k \in polling'
    <3>1. Unjoined(k) /\ k # None
      BY <1>1, <1>5, <2>2 DEF Unjoined, None
    <3>2. k = handles => fds = fdOf[k]
      BY <3>1, HandlesAre
    <3>3. k \in attached' => k \in polling'
      BY <1>2, <2>1, <3>1, <3>2
    <3>4. ASSUME NEW n \in Fds, output'[n] = k PROVE k \in polling'
      <4>1. output[n] = k /\ n # fds
        BY <1>5, <2>1, <3>1, <3>4
      <4>2. fdOf[k] = n /\ k \in polling
        BY <1>2, <3>1, <4>1 DEF TtyInv, PollInv
      <4> QED
        BY <2>1, <3>2, <4>1, <4>2
    <3> QED
      BY <3>3, <3>4
  <2>3. \A n \in Fds : master'[n] # None => fdOf[master'[n]] = n
    BY <1>2, <2>1
  <2> QED
    BY <1>5, <2>2, <2>3
<1>6. /\ <<>> \in Seq(TaskSet(started))
      /\ \A n \in Fds : output[n] \in {None, output[n]}
  OBVIOUS
<1>7. ASSUME NEW k \in Sessions, AuthOpens(k) PROVE Goal
  <2>1. /\ attached' = attached \cup {k} /\ auth[k] = "up"
        /\ master[fdOf[k]] # None
        /\ UNCHANGED <<started, alone, polling, master, fdOf, output>>
    BY <1>7 DEF AuthOpens, apiVars
  <2>2. k \in 1 .. started /\ fdOf[k] \in Fds
    <3>1. ~(k > started) /\ k \in Nat
      BY <2>1 DEF TtyInv, SessionTypes, Sessions
    <3>2. k \in 1 .. started
      BY <1>1, <3>1 DEF Sessions
    <3> QED
      BY <3>2 DEF TtyInv, SessionTypes
  <2>3. ASSUME k \in alone, Unjoined(k) PROVE k \in polling
    <3> DEFINE j == master[fdOf[k]]
    <3>1. j \in 1 .. started /\ fdOf[j] = fdOf[k]
      BY <1>1, <1>2, <2>1, <2>2 DEF None
    <3>2. j \in polling
      BY <3>1 DEF TtyInv, PollInv
    <3>3. ~(j < k)
      BY <2>2, <3>1, <3>2 DEF TtyInv, PollInv
    <3>4. ASSUME k < j PROVE FALSE
      <4>1. j \in alone /\ k \in 1 .. j - 1
        BY <1>1, <2>2, <2>3, <3>1, <3>4 DEF Unjoined
      <4> QED
        BY <2>1, <4>1 DEF TtyInv, AloneInv
    <3>5. j = k
      BY <2>2, <3>1, <3>3, <3>4
    <3> QED
      BY <3>2, <3>5
  <2>4. \A i \in alone : Unjoined(i)' = Unjoined(i)
    BY <2>1 DEF Unjoined
  <2> QED
    BY <1>2, <2>1, <2>3, <2>4
<1>8. ASSUME NEW k \in Sessions, AuthWrites(k) PROVE Goal
  <2>1. /\ output' = [output EXCEPT ![fdOf[k]] = k] /\ k \in attached
        /\ UNCHANGED <<started, alone, polling, master, fdOf, attached>>
    BY <1>8 DEF AuthWrites, apiVars
  <2>2. \A i \in alone : Unjoined(i)' = Unjoined(i)
    BY <2>1 DEF Unjoined
  <2>3. \A n \in Fds : output'[n] \in {k, output[n]}
    BY <1>1, <2>1
  <2> QED
    BY <1>2, <2>1, <2>2, <2>3
<1>9. CASE WebThread
  <2>1. ASSUME Install \/ Subscribe \/ Ask \/ Return \/ RunTask PROVE Goal
    BY <1>4, <2>1 DEF Install, Subscribe, Ask, Return, RunTask
  <2>2. ASSUME NEW k \in Sessions, OnData(k) PROVE Goal
    BY <1>4, <2>2 DEF OnData
  <2>3. ASSUME NEW k \in Sessions, OnDisconnect(k) PROVE Goal
    BY <1>1, <1>5, <1>6, <2>3 DEF OnDisconnect
  <2> QED
    BY <1>3, <1>9, <2>1, <2>2, <2>3 DEF WebThread
<1>10. CASE LoopThread
  <2>1. ASSUME NEW k \in Sessions, PollWakes(k) \/ ExitEventBegins(k) PROVE Goal
    BY <1>4, <2>1 DEF PollWakes, ExitEventBegins
  <2>2. ASSUME PollEvent PROVE Goal
    <3> DEFINE n == fdOf[loop.session]
               send == Task("send", socketOf[loop.session], output[n])
               read == [output EXCEPT ![n] = None]
    <3>1. /\ loop.pc = "poll" /\ UNCHANGED <<started, alone, fdOf>>
          /\ \/ UNCHANGED heldVars
             \/ output' = read /\ UNCHANGED <<polling, master, attached>>
             \/ CloseOut(<<send>>, read)
      BY <2>2 DEF PollEvent, Loop, ReadFails
    <3>2. /\ read \in [Fds -> 0 .. started]
          /\ \A m \in Fds : read[m] \in {None, output[m]}
      BY <3>1, Listened
    <3> HIDE DEF n, send, read
    <3> QED
      BY <1>4, <1>5, <1>6, <3>1, <3>2
  <2>3. ASSUME ExitEventEnds PROVE Goal
    BY <1>1, <1>4, <1>5, <1>6, <2>3 DEF ExitEventEnds
  <2> QED
    BY <1>10, <2>1, <2>2, <2>3 DEF LoopThread
<1>11. CASE Outside
  <2>1. ASSUME NEW k \in Sessions,
               ClientLeaves(k) \/ AuthSpawned(k) \/ AuthCloses(k) \/ AuthExits(k)
        PROVE  Goal
    BY <1>4, <1>6, <2>1
       DEF ClientLeaves, AuthSpawned, AuthCloses, AuthExits, apiVars
  <2> QED
    BY <1>7, <1>8, <1>11, <2>1 DEF Outside
<1>12. CASE Stopped \/ UNCHANGED vars
  BY <1>4, <1>12 DEF Stopped, vars
<1> QED
  BY <1>9, <1>10, <1>11, <1>12 DEF Next

LEMMA HearInit == Init => HearInv
BY DEF Init, HearInv, Queued, None

LEMMA HearStep == TtyInv /\ HearInv /\ [Next]_vars => HearInv'
BY TasksStayOwn, TtysStayOwn DEF HearInv

\* Where the bytes go is settled when the task runs.
LEMMA Hearings ==
  ASSUME TtyInv, HearInv, [Next]_vars, NEW k \in alone, Unjoined(k),
         Len(tasks') < Len(tasks), Head(tasks).do = "send", Head(tasks).from = k
  PROVE  LET t == Head(tasks) IN
           \/ tenant[t.socket] = k
           \/ ~Live(k) /\ (tenant[t.socket] = None \/ tenant[t.socket] > t.at)
<1> DEFINE t == Head(tasks)
<1>1. tasks \in Seq(TaskSet(started)) /\ Len(tasks) \in Nat
  BY LenProperties DEF TtyInv, SessionTypes, TypeOK, TaskSet
<1>2. tasks # <<>>
  <2>1. Len(tasks') \in Nat
    BY TtyStep, LenProperties DEF TtyInv, SessionTypes, TypeOK
  <2>2. Len(<<>>) = 0
    OBVIOUS
  <2> QED
    BY <1>1, <2>1, <2>2
<1>3. t \in TaskSet(started) /\ Queued(t, tasks)
  <2>1. t \in TaskSet(started) /\ t = tasks[1] /\ Len(tasks) >= 1
    BY <1>1, <1>2, HeadTailProperties, LenProperties, EmptySeq
  <2>2. 1 \in 1 .. Len(tasks)
    BY <1>1, <2>1
  <2> QED
    BY <2>1, <2>2 DEF Queued
<1>4. OwnTask(t)
  BY <1>3 DEF HearInv
<1> QED
  BY <1>4 DEF OwnTask, Live

\* The listener captured a descriptor and a raw pointer, and the task it queues
\* runs later, on the other thread; yet the bytes of a session that began alone
\* and was not joined reach its own websocket, or find it gone: then only a
\* session that connected while the task was waiting can get them.
THEOREM ReadersHearTheirOwn == Spec => ReaderHearsItsOwn
<1>1. TtyInv /\ HearInv /\ [Next]_vars =>
        [\A k \in alone :
           LET t == Head(tasks) IN
             Unjoined(k) /\ Len(tasks') < Len(tasks) /\ t.do = "send" /\ t.from = k
               => \/ tenant[t.socket] = k
                  \/ ~Live(k) /\ (tenant[t.socket] = None \/ tenant[t.socket] > t.at)]_vars
  BY Hearings
<1>2. Spec => []HearInv
  BY TtyInvariant, HearInit, HearStep, PTL DEF Spec
<1> QED
  BY <1>1, <1>2, TtyInvariant, PTL DEF Spec, ReaderHearsItsOwn
=============================================================================
