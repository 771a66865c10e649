--------------------------- MODULE IpcServerProofs ---------------------------
(***************************************************************************)
(* Theorems about IpcServer: the routing of calls by pid is right for any  *)
(* number of daemons, authenticators, pids, connections and calls.         *)
(*                                                                         *)
(* The supervisor's invariant is kept by the composition, since the server *)
(* changes nothing of the supervisor but that an abort may end it.  To it  *)
(* LiveLinks adds that the pid kept with the connection of a living peer   *)
(* is the pid of that very child: a pid is free for others only when its   *)
(* child was reaped, and by then the peer's connections are hung up.       *)
(*                                                                         *)
(* Replies and exit notices go where the address of a pipe leads: MailInv  *)
(* says that a pipe somebody refers to stays open while its peer lives, so *)
(* that no other connection is made at its address meanwhile.              *)
(***************************************************************************)
EXTENDS IpcServer, ProcSupervisorProofs

\* The peer that was recorded is alive, and still the child of its Proc.
LiveLinks ==
  \A c \in Conns :
    link[c] \in {"backlog", "open"} /\ c \notin hungUp =>
      /\ author[c] \in Procs
      /\ peerPid[c] \in Pids \ zombies
      /\ owner[peerPid[c]] = author[c]

\* What became of the calls of a peer that has not exited.
TakenAsItself(c, call) ==
  call.state # "refused" /\ call.by \in {Unregistered, NameOf(author[c])}
LiveCalls ==
  \A c \in Conns : c \notin hungUp =>
    \A i \in DOMAIN calls[c] : TakenAsItself(c, calls[c][i])

\* What a creation waits for is an authenticator.
CreatesAuthenticators ==
  \A c \in Conns : \A i \in DOMAIN calls[c] :
    calls[c][i].for \in Authenticators \cup {Nobody}

ServerTypes ==
  /\ link \in [Conns -> {"none", "backlog", "open", "closed", "failed"}]
  /\ author \in [Conns -> Procs \cup {Nobody}]
  /\ peerPid \in [Conns -> Pids \cup {NoHandle}]
  /\ pipe \in [Conns -> Pipes \cup {Nobody}]
  /\ hungUp \subseteq Conns
  /\ calls \in [Conns -> Seq(Call)]
  /\ asker \in [Procs -> Conns \cup {Nobody}]
  /\ astray \subseteq Conns

SupervisorInv == IInv /\ CreatorsHear
ConnectionInv == LiveLinks /\ LiveCalls /\ CreatesAuthenticators
ServerInv == SupervisorInv /\ ServerTypes /\ ConnectionInv

\* The names and states of a call.
LEMMA Words ==
  /\ Services = {"api", "auth"} /\ "api" # Unregistered /\ "auth" # Unregistered
  /\ \A p : NameOf(p) \in Services
  /\ Services \subseteq Names
BY DEF Services, Unregistered, NameOf, Names

\* The fields of a call.
LEMMA CallFields ==
  ASSUME NEW call \in Call
  PROVE  /\ call.kind \in Kinds /\ call.state \in States
         /\ call.by \in Services \cup {Unregistered}
         /\ call.for \in Procs \cup {Nobody}
BY DEF Call

\* One call of a connection changes, and no other.
LEMMA SetCallIs ==
  ASSUME ServerTypes, NEW c \in Conns, NEW i \in DOMAIN calls[c],
         NEW call \in Call, SetCall(c, i, call)
  PROVE  /\ calls' \in [Conns -> Seq(Call)]
         /\ \A d \in Conns :
              /\ DOMAIN calls'[d] = DOMAIN calls[d]
              /\ \A j \in DOMAIN calls[d] :
                   calls'[d][j] = IF d = c /\ j = i THEN call ELSE calls[d][j]
<1>1. calls \in [Conns -> Seq(Call)] /\ calls[c] \in Seq(Call)
  BY DEF ServerTypes
<1> DEFINE s == [calls[c] EXCEPT ![i] = call]
<1>2. /\ s \in Seq(Call) /\ DOMAIN s = DOMAIN calls[c]
      /\ \A j \in DOMAIN calls[c] : s[j] = IF j = i THEN call ELSE calls[c][j]
  <2>1. i \in 1 .. Len(calls[c]) /\ DOMAIN calls[c] = 1 .. Len(calls[c])
    BY <1>1, LenProperties
  <2> QED
    BY <1>1, <2>1, ExceptSeq
<1>3. calls' = [calls EXCEPT ![c] = s]
  BY DEF SetCall
<1> HIDE DEF s
<1> QED
  BY <1>1, <1>2, <1>3

\* A connection whose peer, pid and child stay as they are.
LEMMA LinksKept ==
  ASSUME ServerInv, UNCHANGED <<author, peerPid, owner, zombies>>,
         hungUp \subseteq hungUp',
         \A c \in Conns : link'[c] \in {"backlog", "open"}
                            => link[c] \in {"backlog", "open"}
  PROVE  LiveLinks'
BY Zenon DEF ServerInv, ConnectionInv, LiveLinks

\* A call that is changed: it is the only one, so it alone must be looked at.
LEMMA CallChanged ==
  ASSUME ServerInv, NEW c \in Conns, NEW i \in DOMAIN calls[c],
         NEW call \in Call, SetCall(c, i, call),
         UNCHANGED <<link, author, peerPid, pipe, hungUp, owner, zombies>>,
         c \notin hungUp => TakenAsItself(c, call),
         call.for \in Authenticators \cup {Nobody},
         asker' \in [Procs -> Conns \cup {Nobody}], astray' \subseteq Conns
  PROVE  ServerTypes' /\ ConnectionInv'
<1>1. /\ calls' \in [Conns -> Seq(Call)]
      /\ \A d \in Conns :
           /\ DOMAIN calls'[d] = DOMAIN calls[d]
           /\ \A j \in DOMAIN calls[d] :
                calls'[d][j] = IF d = c /\ j = i THEN call ELSE calls[d][j]
  BY SetCallIs DEF ServerInv
<1>2. ServerTypes'
  BY <1>1, Zenon DEF ServerInv, ServerTypes
<1>3. LiveLinks'
  BY LinksKept, Zenon
<1>4. ASSUME NEW d \in Conns, d \notin hungUp', NEW j \in DOMAIN calls'[d]
      PROVE  TakenAsItself(d, calls[d][j])'
  <2>1. d \notin hungUp /\ j \in DOMAIN calls[d]
    BY <1>1, <1>4
  <2>2. \/ d = c /\ calls'[d][j] = call
        \/ calls'[d][j] = calls[d][j]
    BY <1>1, <2>1
  <2>3. TakenAsItself(d, calls[d][j])
    BY <2>1 DEF ServerInv, ConnectionInv, LiveCalls
  <2> QED
    BY <2>1, <2>2, <2>3, Zenon DEF TakenAsItself
<1>5. LiveCalls'
  BY <1>4 DEF LiveCalls
<1>6. CreatesAuthenticators'
  <2> SUFFICES ASSUME NEW d \in Conns, NEW j \in DOMAIN calls'[d]
               PROVE  calls'[d][j].for \in Authenticators \cup {Nobody}
    BY DEF CreatesAuthenticators
  <2>1. j \in DOMAIN calls[d] /\ calls'[d][j] \in {call, calls[d][j]}
    BY <1>1
  <2>2. calls[d][j].for \in Authenticators \cup {Nobody}
    BY <2>1 DEF ServerInv, ConnectionInv, CreatesAuthenticators
  <2> QED
    BY <2>1, <2>2
<1> QED
  BY <1>2, <1>3, <1>5, <1>6 DEF ConnectionInv

-----------------------------------------------------------------------------
(* The actions of the children.                                             *)

\* When the server starts there is no connection.
LEMMA InitServerInv == ServerInit => ServerInv
<1> SUFFICES ASSUME ServerInit PROVE ServerInv
  OBVIOUS
<1>1. SupervisorInv
  BY InitIInv, SupervisorAssumption
     DEF ServerInit, SupervisorInv, Init, CreatorsHear, Hears, Procs
<1>2. ServerTypes
  <2>1. <<>> \in Seq(Call)
    OBVIOUS
  <2> QED
    BY <2>1 DEF ServerInit, ServerTypes
<1>3. ConnectionInv
  BY DEF ServerInit, ConnectionInv, LiveLinks, LiveCalls, CreatesAuthenticators
<1> QED
  BY <1>1, <1>2, <1>3 DEF ServerInv

\* The pid a child connects with is its own.
LEMMA ConnectInv ==
  ASSUME ServerInv, NEW p \in Procs, NEW c \in Conns, Connect(p, c)
  PROVE  ServerTypes' /\ ConnectionInv'
<1>1. owner[handle[p]] = p /\ handle[p] \in Pids \ zombies
  <2>1. handle[p] \in Pids \ zombies /\ handle[p] # NoHandle
          /\ handle[p] # Unspawned
    BY SupervisorAssumption DEF Connect, NoHandle, Unspawned
  <2>2. p \in processes \ idle
    BY <2>1 DEF ServerInv, SupervisorInv, IInv, Lifeline
  <2> QED
    BY <2>1, <2>2 DEF ServerInv, SupervisorInv, IInv, Lifeline
<1>2. ServerTypes'
  <2>1. <<>> \in Seq(Call)
    OBVIOUS
  <2> QED
    BY <1>1, <2>1 DEF Connect, ServerInv, ServerTypes
<1>3. LiveLinks'
  <2> SUFFICES ASSUME NEW d \in Conns, link'[d] \in {"backlog", "open"},
                      d \notin hungUp'
               PROVE  /\ author'[d] \in Procs
                      /\ peerPid'[d] \in Pids \ zombies'
                      /\ owner'[peerPid'[d]] = author'[d]
    BY DEF LiveLinks
  <2>1. UNCHANGED <<owner, zombies>>
    BY DEF Connect, vars, kernelVars
  <2>2. CASE d = c
    BY <1>1, <2>1, <2>2 DEF Connect, ServerInv, ServerTypes
  <2>3. CASE d # c
    <3>1. /\ link'[d] = link[d] /\ author'[d] = author[d]
          /\ peerPid'[d] = peerPid[d] /\ d \notin hungUp
      BY <2>3 DEF Connect, ServerInv, ServerTypes
    <3> QED
      BY <2>1, <3>1 DEF ServerInv, ConnectionInv, LiveLinks
  <2> QED
    BY <2>2, <2>3
<1>4. LiveCalls'
  <2> SUFFICES ASSUME NEW d \in Conns, d \notin hungUp',
                      NEW i \in DOMAIN calls'[d]
               PROVE  TakenAsItself(d, calls[d][i])'
    BY DEF LiveCalls
  <2>1. d # c
    BY DEF Connect, ServerInv, ServerTypes
  <2>2. calls'[d] = calls[d] /\ d \notin hungUp /\ author'[d] = author[d]
    BY <2>1 DEF Connect, ServerInv, ServerTypes
  <2>3. TakenAsItself(d, calls[d][i])
    BY <2>2 DEF ServerInv, ConnectionInv, LiveCalls
  <2> QED
    BY <2>2, <2>3 DEF TakenAsItself
<1>5. CreatesAuthenticators'
  <2> SUFFICES ASSUME NEW d \in Conns, NEW i \in DOMAIN calls'[d]
               PROVE  calls'[d][i].for \in Authenticators \cup {Nobody}
    BY DEF CreatesAuthenticators
  <2>1. d # c /\ calls'[d] = calls[d]
    BY DEF Connect, ServerInv, ServerTypes
  <2> QED
    BY <2>1 DEF ServerInv, ConnectionInv, CreatesAuthenticators
<1> QED
  BY <1>2, <1>3, <1>4, <1>5 DEF ConnectionInv

\* A call that is sent has not been taken by any service.
LEMMA SendCallInv ==
  ASSUME ServerInv, NEW c \in Conns, NEW k \in Kinds, SendCall(c, k)
  PROVE  ServerTypes' /\ ConnectionInv'
<1>1. /\ NewCall(k) \in Call /\ NewCall(k).state = "sent"
      /\ NewCall(k).by = Unregistered /\ NewCall(k).for = Nobody
  BY DEF NewCall, Call, States
<1>2. calls \in [Conns -> Seq(Call)] /\ calls[c] \in Seq(Call)
  BY DEF ServerInv, ServerTypes
<1>3. /\ Append(calls[c], NewCall(k)) \in Seq(Call)
      /\ \A j \in DOMAIN Append(calls[c], NewCall(k)) :
           \/ j \in DOMAIN calls[c]
                /\ Append(calls[c], NewCall(k))[j] = calls[c][j]
           \/ Append(calls[c], NewCall(k))[j] = NewCall(k)
  BY <1>1, <1>2, AppendProperties
<1>4. /\ calls' \in [Conns -> Seq(Call)]
      /\ \A d \in Conns : \A j \in DOMAIN calls'[d] :
           \/ j \in DOMAIN calls[d] /\ calls'[d][j] = calls[d][j]
           \/ calls'[d][j] = NewCall(k)
  BY <1>2, <1>3 DEF SendCall
<1>5. UNCHANGED <<vars, link, author, peerPid, pipe, hungUp, asker, astray,
                  owner, zombies>>
  BY DEF SendCall, vars, kernelVars
<1>6. ServerTypes'
  BY <1>4, <1>5, Zenon DEF ServerInv, ServerTypes
<1>7. LiveLinks'
  BY <1>5, LinksKept, Zenon
<1>8. LiveCalls'
  <2> SUFFICES ASSUME NEW d \in Conns, d \notin hungUp',
                      NEW j \in DOMAIN calls'[d]
               PROVE  TakenAsItself(d, calls[d][j])'
    BY DEF LiveCalls
  <2>1. CASE calls'[d][j] = NewCall(k)
    BY <1>1, <2>1 DEF TakenAsItself
  <2>2. CASE j \in DOMAIN calls[d] /\ calls'[d][j] = calls[d][j]
    <3>1. TakenAsItself(d, calls[d][j])
      BY <1>5, <2>2 DEF ServerInv, ConnectionInv, LiveCalls
    <3> QED
      BY <1>5, <2>2, <3>1 DEF TakenAsItself
  <2> QED
    BY <1>4, <2>1, <2>2
<1>9. CreatesAuthenticators'
  <2> SUFFICES ASSUME NEW d \in Conns, NEW j \in DOMAIN calls'[d]
               PROVE  calls'[d][j].for \in Authenticators \cup {Nobody}
    BY DEF CreatesAuthenticators
  <2>1. j \in DOMAIN calls[d] =>
          calls[d][j].for \in Authenticators \cup {Nobody}
    BY DEF ServerInv, ConnectionInv, CreatesAuthenticators
  <2> QED
    BY <1>1, <1>4, <2>1
<1> QED
  BY <1>6, <1>7, <1>8, <1>9 DEF ConnectionInv

\* Steps that leave the calls alone: they can only make fewer peers alive.
LEMMA CallsKept ==
  ASSUME ServerInv, UNCHANGED <<author, calls>>, hungUp \subseteq hungUp'
  PROVE  LiveCalls' /\ CreatesAuthenticators'
<1>1. CreatesAuthenticators'
  BY Zenon DEF ServerInv, ConnectionInv, CreatesAuthenticators
<1>2. LiveCalls'
  BY Zenon DEF ServerInv, ConnectionInv, LiveCalls, TakenAsItself
<1> QED
  BY <1>1, <1>2

\* A child that exits hangs up every connection its pid was recorded for.
LEMMA PeerExitsInv ==
  ASSUME ServerInv, NEW q \in Pids, PeerExits(q)
  PROVE  ServerTypes' /\ ConnectionInv'
<1>1. /\ zombies' = zombies \cup {q} /\ hungUp \subseteq hungUp'
      /\ UNCHANGED <<owner, link, author, peerPid, pipe, calls, asker, astray>>
  BY DEF PeerExits, ChildExits
<1>2. ServerTypes'
  BY <1>1 DEF PeerExits, ServerInv, ServerTypes
<1>3. LiveLinks'
  <2> SUFFICES ASSUME NEW d \in Conns, link'[d] \in {"backlog", "open"},
                      d \notin hungUp'
               PROVE  /\ author'[d] \in Procs
                      /\ peerPid'[d] \in Pids \ zombies'
                      /\ owner'[peerPid'[d]] = author'[d]
    BY DEF LiveLinks
  <2>1. /\ author[d] \in Procs /\ peerPid[d] \in Pids \ zombies
        /\ owner[peerPid[d]] = author[d]
    BY <1>1 DEF ServerInv, ConnectionInv, LiveLinks
  <2>2. peerPid[d] # q
    BY <1>1, <2>1 DEF PeerExits
  <2> QED
    BY <1>1, <2>1, <2>2
<1>4. LiveCalls' /\ CreatesAuthenticators'
  BY <1>1, CallsKept
<1> QED
  BY <1>2, <1>3, <1>4 DEF ConnectionInv

-----------------------------------------------------------------------------
(* The actions of the server.                                               *)

\* A connection is accepted, ended or fails: only its link changes.
LEMMA LinkStepInv ==
  ASSUME ServerInv, NEW c \in Conns, Accept(c) \/ End(c) \/ ReadError(c)
  PROVE  ServerTypes' /\ ConnectionInv'
<1>1. PICK l \in {"open", "closed", "failed"} :
        /\ link' = [link EXCEPT ![c] = l]
        /\ link[c] \in {"backlog", "open"}
  BY DEF Accept, End, ReadError
<1>2. UNCHANGED <<author, peerPid, hungUp, calls, asker, astray, owner, zombies>>
  BY DEF Accept, End, ReadError, vars, kernelVars
<1>3. ServerTypes'
  <2>1. pipe' \in [Conns -> Pipes \cup {Nobody}]
    BY DEF Accept, End, ReadError, ServerInv, ServerTypes
  <2> QED
    BY <1>1, <1>2, <2>1 DEF ServerInv, ServerTypes
<1>4. LiveLinks'
  <2>1. \A d \in Conns : link'[d] \in {"backlog", "open"}
                           => link[d] \in {"backlog", "open"}
    BY <1>1 DEF ServerInv, ServerTypes
  <2> QED
    BY <1>2, <2>1, LinksKept
<1>5. LiveCalls' /\ CreatesAuthenticators'
  BY <1>2, CallsKept
<1> QED
  BY <1>3, <1>4, <1>5 DEF ConnectionInv

\* A packet of a living peer is routed to the peer's own service: its pid is
\* that of a child the kernel knows, and all of these are registered.
LEMMA RoutedToItself ==
  ASSUME ServerInv, NEW c \in Conns, link[c] = "open", c \notin hungUp
  PROVE  Service(c) = NameOf(author[c]) /\ Service(c) \in Services
<1>1. /\ author[c] \in Procs /\ peerPid[c] \in Pids
      /\ owner[peerPid[c]] = author[c]
  BY DEF ServerInv, ConnectionInv, LiveLinks
<1>2. peerPid[c] \in Pids \ FreePids
  BY <1>1, SupervisorAssumption DEF FreePids
<1>3. pidMap[peerPid[c]] = NameOf(author[c])
  BY <1>1, <1>2 DEF ServerInv, SupervisorInv, IInv, ChildIsRegistered
<1> QED
  BY <1>3, Words DEF Service

\* A packet that is handled, whatever comes of it.
LEMMA ReadingInv ==
  ASSUME ServerInv, NEW c \in Conns, NEW i \in 1 .. MaxCalls, Reading(c, i),
         NEW call \in Call, SetCall(c, i, call),
         call.by \in {calls[c][i].by, Service(c)},
         call.for \in Authenticators \cup {Nobody},
         call.state = "refused" => Service(c) \notin Services,
         UNCHANGED <<link, author, peerPid, pipe, hungUp, owner, zombies, astray>>,
         asker' \in [Procs -> Conns \cup {Nobody}]
  PROVE  ServerTypes' /\ ConnectionInv'
<1>1. i \in DOMAIN calls[c] /\ link[c] = "open"
  BY DEF Reading, Outstanding
<1>2. c \notin hungUp => TakenAsItself(c, call)
  <2> SUFFICES ASSUME c \notin hungUp PROVE TakenAsItself(c, call)
    OBVIOUS
  <2>1. TakenAsItself(c, calls[c][i])
    BY <1>1 DEF ServerInv, ConnectionInv, LiveCalls
  <2> QED
    BY <1>1, <2>1, RoutedToItself DEF TakenAsItself
<1>3. astray' \subseteq Conns
  BY DEF ServerInv, ServerTypes
<1> QED
  BY <1>1, <1>2, <1>3, CallChanged

\* A call is refused, dropped, ignored or handled.
LEMMA HandleCallInv ==
  ASSUME ServerInv, NEW c \in Conns, HandleCall(c)
  PROVE  ServerTypes' /\ ConnectionInv'
<1>1. PICK i \in 1 .. MaxCalls :
        \/ Refuse(c, i) \/ Drop(c, i) \/ Ignore(c, i) \/ HandleNow(c, i)
        \/ \E p \in Authenticators : HandleCreate(c, i, p)
  BY DEF HandleCall
<1> DEFINE call == calls[c][i]
<1>2. /\ Reading(c, i) /\ i \in DOMAIN calls[c]
      /\ call.state = "sent"
  BY <1>1 DEF Refuse, Drop, Ignore, HandleNow, HandleCreate, Reading, Outstanding
<1>3. call \in Call
  <2>1. calls[c] \in Seq(Call)
    BY DEF ServerInv, ServerTypes
  <2> QED
    BY <1>2, <2>1, ElementOfSeq, LenProperties
<1>4. call.for \in Authenticators \cup {Nobody}
  BY <1>2 DEF ServerInv, ConnectionInv, CreatesAuthenticators
<1>5. asker \in [Procs -> Conns \cup {Nobody}]
  BY DEF ServerInv, ServerTypes
<1>6. {"refused", "dropped", "ignored", "waiting"} \subseteq States
  BY DEF States
<1> HIDE DEF call
<1>7. CASE Refuse(c, i)
  <2> DEFINE new == [call EXCEPT !.state = "refused"]
  <2>1. new \in Call /\ new.by = call.by /\ new.for = call.for
    BY <1>3, <1>6 DEF Call
  <2>2. /\ SetCall(c, i, new) /\ Service(c) \notin Services
        /\ UNCHANGED <<link, author, peerPid, pipe, hungUp, owner, zombies,
                      asker, astray>>
    BY <1>7 DEF Refuse, call, vars, kernelVars
  <2> HIDE DEF new
  <2> QED
    BY <1>2, <1>4, <1>5, <2>1, <2>2, ReadingInv DEF call
<1>11. CASE Drop(c, i)
  <2> DEFINE new == [call EXCEPT !.state = "dropped"]
  <2>1. /\ new \in Call /\ new.by = call.by /\ new.for = call.for
        /\ new.state # "refused"
    BY <1>3, <1>6 DEF Call
  <2>2. /\ SetCall(c, i, new)
        /\ UNCHANGED <<link, author, peerPid, pipe, hungUp, owner, zombies,
                      asker, astray>>
    BY <1>11 DEF Drop, call, vars, kernelVars
  <2> HIDE DEF new
  <2> QED
    BY <1>2, <1>4, <1>5, <2>1, <2>2, ReadingInv DEF call
<1>8. CASE Ignore(c, i)
  <2> DEFINE new == [call EXCEPT !.state = "ignored", !.by = Service(c)]
  <2>0. Service(c) \in Services
    BY <1>8 DEF Ignore
  <2>1. /\ new \in Call /\ new.by = Service(c) /\ new.for = call.for
        /\ new.state # "refused"
    BY <1>3, <1>6, <2>0 DEF Call
  <2>2. /\ SetCall(c, i, new)
        /\ UNCHANGED <<link, author, peerPid, pipe, hungUp, owner, zombies,
                      asker, astray>>
    BY <1>8 DEF Ignore, call, vars, kernelVars
  <2> HIDE DEF new
  <2> QED
    BY <1>2, <1>4, <1>5, <2>1, <2>2, ReadingInv DEF call
<1>9. CASE HandleNow(c, i)
  <2> DEFINE new == [call EXCEPT !.state = "waiting", !.by = Service(c)]
  <2>0. Service(c) \in Services
    BY <1>9 DEF HandleNow
  <2>1. /\ new \in Call /\ new.by = Service(c) /\ new.for = call.for
        /\ new.state # "refused"
    BY <1>3, <1>6, <2>0 DEF Call
  <2>2. /\ SetCall(c, i, new)
        /\ UNCHANGED <<link, author, peerPid, pipe, hungUp, owner, zombies,
                      asker, astray>>
    BY <1>9 DEF HandleNow, call, vars, kernelVars
  <2> HIDE DEF new
  <2> QED
    BY <1>2, <1>4, <1>5, <2>1, <2>2, ReadingInv DEF call
<1>10. ASSUME NEW p \in Authenticators, HandleCreate(c, i, p)
       PROVE  ServerTypes' /\ ConnectionInv'
  <2> DEFINE new == [call EXCEPT !.state = "waiting", !.by = Service(c),
                                 !.for = p]
  <2>0. Service(c) \in Services /\ p \in Procs
    BY <1>10 DEF HandleCreate, Procs
  <2>1. /\ new \in Call /\ new.by = Service(c) /\ new.for = p
        /\ new.state # "refused"
    BY <1>3, <1>6, <2>0 DEF Call
  <2>2. /\ SetCall(c, i, new)
        /\ UNCHANGED <<link, author, peerPid, pipe, hungUp, owner, zombies,
                      astray>>
    BY <1>10 DEF HandleCreate, CreateAuthenticator, call, kernelVars
  <2>3. asker' \in [Procs -> Conns \cup {Nobody}]
    BY <1>5, <1>10 DEF HandleCreate
  <2> HIDE DEF new
  <2> QED
    BY <1>2, <1>4, <2>1, <2>2, <2>3, ReadingInv DEF call
<1> QED
  BY <1>1, <1>7, <1>8, <1>9, <1>10, <1>11

\* A waiting call is answered or expires; who took it stays.
LEMMA IdleCallInv ==
  ASSUME ServerInv, NEW c \in Conns, NEW i \in 1 .. MaxCalls, IdleCall(c, i)
  PROVE  ServerTypes' /\ ConnectionInv'
<1> DEFINE call == calls[c][i]
<1>1. PICK s \in {"expired", "answered", "lost"} :
        SetCall(c, i, [call EXCEPT !.state = s])
  BY DEF IdleCall, Answer, Expire
<1>2. i \in DOMAIN calls[c]
  BY DEF IdleCall, Answer, Expire, Outstanding
<1>3. /\ UNCHANGED <<link, author, peerPid, pipe, hungUp, owner, zombies, asker>>
      /\ astray' \subseteq Conns
  BY DEF IdleCall, Answer, Expire, vars, kernelVars, ServerInv, ServerTypes
<1>4. call \in Call
  <2>1. calls[c] \in Seq(Call)
    BY DEF ServerInv, ServerTypes
  <2> QED
    BY <1>2, <2>1, ElementOfSeq, LenProperties
<1>5. /\ call.for \in Authenticators \cup {Nobody}
      /\ c \notin hungUp => TakenAsItself(c, call)
      /\ asker \in [Procs -> Conns \cup {Nobody}]
  BY <1>2 DEF ServerInv, ConnectionInv, CreatesAuthenticators, LiveCalls,
              ServerTypes
<1> HIDE DEF call
<1> DEFINE new == [call EXCEPT !.state = s]
<1>6. /\ new \in Call /\ new.by = call.by /\ new.for = call.for
      /\ new.state # "refused"
  BY <1>1, <1>4 DEF Call, States
<1>7. c \notin hungUp => TakenAsItself(c, new)
  BY <1>5, <1>6 DEF TakenAsItself
<1>8. SetCall(c, i, new)
  BY <1>1
<1> HIDE DEF new
<1> QED
  BY <1>2, <1>3, <1>5, <1>6, <1>7, <1>8, CallChanged

\* The supervisor frees no pid but that of a child that has exited, and gives
\* out none that a child still has.
LEMMA SuperviseInv ==
  ASSUME ServerInv, Supervise
  PROVE  ServerTypes' /\ ConnectionInv'
<1>1. UNCHANGED connVars
  BY DEF Supervise
<1>2. /\ zombies' \subseteq zombies
      /\ \A q \in Pids \ zombies : owner[q] # Nobody => owner'[q] = owner[q]
  <2>1. ASSUME NEW p \in Procs, Spawn(p)
        PROVE  /\ zombies' = zombies
               /\ \A q \in Pids : owner[q] # Nobody => owner'[q] = owner[q]
    <3>1. owner \in [Pids -> Procs \cup {Nobody}]
      BY DEF ServerInv, SupervisorInv, IInv, TypeOK
    <3>2. ASSUME NEW q \in Pids, SpawnOk(p, q)
          PROVE  /\ zombies' = zombies
                 /\ \A r \in Pids : owner[r] # Nobody => owner'[r] = owner[r]
      BY <3>1, <3>2 DEF SpawnOk, FreePids
    <3>3. ASSUME NEW q \in PidValues, SpawnFails(p, q)
          PROVE  UNCHANGED <<zombies, owner>>
      BY <3>3 DEF SpawnFails, kernelVars
    <3> QED
      BY <2>1, <3>2, <3>3 DEF Spawn
  <2>2. ASSUME NEW q \in Pids, Reap(q)
        PROVE  /\ zombies' = zombies \ {q} /\ q \in zombies
               /\ \A r \in Pids : r # q => owner'[r] = owner[r]
    <3>1. owner \in [Pids -> Procs \cup {Nobody}]
      BY DEF ServerInv, SupervisorInv, IInv, TypeOK
    <3> QED
      BY <2>2, <3>1 DEF Reap
  <2> QED
    BY <2>1, <2>2 DEF Supervise
<1>3. ServerTypes'
  <2>1. asker' \in [Procs -> Conns \cup {Nobody}] /\ astray' \subseteq Conns
    BY DEF Supervise, NotifyAsker, ServerInv, ServerTypes
  <2> QED
    BY <1>1, <2>1 DEF connVars, ServerInv, ServerTypes
<1>4. LiveLinks'
  <2> SUFFICES ASSUME NEW d \in Conns, link'[d] \in {"backlog", "open"},
                      d \notin hungUp'
               PROVE  /\ author'[d] \in Procs
                      /\ peerPid'[d] \in Pids \ zombies'
                      /\ owner'[peerPid'[d]] = author'[d]
    BY DEF LiveLinks
  <2>1. /\ author[d] \in Procs /\ peerPid[d] \in Pids \ zombies
        /\ owner[peerPid[d]] = author[d]
    BY <1>1 DEF connVars, ServerInv, ConnectionInv, LiveLinks
  <2>2. UNCHANGED <<author, peerPid>>
    BY <1>1 DEF connVars
  <2> QED
    BY <1>2, <2>1, <2>2, SupervisorAssumption
<1>5. LiveCalls' /\ CreatesAuthenticators'
  BY <1>1, CallsKept DEF connVars
<1> QED
  BY <1>3, <1>4, <1>5 DEF ConnectionInv

\* Nothing happens but that the manager may have ended.
LEMMA AbortInv ==
  ASSUME ServerInv,
         UNCHANGED <<link, author, peerPid, pipe, hungUp, calls, asker, astray,
                     owner, zombies>>
  PROVE  ServerTypes' /\ ConnectionInv'
<1>1. ServerTypes'
  BY DEF ServerInv, ServerTypes
<1>2. LiveLinks'
  BY LinksKept
<1>3. LiveCalls' /\ CreatesAuthenticators'
  BY CallsKept
<1> QED
  BY <1>1, <1>2, <1>3 DEF ConnectionInv

-----------------------------------------------------------------------------
(* The supervisor within the server.                                        *)

\* A step of the supervisor.
LEMMA SupervisorStep ==
  ASSUME SupervisorInv, [Next]_vars
  PROVE  SupervisorInv'
BY NextPreserves, NextTells DEF SupervisorInv

\* A write to a peer that has exited may end the manager; no more is changed.
LEMMA AbortStep ==
  ASSUME SupervisorInv, managerUp, managerUp' \in BOOLEAN,
         UNCHANGED <<procVars, pidMap, kernelVars, told>>
  PROVE  SupervisorInv'
<1>1. IInv'
  BY DEF SupervisorInv, procVars, kernelVars, IInv, TypeOK, ChildIsRegistered,
         FreePidIsUnregistered, Lifeline, ZombiesAreChildren, LivesAreCounted,
         InProgress, FreePids
<1>2. CreatorsHear'
  BY HearsTheSame DEF SupervisorInv, CreatorsHear, procVars
<1> QED
  BY <1>1, <1>2 DEF SupervisorInv

\* A step of the server is one of the supervisor, or such an end.
LEMMA ServerStepIs ==
  ASSUME [ServerNext]_allVars
  PROVE  \/ [Next]_vars
         \/ /\ managerUp /\ managerUp' \in BOOLEAN
            /\ UNCHANGED <<procVars, pidMap, kernelVars, told>>
<1>1. ASSUME NEW p \in Procs, NEW c \in Conns, Connect(p, c) PROVE UNCHANGED vars
  BY <1>1 DEF Connect
<1>2. ASSUME NEW c \in Conns, NEW k \in Kinds, SendCall(c, k)
      PROVE  UNCHANGED vars
  BY <1>2 DEF SendCall
<1>3. ASSUME NEW q \in Pids, PeerExits(q) PROVE Next
  BY <1>3 DEF PeerExits, Next
<1>4. ASSUME NEW c \in Conns, Accept(c) \/ End(c) \/ ReadError(c)
      PROVE  UNCHANGED vars
  BY <1>4 DEF Accept, End, ReadError
<1>5. ASSUME NEW c \in Conns, HandleCall(c) PROVE Next \/ UNCHANGED vars
  BY <1>5 DEF HandleCall, Refuse, Drop, Ignore, HandleNow, HandleCreate, Next
<1>6. ASSUME NEW c \in Conns, NEW i \in 1 .. MaxCalls, IdleCall(c, i)
      PROVE  \/ UNCHANGED vars
             \/ /\ managerUp /\ managerUp' \in BOOLEAN
                /\ UNCHANGED <<procVars, pidMap, kernelVars, told>>
  BY <1>6 DEF IdleCall, Answer, Expire, vars
<1>7. ASSUME Supervise PROVE Next
  BY <1>7 DEF Supervise, Next
<1>8. ASSUME NEW p \in Authenticators, NoticeAborts(p)
      PROVE  /\ managerUp /\ managerUp' \in BOOLEAN
             /\ UNCHANGED <<procVars, pidMap, kernelVars, told>>
  BY <1>8 DEF NoticeAborts
<1>9. ASSUME ServerAborted \/ Deserted \/ UNCHANGED allVars
      PROVE  UNCHANGED vars
  BY <1>9 DEF ServerAborted, Aborted, Deserted, allVars
<1> QED
  BY <1>1, <1>2, <1>3, <1>4, <1>5, <1>6, <1>7, <1>8, <1>9, Zenon DEF ServerNext

\* The invariant is inductive.
LEMMA NextServerInv == ServerInv /\ [ServerNext]_allVars => ServerInv'
<1> SUFFICES ASSUME ServerInv, [ServerNext]_allVars PROVE ServerInv'
  OBVIOUS
<1>1. SupervisorInv'
  BY ServerStepIs, SupervisorStep, AbortStep DEF ServerInv
<1>2. ServerTypes' /\ ConnectionInv'
  <2>1. CASE \E p \in Procs, c \in Conns : Connect(p, c)
    BY <2>1, ConnectInv
  <2>2. CASE \E c \in Conns, k \in Kinds : SendCall(c, k)
    BY <2>2, SendCallInv
  <2>3. CASE \E q \in Pids : PeerExits(q)
    BY <2>3, PeerExitsInv
  <2>4. CASE \E c \in Conns : Accept(c) \/ HandleCall(c) \/ End(c) \/ ReadError(c)
    BY <2>4, LinkStepInv, HandleCallInv
  <2>5. CASE \E c \in Conns, i \in 1 .. MaxCalls : IdleCall(c, i)
    BY <2>5, IdleCallInv
  <2>6. CASE Supervise
    BY <2>6, SuperviseInv
  <2>7. CASE \/ \E p \in Authenticators : NoticeAborts(p)
             \/ ServerAborted \/ Deserted \/ UNCHANGED allVars
    BY <2>7, AbortInv DEF NoticeAborts, ServerAborted, Aborted, Deserted,
                          allVars, vars, kernelVars, serverVars, connVars
  <2> QED
    BY <2>1, <2>2, <2>3, <2>4, <2>5, <2>6, <2>7, Zenon DEF ServerNext
<1> QED
  BY <1>1, <1>2 DEF ServerInv

\* ... so it holds in every reachable state of the server.
LEMMA ServerInvariance == ServerSpec => []ServerInv
BY InitServerInv, NextServerInv, PTL DEF ServerSpec

-----------------------------------------------------------------------------
\* Every variable of the manager keeps its type, the supervisor's included.
THEOREM ServerTypeCorrect == ServerSpec => []ServerTypeOK
<1>1. ServerInv => ServerTypeOK
  BY DEF ServerInv, SupervisorInv, IInv, ServerTypes, ServerTypeOK
<1> QED
  BY <1>1, ServerInvariance, PTL

\* A child that is alive is never refused (lib/ipc/ipc.cpp handleCall): at the
\* moment its packet is read its pid is in pid_map, whatever other children
\* were spawned, lost or given its predecessors' pids meanwhile.
THEOREM LiveCallsAreNotRefused == ServerSpec => []LiveCallNotRefused
<1>1. ServerInv => LiveCallNotRefused
  <2> SUFFICES ASSUME ServerInv, NEW c \in Conns, Outstanding(c, "refused") # {}
               PROVE  c \in hungUp
    BY DEF LiveCallNotRefused
  <2>1. PICK i \in DOMAIN calls[c] : calls[c][i].state = "refused"
    BY DEF Outstanding
  <2> QED
    BY <2>1 DEF ServerInv, ConnectionInv, LiveCalls, TakenAsItself
<1> QED
  BY <1>1, ServerInvariance, PTL

\* ... nor taken for a child of another service: routing by pid goes wrong
\* only for what a child that has exited left unread.
THEOREM LiveCallsAreServedAsThemselves == ServerSpec => []ServedAsItself
<1>1. ServerInv => ServedAsItself
  BY DEF ServerInv, ConnectionInv, LiveCalls, TakenAsItself, ServedAsItself
<1> QED
  BY <1>1, ServerInvariance, PTL

\* The registry is exact in the manager too, where children are also lost
\* and authenticators created by what the server reads and writes.
THEOREM ServerRegistryIsExact == ServerSpec => []RegistryIsExact
<1>1. ServerInv => RegistryIsExact
  BY DEF ServerInv, SupervisorInv, IInv, RegistryIsExact
<1> QED
  BY <1>1, ServerInvariance, PTL

\* A future that is ready was completed by the first, and only, spawn.
LEMMA ReadyIsSpawned ==
  ASSUME SupervisorInv, NEW p \in Authenticators, Heard(p, "created") > 0
  PROVE  attempts[p] = 1
<1>1. /\ attempts[p] \in Nat /\ attempts[p] <= 1
  BY SupervisorAssumption
     DEF SupervisorInv, IInv, TypeOK, LivesAreCounted, Lives, Procs
<1>2. attempts[p] # 0
  <2>1. attempts[p] = 0 => told[p] = <<>>
    BY DEF SupervisorInv, CreatorsHear, Hears
  <2>2. told[p] = <<>> => Heard(p, "created") = 0
    BY HeardIs
  <2> QED
    BY <2>1, <2>2
<1> QED
  BY <1>1, <1>2

\* Only an answer makes a waiting call an answered one.
LEMMA OnlyAnswersAnswer ==
  ASSUME ServerInv, [ServerNext]_allVars, NEW c \in Conns,
         NEW i \in Outstanding(c, "waiting"), calls'[c][i].state = "answered"
  PROVE  Ready(calls[c][i])
<1>1. /\ i \in DOMAIN calls[c] /\ calls[c][i].state = "waiting"
      /\ calls \in [Conns -> Seq(Call)]
  BY DEF Outstanding, ServerInv, ServerTypes
<1>2. ASSUME NEW d \in Conns, NEW j \in DOMAIN calls[d], NEW call,
             SetCall(d, j, call)
      PROVE  calls'[c][i].state = call.state /\ d = c /\ j = i
  <2>1. calls'[c][i] = IF d = c /\ j = i THEN call ELSE calls[c][i]
    <3>1. calls[c] \in [1 .. Len(calls[c]) -> Call]
      BY <1>1, LenProperties
    <3> QED
      BY <1>1, <1>2, <3>1 DEF SetCall
  <2> QED
    BY <1>1, <2>1
<1>3. CASE \E d \in Conns : HandleCall(d)
  <2>1. PICK d \in Conns, j \in 1 .. MaxCalls :
          \/ Refuse(d, j) \/ Drop(d, j) \/ Ignore(d, j) \/ HandleNow(d, j)
          \/ \E p \in Authenticators : HandleCreate(d, j, p)
    BY <1>3 DEF HandleCall
  <2>2. j \in DOMAIN calls[d] /\ calls[d][j].state = "sent"
    BY <2>1 DEF Refuse, Drop, Ignore, HandleNow, HandleCreate, Reading,
                Outstanding
  <2>3. PICK call : SetCall(d, j, call)
    BY <2>1 DEF Refuse, Drop, Ignore, HandleNow, HandleCreate
  <2> QED
    BY <1>1, <1>2, <2>2, <2>3
<1>4. CASE \E d \in Conns, j \in 1 .. MaxCalls : IdleCall(d, j)
  <2>1. PICK d \in Conns, j \in 1 .. MaxCalls : IdleCall(d, j)
    BY <1>4
  <2>2. j \in DOMAIN calls[d]
    BY <2>1 DEF IdleCall, Answer, Expire, Outstanding
  <2>3. CASE Expire(d, j)
    <3> DEFINE new == [calls[d][j] EXCEPT !.state = "expired"]
    <3>1. SetCall(d, j, new) /\ calls[d][j] \in Call
      BY <1>1, <2>2, <2>3, ElementOfSeq, LenProperties DEF Expire
    <3>2. new.state = "expired"
      BY <3>1 DEF Call
    <3> HIDE DEF new
    <3> QED
      BY <1>2, <2>2, <3>1, <3>2
  <2>4. CASE Answer(d, j)
    <3>1. PICK call : SetCall(d, j, call)
      BY <2>4 DEF Answer
    <3>2. d = c /\ j = i
      BY <1>2, <2>2, <3>1
    <3> QED
      BY <2>4, <3>2 DEF Answer
  <2> QED
    BY <2>1, <2>3, <2>4 DEF IdleCall
<1>5. CASE \E d \in Conns, k \in Kinds : SendCall(d, k)
  <2>1. PICK d \in Conns, k \in Kinds : SendCall(d, k)
    BY <1>5
  <2>2. calls[c] \in Seq(Call) /\ i \in 1 .. Len(calls[c])
    BY <1>1, LenProperties
  <2>3. calls'[c] \in {calls[c], Append(calls[c], NewCall(k))}
    BY <1>1, <2>1 DEF SendCall
  <2>4. NewCall(k) \in Call
    BY DEF NewCall, Call, States
  <2>5. calls'[c][i] = calls[c][i]
    BY <2>2, <2>3, <2>4, AppendProperties
  <2> QED
    BY <1>1, <2>5
<1>6. CASE \E p \in Procs, d \in Conns : Connect(p, d)
  <2>1. PICK p \in Procs, d \in Conns : Connect(p, d)
    BY <1>6
  <2>2. ~Referenced(d) /\ calls' = [calls EXCEPT ![d] = <<>>]
    BY <2>1 DEF Connect
  <2>3. d # c
    BY <2>2 DEF Referenced
  <2>4. calls'[c] = calls[c]
    BY <1>1, <2>2, <2>3
  <2> QED
    BY <1>1, <2>4
<1>7. CASE UNCHANGED calls
  BY <1>1, <1>7
<1>8. \/ \E p \in Procs, d \in Conns : Connect(p, d)
      \/ \E d \in Conns, k \in Kinds : SendCall(d, k)
      \/ \E d \in Conns : HandleCall(d)
      \/ \E d \in Conns, j \in 1 .. MaxCalls : IdleCall(d, j)
      \/ UNCHANGED calls
  BY DEF ServerNext, PeerExits, Accept, End, ReadError, Supervise,
         NoticeAborts, ServerAborted, Deserted, allVars, serverVars, connVars
<1> QED
  BY <1>3, <1>4, <1>5, <1>6, <1>7, <1>8

\* The reply to a creation never precedes the spawn (CallReplyCallback looks at
\* a future that only the first spawn's callback completes).
THEOREM RepliesFollowTheSpawn == ServerSpec => AnsweredAfterSpawn
<1>1. ASSUME ServerInv, [ServerNext]_allVars, NEW c \in Conns,
             NEW i \in Outstanding(c, "waiting"),
             calls'[c][i].state = "answered", calls[c][i].for # Nobody
      PROVE  attempts[calls[c][i].for] = 1
  <2>1. calls[c][i].for \in Authenticators
    BY <1>1 DEF Outstanding, ServerInv, ConnectionInv, CreatesAuthenticators
  <2>2. Heard(calls[c][i].for, "created") > 0
    BY <1>1, OnlyAnswersAnswer DEF Ready
  <2> QED
    BY <1>1, <2>1, <2>2, ReadyIsSpawned DEF ServerInv
<1> DEFINE A == \A c \in Conns : \A i \in Outstanding(c, "waiting") :
                  LET p == calls[c][i].for IN
                    /\ calls'[c][i].state = "answered"
                    /\ p # Nobody
                    => attempts[p] = 1
<1>2. ServerInv /\ [ServerNext]_allVars => [A]_allVars
  BY <1>1
<1> QED
  BY <1>2, ServerInvariance, PTL DEF ServerSpec, AnsweredAfterSpawn

-----------------------------------------------------------------------------
(* What is written through a reference to a pipe.                           *)

\* A pipe that something refers to stays open while its peer lives: nothing
\* but the peer's end closes it, so its address is not given away under a
\* reply.  Therefore only the dead miss one; and the supervisor knows its dead.
HeldPipesAreOpen ==
  \A c \in Conns : c \notin hungUp /\ Referenced(c) => link[c] = "open"
Missed(c) == c \in astray \/ Outstanding(c, "lost") # {}
OnlyTheDeadMiss == \A c \in Conns : Missed(c) => c \in hungUp
TheDeadAreKnown == \A c \in hungUp : author[c] \in Daemons => Died(author[c])
MailInv == HeldPipesAreOpen /\ OnlyTheDeadMiss /\ TheDeadAreKnown

\* A daemon that has died stays one that has, though its Proc is run again.
LEMMA DeathsAreForGood ==
  ASSUME IInv, [Next]_vars \/ UNCHANGED <<procVars, kernelVars>>,
         NEW p \in Daemons, Died(p)
  PROVE  Died(p)'
<1> USE SupervisorAssumption DEF Died, IInv
<1>0. p \in Procs /\ p \notin Authenticators /\ failures[p] \in Nat
        /\ failures \in [Procs -> 0 .. MaxFailures]
  BY DEF Procs, TypeOK
<1>1. ASSUME NEW a \in Authenticators, CreateAuthenticator(a) PROVE Died(p)'
  BY <1>0, <1>1 DEF CreateAuthenticator, TypeOK, kernelVars
<1>2. ASSUME NEW r \in Procs, RunsAgain(r), Rerun(r) PROVE p = r => failures'[p] > 0
  BY <1>0, <1>2 DEF Rerun
<1>3. ASSUME NEW r \in Procs, Remove(r) PROVE p = r => p \notin processes'
  BY <1>3 DEF Remove
<1>4. ASSUME NEW r \in Procs, Rerun(r) \/ Remove(r), r # p
      PROVE  /\ handle'[p] = handle[p] /\ failures'[p] = failures[p]
             /\ p \notin processes => p \notin processes'
  BY <1>0, <1>4 DEF Rerun, Remove, TypeOK
<1>5. ASSUME NEW r \in Procs, NEW q \in Pids, SpawnOk(r, q) PROVE Died(p)'
  <2>1. UNCHANGED <<processes, failures, zombies>>
    BY <1>5 DEF SpawnOk
  <2>2. CASE r = p
    <3>1. handle[p] = Unspawned /\ Unspawned \notin Pids
      BY <1>0, <1>5, <2>2 DEF SpawnOk, Lifeline, Unspawned
    <3> QED
      BY <2>1, <3>1 DEF TypeOK
  <2>3. CASE r # p
    BY <1>0, <1>5, <2>1, <2>3 DEF SpawnOk, TypeOK
  <2> QED
    BY <2>2, <2>3
<1>6. ASSUME NEW r \in Procs, NEW q \in PidValues, SpawnFails(r, q)
      PROVE  Died(p)'
  <2>1. (Rerun(r) \/ Remove(r)) /\ zombies' = zombies
    BY <1>6 DEF SpawnFails, kernelVars
  <2> QED
    BY <1>2, <1>3, <1>4, <2>1, Zenon DEF Rerun
<1>7. ASSUME NEW q \in Pids, ChildExits(q) PROVE Died(p)'
  BY <1>7 DEF ChildExits, procVars
<1>8. ASSUME NEW q \in Pids, Reap(q) PROVE Died(p)'
  <2>1. /\ q \in zombies /\ zombies' = zombies \ {q} /\ owner[q] \in Procs
        /\ Rerun(owner[q]) \/ Remove(owner[q])
    BY <1>8 DEF Reap, ZombiesAreChildren, TypeOK
  <2>2. CASE owner[q] = p
    BY <1>2, <1>3, <2>1, <2>2, Zenon DEF Rerun
  <2>3. CASE owner[q] # p
    <3>1. handle[p] \in zombies => owner[handle[p]] = p
      <4>1. zombies \subseteq Pids /\ NoHandle \notin Pids /\ Unspawned \notin Pids
        BY SupervisorAssumption DEF TypeOK, NoHandle, Unspawned
      <4>2. handle[p] \in Pids => p \in processes \ idle
        BY <1>0, <4>1 DEF Lifeline
      <4> QED
        BY <4>1, <4>2 DEF Lifeline
    <3>2. handle[p] \in zombies => handle[p] \in zombies'
      BY <2>1, <2>3, <3>1
    <3> QED
      BY <1>4, <2>1, <2>3, <3>2
  <2> QED
    BY <2>2, <2>3
<1>9. CASE UNCHANGED <<procVars, kernelVars>>
  BY <1>9 DEF procVars, kernelVars
<1>10. CASE Aborted \/ UNCHANGED vars
  BY <1>9, <1>10 DEF Aborted, vars
<1> QED
  BY <1>1, <1>5, <1>6, <1>7, <1>8, <1>9, <1>10 DEF Next, Spawn

\* A call changes: it alone may come to stand where it did not.
LEMMA OutstandingIs ==
  ASSUME ServerTypes, NEW c \in Conns, NEW i \in DOMAIN calls[c], NEW call,
         SetCall(c, i, call), NEW state, NEW d \in Conns
  PROVE  Outstanding(d, state)' \subseteq Outstanding(d, state)
         \/ (d = c /\ call.state = state)
<1>1. calls[c] \in [1 .. Len(calls[c]) -> Call] /\ i \in 1 .. Len(calls[c])
  BY LenProperties DEF ServerTypes
<1>2. calls \in [Conns -> Seq(Call)]
  BY DEF ServerTypes
<1>3. CASE d # c
  BY <1>2, <1>3 DEF SetCall, Outstanding
<1>4. CASE d = c /\ call.state # state
  <2>1. /\ DOMAIN calls'[c] = DOMAIN calls[c]
        /\ \A j \in DOMAIN calls[c] :
             calls'[c][j] = IF j = i THEN call ELSE calls[c][j]
    BY <1>1, <1>2 DEF SetCall
  <2> QED
    BY <1>4, <2>1 DEF Outstanding
<1> QED
  BY <1>3, <1>4

\* The steps that make no connection: what each of them must not do.
LEMMA MailKept ==
  ASSUME ServerInv, MailInv, [ServerNext]_allVars,
         UNCHANGED author, hungUp \subseteq hungUp', hungUp' \subseteq Conns,
         \A c \in Conns : c \notin hungUp' /\ Referenced(c)'
                            => Referenced(c) \/ link[c] = "open",
         \A c \in Conns : c \notin hungUp' /\ link[c] = "open"
                            => link'[c] = "open",
         \A c \in Conns : Missed(c)' => Missed(c) \/ c \in hungUp',
         \A c \in hungUp' \ hungUp :
           author[c] \in Daemons => Died(author[c])'
  PROVE  MailInv'
<1>1. HeldPipesAreOpen'
  BY Zenon DEF MailInv, HeldPipesAreOpen
<1>2. OnlyTheDeadMiss'
  BY Zenon DEF MailInv, OnlyTheDeadMiss
<1>3. TheDeadAreKnown'
  <2> SUFFICES ASSUME NEW c \in hungUp', author[c] \in Daemons
               PROVE  Died(author[c])'
    BY DEF TheDeadAreKnown
  <2>1. CASE c \in hungUp
    <3>1. Died(author[c])
      BY <2>1 DEF MailInv, TheDeadAreKnown
    <3>2. [Next]_vars \/ UNCHANGED <<procVars, kernelVars>>
      BY ServerStepIs
    <3> QED
      BY <3>1, <3>2, DeathsAreForGood DEF ServerInv, SupervisorInv
  <2> QED
    BY <2>1
<1> QED
  BY <1>1, <1>2, <1>3 DEF MailInv

\* A new connection is referred to by nothing, and has missed nothing.
LEMMA ConnectMail ==
  ASSUME ServerInv, MailInv, NEW p \in Procs, NEW c \in Conns, Connect(p, c)
  PROVE  MailInv'
<1>1. /\ UNCHANGED <<vars, asker>> /\ ~Referenced(c)
      /\ calls' = [calls EXCEPT ![c] = <<>>] /\ astray' = astray \ {c}
      /\ hungUp' = hungUp \ {c}
      /\ link' = [link EXCEPT ![c] = "backlog"]
      /\ author' = [author EXCEPT ![c] = p]
      /\ UNCHANGED processes
  BY DEF Connect, vars, procVars
<1>2. \A s : Outstanding(c, s)' = {}
  BY <1>1 DEF Outstanding, ServerInv, ServerTypes
<1>3. \A d \in Conns : \A s : d # c => Outstanding(d, s)' = Outstanding(d, s)
  BY <1>1 DEF Outstanding, ServerInv, ServerTypes
<1>4. HeldPipesAreOpen'
  <2> SUFFICES ASSUME NEW d \in Conns, d \notin hungUp', Referenced(d)'
               PROVE  link'[d] = "open"
    BY DEF HeldPipesAreOpen
  <2>1. d # c /\ Referenced(d) /\ d \notin hungUp
    BY <1>1, <1>2, <1>3 DEF Referenced
  <2> QED
    BY <1>1, <2>1 DEF MailInv, HeldPipesAreOpen, ServerInv, ServerTypes
<1>5. OnlyTheDeadMiss'
  BY <1>1, <1>2, <1>3 DEF MailInv, OnlyTheDeadMiss, Missed
<1>6. TheDeadAreKnown'
  BY <1>1 DEF MailInv, TheDeadAreKnown, Died, vars, procVars, kernelVars,
              ServerInv, ServerTypes
<1> QED
  BY <1>4, <1>5, <1>6 DEF MailInv

\* A child that exits leaves its daemon, if it is one's, as one that has died.
LEMMA PeerExitsMail ==
  ASSUME ServerInv, MailInv, NEW q \in Pids, PeerExits(q)
  PROVE  MailInv'
<1>1. /\ UNCHANGED <<link, author, calls, asker, astray, processes>>
      /\ hungUp \subseteq hungUp' /\ hungUp' \subseteq Conns
  BY DEF PeerExits, ChildExits, procVars, ServerInv, ServerTypes
<1>2. ASSUME NEW c \in hungUp' \ hungUp, author[c] \in Daemons
      PROVE  Died(author[c])'
  <2>1. /\ author[c] = owner[q] /\ q \notin FreePids /\ q \in zombies'
        /\ UNCHANGED handle
    BY <1>2 DEF PeerExits, ChildExits, procVars
  <2>2. handle[author[c]] = q
    BY <2>1 DEF FreePids, ServerInv, SupervisorInv, IInv, Lifeline
  <2>3. handle'[author'[c]] \in zombies'
    BY <1>1, <2>1, <2>2
  <2> QED
    BY <2>3 DEF Died
<1>3. [ServerNext]_allVars
  BY DEF ServerNext
<1>4. \A c \in Conns : /\ Referenced(c)' => Referenced(c)
                       /\ Missed(c)' => Missed(c)
  BY <1>1 DEF Referenced, Missed, Outstanding
<1> QED
  BY <1>1, <1>2, <1>3, <1>4, MailKept

\* The steps of a connection's link, and what is sent on it.
LEMMA LinkStepMail ==
  ASSUME ServerInv, MailInv, NEW c \in Conns,
         Accept(c) \/ End(c) \/ ReadError(c)
  PROVE  MailInv'
<1>1. /\ UNCHANGED <<author, hungUp, calls, asker, astray, processes>>
      /\ link' \in [Conns -> {"none", "backlog", "open", "closed", "failed"}]
      /\ \A d \in Conns : d \notin hungUp /\ link[d] = "open"
                            => link'[d] = "open"
  BY DEF Accept, End, ReadError, vars, procVars, ServerInv, ServerTypes
<1>2. [ServerNext]_allVars
  BY DEF ServerNext
<1>3. \A d \in Conns : /\ Referenced(d)' => Referenced(d)
                       /\ Missed(d)' => Missed(d)
  BY <1>1 DEF Referenced, Missed, Outstanding
<1>4. hungUp' \subseteq Conns
  BY <1>1 DEF ServerInv, ServerTypes
<1> QED
  BY <1>1, <1>2, <1>3, <1>4, MailKept

\* A call that is sent waits for nothing yet.
LEMMA SendCallMail ==
  ASSUME ServerInv, MailInv, NEW c \in Conns, NEW k \in Kinds, SendCall(c, k)
  PROVE  MailInv'
<1>1. /\ UNCHANGED <<link, author, hungUp, asker, astray, processes>>
      /\ calls' = [calls EXCEPT ![c] = Append(@, NewCall(k))]
      /\ calls \in [Conns -> Seq(Call)] /\ hungUp' \subseteq Conns
  BY DEF SendCall, vars, procVars, ServerInv, ServerTypes
<1>2. NewCall(k) \in Call /\ NewCall(k).state = "sent"
  BY DEF NewCall, Call, States
<1>3. \A d \in Conns, s \in {"waiting", "lost"} :
        Outstanding(d, s)' \subseteq Outstanding(d, s)
  <2> SUFFICES ASSUME NEW d \in Conns, NEW s \in {"waiting", "lost"},
                      NEW j \in DOMAIN calls'[d], calls'[d][j].state = s
               PROVE  j \in DOMAIN calls[d] /\ calls[d][j].state = s
    BY DEF Outstanding
  <2>1. CASE d # c
    BY <1>1, <2>1
  <2>2. CASE d = c
    <3>1. \/ j \in DOMAIN calls[c] /\ calls'[c][j] = calls[c][j]
          \/ calls'[c][j] = NewCall(k)
      BY <1>1, <1>2, <2>2, AppendProperties
    <3> QED
      BY <1>2, <2>2, <3>1
  <2> QED
    BY <2>1, <2>2
<1>4. \A d \in Conns : /\ Referenced(d)' => Referenced(d)
                       /\ Missed(d)' => Missed(d)
  BY <1>1, <1>3 DEF Referenced, Missed
<1>5. [ServerNext]_allVars
  BY DEF ServerNext
<1> QED
  BY <1>1, <1>4, <1>5, MailKept

\* A packet that is read: its connection is open, and may now be referred to.
LEMMA HandleCallMail ==
  ASSUME ServerInv, MailInv, NEW c \in Conns, HandleCall(c)
  PROVE  MailInv'
<1>1. PICK i \in 1 .. MaxCalls :
        \/ Refuse(c, i) \/ Drop(c, i) \/ Ignore(c, i) \/ HandleNow(c, i)
        \/ \E p \in Authenticators : HandleCreate(c, i, p)
  BY DEF HandleCall
<1>2. link[c] = "open" /\ i \in DOMAIN calls[c]
  BY <1>1 DEF Refuse, Drop, Ignore, HandleNow, HandleCreate, Reading, Outstanding
<1>3. /\ UNCHANGED <<link, author, hungUp, astray>> /\ hungUp' \subseteq Conns
  BY <1>1 DEF Refuse, Drop, Ignore, HandleNow, HandleCreate, ServerInv,
              ServerTypes
<1>4. PICK call : SetCall(c, i, call) /\ call.state # "lost"
  <2>1. calls[c][i] \in Call
    BY <1>2, ElementOfSeq, LenProperties DEF ServerInv, ServerTypes
  <2>2. \A s \in States : \A b : /\ [calls[c][i] EXCEPT !.state = s].state = s
                                 /\ [calls[c][i] EXCEPT !.state = s, !.by = b].state = s
    BY <2>1 DEF Call
  <2>3. \A p, b : [calls[c][i] EXCEPT !.state = "waiting", !.by = b,
                                      !.for = p].state = "waiting"
    BY <2>1 DEF Call
  <2> QED
    BY <1>1, <2>2, <2>3 DEF Refuse, Drop, Ignore, HandleNow, HandleCreate, States
<1>5. \A d \in Conns, s \in {"waiting", "lost"} :
        \/ Outstanding(d, s)' \subseteq Outstanding(d, s)
        \/ d = c /\ s = "waiting"
  BY <1>2, <1>4, OutstandingIs DEF ServerInv
<1>6. \A d \in Conns : (\E p \in processes' : asker'[p] = d) =>
        d = c \/ \E p \in processes : asker[p] = d
  <2>1. CASE \E p \in Authenticators : HandleCreate(c, i, p)
    <3>1. PICK p \in Authenticators : HandleCreate(c, i, p)
      BY <2>1
    <3>2. /\ processes' = processes \cup {p}
          /\ asker' = [asker EXCEPT ![p] = c] /\ p \in Procs
      BY <3>1 DEF HandleCreate, CreateAuthenticator, Procs
    <3>3. processes \subseteq Procs /\ asker \in [Procs -> Conns \cup {Nobody}]
      BY DEF ServerInv, ServerTypes, SupervisorInv, IInv, TypeOK
    <3> QED
      BY <3>2, <3>3
  <2>2. CASE Refuse(c, i) \/ Drop(c, i) \/ Ignore(c, i) \/ HandleNow(c, i)
    BY <2>2 DEF Refuse, Drop, Ignore, HandleNow, vars, procVars
  <2> QED
    BY <1>1, <2>1, <2>2
<1>7. \A d \in Conns : /\ Referenced(d)' => Referenced(d) \/ d = c
                       /\ Missed(d)' => Missed(d)
  BY <1>3, <1>5, <1>6 DEF Referenced, Missed
<1>8. [ServerNext]_allVars
  BY DEF ServerNext
<1> QED
  BY <1>2, <1>3, <1>7, <1>8, MailKept

\* A reply that is written is missed only when the pipe it was asked through
\* has closed or its peer is gone; and it was asked through a pipe that stays
\* open while the peer lives.
LEMMA IdleCallMail ==
  ASSUME ServerInv, MailInv, NEW c \in Conns, NEW i \in 1 .. MaxCalls,
         IdleCall(c, i)
  PROVE  MailInv'
<1>1. /\ UNCHANGED <<link, author, hungUp, asker, processes>>
      /\ hungUp' \subseteq Conns /\ i \in Outstanding(c, "waiting")
  BY DEF IdleCall, Answer, Expire, vars, procVars, ServerInv, ServerTypes
<1>2. c \notin hungUp => c \in Reaches(c)
  BY <1>1 DEF MailInv, HeldPipesAreOpen, Referenced, Reaches
<1>3. i \in DOMAIN calls[c] /\ calls[c][i] \in Call
  <2>1. i \in DOMAIN calls[c]
    BY <1>1 DEF Outstanding
  <2> QED
    BY <2>1, ElementOfSeq, LenProperties DEF ServerInv, ServerTypes
<1>4. PICK call : /\ SetCall(c, i, call) /\ call.state # "waiting"
                  /\ c \notin hungUp => call.state # "lost"
  <2>1. \A s \in States : [calls[c][i] EXCEPT !.state = s].state = s
    BY <1>3 DEF Call
  <2>2. {"expired", "answered", "lost"} \subseteq States
    BY DEF States
  <2>3. CASE Expire(c, i)
    BY <2>1, <2>2, <2>3 DEF Expire
  <2>4. CASE Answer(c, i)
    <3>1. CASE c \in Reaches(c)
      BY <2>1, <2>2, <2>4, <3>1 DEF Answer
    <3>2. CASE c \notin Reaches(c)
      BY <1>2, <2>1, <2>2, <2>4, <3>2 DEF Answer
    <3> QED
      BY <3>1, <3>2
  <2> QED
    BY <2>3, <2>4 DEF IdleCall
<1>5. \A d \in Conns, s \in {"waiting", "lost"} :
        \/ Outstanding(d, s)' \subseteq Outstanding(d, s)
        \/ d = c /\ s = "lost" /\ c \in hungUp
  BY <1>3, <1>4, OutstandingIs DEF ServerInv
<1>6. \A d \in Conns : d \in astray' => d \in astray \/ d \in hungUp
  BY <1>2 DEF IdleCall, Answer, Expire, GoesAstray
<1>7. \A d \in Conns : /\ Referenced(d)' => Referenced(d)
                       /\ Missed(d)' => Missed(d) \/ d \in hungUp'
  BY <1>1, <1>5, <1>6 DEF Referenced, Missed
<1>8. [ServerNext]_allVars
  BY DEF ServerNext
<1> QED
  BY <1>1, <1>7, <1>8, MailKept

\* So it is with the notice of an authenticator that is removed.
LEMMA SuperviseMail ==
  ASSUME ServerInv, MailInv, Supervise
  PROVE  MailInv'
<1>1. UNCHANGED <<link, author, hungUp, calls>> /\ hungUp' \subseteq Conns
  BY DEF Supervise, connVars, ServerInv, ServerTypes
<1>2. processes' \subseteq processes
  <2>1. ASSUME NEW p \in Procs, Rerun(p) \/ Remove(p)
        PROVE  processes' \subseteq processes
    BY <2>1 DEF Rerun, Remove
  <2>2. ASSUME NEW p \in Procs, Spawn(p) PROVE processes' \subseteq processes
    BY <2>1, <2>2 DEF Spawn, SpawnOk, SpawnFails
  <2>3. ASSUME NEW q \in Pids, Reap(q) PROVE processes' \subseteq processes
    BY <2>3 DEF Reap, Rerun, Remove
  <2> QED
    BY <2>2, <2>3 DEF Supervise
<1>3. processes \subseteq Procs /\ asker \in [Procs -> Conns \cup {Nobody}]
  BY DEF ServerInv, ServerTypes, SupervisorInv, IInv, TypeOK
<1>4. \A c \in Conns : Referenced(c)' => Referenced(c)
  BY <1>1, <1>2, <1>3, SupervisorAssumption
     DEF Referenced, Outstanding, Supervise, NotifyAsker
<1>5. ASSUME NEW c \in astray', c \notin astray PROVE c \in hungUp
  <2>1. /\ c \in Conns /\ GoesAstray(c)
        /\ \E p \in processes \ processes' : asker[p] = c
    BY <1>5 DEF Supervise, NotifyAsker
  <2>2. Referenced(c)
    BY <2>1 DEF Referenced
  <2> QED
    BY <2>1, <2>2 DEF GoesAstray, Reaches, MailInv, HeldPipesAreOpen
<1>6. \A c \in Conns : Missed(c)' => Missed(c) \/ c \in hungUp'
  BY <1>1, <1>5 DEF Missed, Outstanding
<1>7. [ServerNext]_allVars
  BY DEF ServerNext
<1> QED
  BY <1>1, <1>4, <1>6, <1>7, MailKept

\* No step gives a living peer's pipe away under what is owed to it.
LEMMA NextMailInv == ServerInv /\ MailInv /\ [ServerNext]_allVars => MailInv'
<1> SUFFICES ASSUME ServerInv, MailInv, [ServerNext]_allVars PROVE MailInv'
  OBVIOUS
<1>1. CASE \E p \in Procs, c \in Conns : Connect(p, c)
  BY <1>1, ConnectMail
<1>2. CASE \E c \in Conns, k \in Kinds : SendCall(c, k)
  BY <1>2, SendCallMail
<1>3. CASE \E q \in Pids : PeerExits(q)
  BY <1>3, PeerExitsMail
<1>4. CASE \E c \in Conns : Accept(c) \/ HandleCall(c) \/ End(c) \/ ReadError(c)
  BY <1>4, LinkStepMail, HandleCallMail
<1>5. CASE \E c \in Conns, i \in 1 .. MaxCalls : IdleCall(c, i)
  BY <1>5, IdleCallMail
<1>6. CASE Supervise
  BY <1>6, SuperviseMail
<1>7. CASE \/ \E p \in Authenticators : NoticeAborts(p)
           \/ ServerAborted \/ Deserted \/ UNCHANGED allVars
  <2>1. UNCHANGED <<serverVars, procVars, kernelVars>>
    BY <1>7 DEF NoticeAborts, ServerAborted, Aborted, Deserted, allVars, vars
  <2> QED
    BY <2>1 DEF MailInv, HeldPipesAreOpen, OnlyTheDeadMiss, TheDeadAreKnown,
                Missed, Died, Referenced, Outstanding, serverVars, connVars,
                procVars, kernelVars
<1> QED
  BY <1>1, <1>2, <1>3, <1>4, <1>5, <1>6, <1>7, Zenon DEF ServerNext

\* The manager's references to pipes are as good as the pipes' peers: a reply
\* or an exit notice reaches the child it is owed to while that child lives,
\* although the pipe it is written through may be freed, and its address be
\* given to another connection, before it is written (server.hpp
\* CallReplyCallback::pipe, setOnDestroy in nfcdoorz-manager.cpp).
THEOREM OnlyTheDeadMissTheirMail == ServerSpec => []StrayMailNeedsADeath
<1>1. ServerInit => MailInv
  <2> SUFFICES ASSUME ServerInit PROVE MailInv
    OBVIOUS
  <2>1. \A c \in Conns : ~Referenced(c) /\ ~Missed(c)
    BY ServerAssumption DEF ServerInit, Init, Procs, Referenced, Missed, Outstanding
  <2> QED
    BY <2>1 DEF ServerInit, MailInv, HeldPipesAreOpen, OnlyTheDeadMiss,
                TheDeadAreKnown
<1>2. MailInv => StrayMailNeedsADeath
  BY DEF MailInv, OnlyTheDeadMiss, TheDeadAreKnown, Missed, StrayMailNeedsADeath
<1> QED
  BY <1>1, <1>2, NextMailInv, ServerInvariance, PTL DEF ServerSpec

\* The manager as a whole keeps the promise of its supervisor: what clients
\* ask for, when they go and what the manager aborts over only interleave with
\* the lives of the children, and never start, end or spend one.
THEOREM ServerImplementsLifecycle == ServerSpec => ImplementsLifecycle
<1>1. ServerInit => Life!Init
  BY InitIsLifecycle DEF ServerInit
<1>2. ServerInv /\ [ServerNext]_allVars => [Life!Next]_(Life!vars)
  <2> SUFFICES ASSUME ServerInv, [ServerNext]_allVars
               PROVE  [Life!Next]_(Life!vars)
    OBVIOUS
  <2>1. CASE [Next]_vars
    BY <2>1, StepIsLifecycle DEF ServerInv, SupervisorInv
  <2>2. CASE UNCHANGED procVars
    BY <2>2 DEF procVars, Life!vars, PhaseOf
  <2> QED
    BY <2>1, <2>2, ServerStepIs
<1> QED
  BY <1>1, <1>2, ServerInvariance, PTL
     DEF ServerSpec, ImplementsLifecycle, Life!Spec
=============================================================================
