---------------------------- MODULE IpcClientProofs ----------------------------
(***************************************************************************)
(* The client's call table and queue are right for any number of calls,    *)
(* and the client implements request and reply.                            *)
(*                                                                         *)
(* The argument follows one call id through the places it passes: drawn by *)
(* the caller, in the queue, in the packets to the manager, accepted,      *)
(* served, in the replies, in the hands of the loop thread, and at last in *)
(* the future.  It is never in two places on this path, so it is served    *)
(* once and its promise is set once.                                       *)
(***************************************************************************)
EXTENDS IpcClient, TLAPS

In(s, i)    == \E k \in 1 .. Len(s) : s[k] = i
Distinct(s) == \A j, k \in 1 .. Len(s) : s[j] = s[k] => j = k

Handling(i) == loop.pc \in {"deliver", "erase"} /\ loop.id = i

\* What the caller is doing, and what it was given for its earlier calls.
CallerInv ==
  /\ caller.pc = "idle" <=> caller.id = NoId
  /\ caller.pc # "idle" => caller.id = nextId - 1
  /\ \A i \in Ids : outcome[i] = "none" <=> i >= nextId \/ i = caller.id
  /\ \A i \in Ids : outcome[i] \in {"answered", "mistyped"} => future[i] # NoId

\* Only ids that were drawn travel, each in one place.
Sent(i) == In(outQueue, i) \/ In(toServer, i) \/ i \in accepted \/ i \in served
PathInv ==
  /\ Distinct(outQueue) /\ Distinct(toServer) /\ Distinct(toClient)
  /\ \A i \in Ids :
       /\ Sent(i) => i < nextId
       /\ Sent(i) /\ i = caller.id => caller.pc \in {"notify", "wait"}
       /\ In(outQueue, i) => ~In(toServer, i) /\ i \notin accepted \cup served
       /\ In(toServer, i) => i \notin accepted \cup served
       /\ i \in accepted => i \notin served
       /\ In(toClient, i) => i \in served /\ future[i] = NoId /\ ~Handling(i)
       /\ Handling(i) => i \in served
       /\ loop.pc = "deliver" /\ loop.id = i => future[i] = NoId
       /\ future[i] # NoId => future[i] = i /\ i \in served
  /\ loop.pc \in {"deliver", "erase"} => loop.id \in Ids

\* Whose promises call_returns holds.
TableInv ==
  \A i \in callReturns :
    /\ i = caller.id \/ i \in TimedOut \/ (loop.pc = "erase" /\ loop.id = i)
    /\ future[i] # NoId => loop.pc = "erase" /\ loop.id = i

\* The wake-up of the loop thread.
WakeInv ==
  /\ outQueue # <<>> /\ loop.pc # "draining" => asyncSent \/ caller.pc = "notify"
  /\ TimedOut = {} =>
       /\ caller.pc = "notify" => In(outQueue, caller.id)
       /\ asyncSent => /\ caller.pc = "wait" /\ loop.pc # "draining"
                       /\ In(outQueue, caller.id)
       /\ loop.pc = "draining" => caller.pc = "wait" /\ future[caller.id] = NoId

IInv == TypeOK /\ CallerInv /\ PathInv /\ TableInv /\ WakeInv

-----------------------------------------------------------------------------

\* An id put at the end of a sequence it is not in.
LEMMA AppendedIn ==
  ASSUME NEW s \in Seq(Ids), NEW x \in Ids
  PROVE  /\ Append(s, x) \in Seq(Ids)
         /\ Append(s, x) # <<>>
         /\ \A i : In(Append(s, x), i) <=> In(s, i) \/ i = x
         /\ Distinct(s) /\ ~In(s, x) => Distinct(Append(s, x))
<1>1. Append(s, x) \in Seq(Ids) /\ Len(Append(s, x)) = Len(s) + 1 /\ Len(s) \in Nat
  OBVIOUS
<1>2. /\ \A k \in 1 .. Len(s) : Append(s, x)[k] = s[k]
      /\ Append(s, x)[Len(s) + 1] = x
  OBVIOUS
<1> QED
  BY <1>1, <1>2 DEF In, Distinct

\* The first id taken from a sequence of distinct ones.
LEMMA HeadTaken ==
  ASSUME NEW s \in Seq(Ids), s # <<>>
  PROVE  /\ Head(s) \in Ids /\ Tail(s) \in Seq(Ids)
         /\ In(s, Head(s))
         /\ \A i : In(Tail(s), i) => In(s, i)
         /\ Distinct(s) => Distinct(Tail(s)) /\ ~In(Tail(s), Head(s))
         /\ \A i : In(s, i) => i = Head(s) \/ In(Tail(s), i)
<1>1. /\ Len(s) \in Nat \ {0} /\ Tail(s) \in Seq(Ids) /\ Len(Tail(s)) = Len(s) - 1
      /\ Head(s) = s[1] /\ s[1] \in Ids
  OBVIOUS
<1>2. \A k \in 1 .. Len(s) - 1 : Tail(s)[k] = s[k + 1]
  OBVIOUS
<1>3. \A k \in 2 .. Len(s) : k - 1 \in 1 .. Len(s) - 1 /\ Tail(s)[k - 1] = s[k]
  BY <1>1, <1>2
<1> QED
  BY <1>1, <1>2, <1>3 DEF In, Distinct

\* Nothing is in the empty sequence.
LEMMA EmptyIn ==
  /\ <<>> \in Seq(Ids) /\ Distinct(<<>>) /\ \A i : ~In(<<>>, i)
BY DEF In, Distinct

\* Before the first call nothing has been drawn.
LEMMA InitIInv == Init => IInv
<1> USE ClientAssumption DEF Ids, NoId
<1> SUFFICES ASSUME Init PROVE IInv
  OBVIOUS
<1>1. TypeOK
  <2>1. /\ caller \in [pc : CallerPcs, id : Ids \cup {NoId}]
        /\ loop \in [pc : LoopPcs, id : Ids \cup {NoId}]
    BY DEF Init, CallerPcs, LoopPcs
  <2>2. outQueue \in Seq(Ids) /\ toServer \in Seq(Ids) /\ toClient \in Seq(Ids)
    BY EmptyIn DEF Init
  <2>3. /\ future \in [Ids -> Ids \cup {NoId}]
        /\ outcome \in [Ids -> {"none", "answered", "mistyped", "timeout"}]
    BY DEF Init
  <2>4. /\ nextId \in 0 .. MaxId
        /\ callReturns \subseteq Ids /\ accepted \subseteq Ids /\ served \subseteq Ids
    BY DEF Init
  <2>5. asyncSent \in BOOLEAN /\ linkUp \in BOOLEAN /\ clientUp \in BOOLEAN
    BY DEF Init
  <2> QED
    BY <2>1, <2>2, <2>3, <2>4, <2>5 DEF TypeOK
<1>2. CallerInv /\ TableInv /\ WakeInv
  BY DEF Init, CallerInv, TableInv, WakeInv, TimedOut
<1>3. PathInv
  BY EmptyIn DEF Init, PathInv, Sent, Handling
<1> QED
  BY <1>1, <1>2, <1>3 DEF IInv

\* Drawing an id starts a call nobody has heard of.
LEMMA GetCallPreserves == IInv /\ GetCall => IInv'
<1> USE ClientAssumption DEF Ids, NoId, IInv, CallerPcs, LoopPcs
<1> SUFFICES ASSUME IInv, GetCall PROVE IInv'
  OBVIOUS
<1> USE DEF GetCall, At, DrawnId, Advanced, sharedVars, netVars
<1>1. TypeOK'
  BY DEF TypeOK
<1>2. CallerInv'
  BY DEF TypeOK, CallerInv
<1>3. PathInv'
  BY DEF TypeOK, CallerInv, PathInv, Sent, Handling
<1>4. TableInv'
  BY DEF TypeOK, CallerInv, TableInv, TimedOut
<1>5. WakeInv'
  BY DEF TypeOK, CallerInv, WakeInv, TimedOut
<1> QED
  BY <1>1, <1>2, <1>3, <1>4, <1>5

\* A promise enters the table of a call that is nowhere yet.
LEMMA InsertPreserves == IInv /\ Insert => IInv'
<1> USE ClientAssumption DEF Ids, NoId, IInv, CallerPcs, LoopPcs
<1> SUFFICES ASSUME IInv, Insert PROVE IInv'
  OBVIOUS
<1> USE DEF Insert, At, Goto, netVars
<1>0. caller.id \in Ids
  BY DEF TypeOK, CallerInv
<1>1. TypeOK'
  BY <1>0 DEF TypeOK
<1>2. CallerInv'
  BY DEF TypeOK, CallerInv
<1>3. PathInv'
  BY <1>0 DEF TypeOK, PathInv, Sent, Handling
<1>4. TableInv'
  <2>1. future[caller.id] = NoId
    BY <1>0 DEF PathInv, Sent, TypeOK
  <2>2. callReturns' \subseteq callReturns \cup {caller.id} /\ caller'.id = caller.id
    BY DEF TypeOK
  <2> QED
    BY <1>0, <2>1, <2>2 DEF TableInv, TimedOut
<1>5. WakeInv'
  BY <1>0 DEF TypeOK, WakeInv, TimedOut
<1> QED
  BY <1>1, <1>2, <1>3, <1>4, <1>5

\* A call enters the queue once.
LEMMA EnqueuePreserves == IInv /\ Enqueue => IInv'
<1> USE ClientAssumption DEF NoId, IInv, CallerPcs, LoopPcs
<1> SUFFICES ASSUME IInv, Enqueue PROVE IInv'
  OBVIOUS
<1>0. /\ caller.id \in Ids /\ caller.pc = "enqueue" /\ ~Sent(caller.id)
      /\ UNCHANGED <<nextId, outcome, callReturns, future, asyncSent, loop,
                     toServer, toClient, accepted, served, linkUp>>
  BY DEF TypeOK, CallerInv, PathInv, Enqueue, At, Ids, netVars
<1>1. CASE outQueue' = Append(outQueue, caller.id) /\ Goto("notify") /\ UNCHANGED clientUp
  <2>1. /\ outQueue' \in Seq(Ids) /\ outQueue' # <<>> /\ Distinct(outQueue')
        /\ \A i : In(outQueue', i) <=> In(outQueue, i) \/ i = caller.id
    BY <1>0, <1>1, AppendedIn DEF TypeOK, Sent, PathInv
  <2>2. caller' = [pc |-> "notify", id |-> caller.id]
    BY <1>0, <1>1 DEF Goto, TypeOK
  <2>3. TypeOK'
    BY <1>0, <1>1, <2>1, <2>2 DEF TypeOK
  <2>4. CallerInv' /\ TableInv'
    BY <1>0, <1>1, <2>2 DEF CallerInv, TableInv, TimedOut
  <2>5. PathInv'
    BY <1>0, <1>1, <2>1, <2>2 DEF TypeOK, CallerInv, PathInv, Sent, Handling, Ids
  <2>6. WakeInv'
    BY <1>0, <1>1, <2>1, <2>2 DEF WakeInv, TimedOut, TypeOK
  <2> QED
    BY <2>3, <2>4, <2>5, <2>6
<1>2. CASE clientUp' = FALSE /\ UNCHANGED <<outQueue, caller>>
  <2>1. TypeOK' /\ CallerInv' /\ TableInv'
    BY <1>0, <1>2 DEF TypeOK, CallerInv, TableInv, TimedOut
  <2>2. PathInv' /\ WakeInv'
    BY <1>0, <1>2 DEF PathInv, Sent, Handling, WakeInv, TimedOut
  <2> QED
    BY <2>1, <2>2
<1> QED
  BY <1>1, <1>2 DEF Enqueue

\* The wake-up is sent after the call was queued.
LEMMA SendPreserves == IInv /\ Send => IInv'
<1> USE ClientAssumption DEF Ids, NoId, IInv, CallerPcs, LoopPcs
<1> SUFFICES ASSUME IInv, Send PROVE IInv'
  OBVIOUS
<1> USE DEF Send, At, Goto, Wakeup, netVars
<1>1. TypeOK'
  BY DEF TypeOK
<1>2. CallerInv'
  BY DEF TypeOK, CallerInv
<1>3. PathInv'
  BY DEF TypeOK, PathInv, Sent, Handling
<1>4. TableInv'
  BY DEF TypeOK, TableInv, TimedOut
<1>5. WakeInv'
  BY DEF TypeOK, WakeInv, TimedOut
<1> QED
  BY <1>1, <1>2, <1>3, <1>4, <1>5

\* An answer is returned only when the promise is set.
LEMMA GetReplyPreserves == IInv /\ (GetReply \/ WrongType) => IInv'
<1> USE ClientAssumption DEF Ids, NoId, IInv, CallerPcs, LoopPcs
<1> SUFFICES ASSUME IInv, GetReply \/ WrongType PROVE IInv'
  OBVIOUS
<1>0. PICK result \in {"answered", "mistyped"} :
        /\ caller.pc = "wait" /\ future[caller.id] # NoId
        /\ outcome' = [outcome EXCEPT ![caller.id] = result]
        /\ caller' = [pc |-> "idle", id |-> NoId]
        /\ UNCHANGED <<nextId, sharedVars, loop, netVars, clientUp>>
  BY DEF GetReply, WrongType, At, Finish
<1> USE <1>0 DEF sharedVars, netVars
<1>1. TypeOK'
  BY DEF TypeOK
<1>2. CallerInv'
  BY DEF TypeOK, CallerInv
<1>3. PathInv'
  BY DEF TypeOK, PathInv, Sent, Handling
<1>4. TableInv'
  BY DEF TypeOK, TableInv, TimedOut
<1>5. WakeInv'
  BY DEF TypeOK, CallerInv, PathInv, WakeInv, TimedOut, Sent
<1> QED
  BY <1>1, <1>2, <1>3, <1>4, <1>5

\* A call that times out may leave its promise behind.
LEMMA TimeoutPreserves == IInv /\ Timeout => IInv'
<1> USE ClientAssumption DEF Ids, NoId, IInv, CallerPcs, LoopPcs
<1> SUFFICES ASSUME IInv, Timeout PROVE IInv'
  OBVIOUS
<1> USE DEF Timeout, At, Finish, sharedVars, netVars
<1>1. TypeOK'
  BY DEF TypeOK
<1>2. CallerInv'
  BY DEF TypeOK, CallerInv
<1>3. PathInv'
  BY DEF TypeOK, PathInv, Sent, Handling
<1>4. TableInv'
  BY DEF TypeOK, TableInv, TimedOut
<1>5. WakeInv'
  BY DEF TypeOK, CallerInv, PathInv, WakeInv, TimedOut, Sent
<1> QED
  BY <1>1, <1>2, <1>3, <1>4, <1>5

\* The wake-up makes the loop thread empty the queue.
LEMMA AsyncEventPreserves == IInv /\ AsyncEvent => IInv'
<1> USE ClientAssumption DEF Ids, NoId, IInv, CallerPcs, LoopPcs
<1> SUFFICES ASSUME IInv, AsyncEvent PROVE IInv'
  OBVIOUS
<1> USE DEF AsyncEvent, LoopAt, callerVars, netVars
<1>1. TypeOK'
  BY DEF TypeOK
<1>2. CallerInv'
  BY DEF TypeOK, CallerInv
<1>3. PathInv'
  BY DEF TypeOK, PathInv, Sent, Handling
<1>4. TableInv'
  BY DEF TypeOK, TableInv, TimedOut
<1>5. WakeInv'
  BY DEF TypeOK, CallerInv, PathInv, WakeInv, TimedOut, Sent
<1> QED
  BY <1>1, <1>2, <1>3, <1>4, <1>5

\* A call goes from the queue to the manager, or is lost.
LEMMA DrainOnePreserves == IInv /\ DrainOne => IInv'
<1> USE ClientAssumption DEF NoId, IInv, CallerPcs, LoopPcs
<1> SUFFICES ASSUME IInv, DrainOne PROVE IInv'
  OBVIOUS
<1> DEFINE h == Head(outQueue)
<1>1. /\ loop.pc = "draining" /\ outQueue # <<>> /\ clientUp' \in BOOLEAN
      /\ loop' = [pc |-> "draining", id |-> loop.id]
      /\ UNCHANGED <<nextId, caller, outcome, callReturns, future, asyncSent,
                     toClient, accepted, served, linkUp>>
  BY DEF DrainOne, LoopAt, AfterOne, callerVars, TypeOK
<1>2. /\ h \in Ids /\ In(outQueue, h)
      /\ outQueue' \in Seq(Ids) /\ Distinct(outQueue')
      /\ \A i : In(outQueue', i) => In(outQueue, i) /\ i # h
  BY <1>1, HeadTaken DEF DrainOne, TypeOK, PathInv
<1>3. ~In(toServer, h) /\ h \notin accepted \cup served
  BY <1>2 DEF PathInv
<1>4. /\ toServer' \in Seq(Ids) /\ Distinct(toServer')
      /\ \A i : In(toServer', i) => In(toServer, i) \/ i = h
  BY <1>2, <1>3, AppendedIn DEF DrainOne, TypeOK, PathInv
<1>5. TypeOK' /\ CallerInv'
  BY <1>1, <1>2, <1>4 DEF TypeOK, CallerInv
<1>6. PathInv'
  BY <1>1, <1>2, <1>3, <1>4 DEF PathInv, Sent, Handling
<1>7. TableInv' /\ WakeInv'
  BY <1>1, <1>2 DEF TableInv, WakeInv, TimedOut
<1> QED
  BY <1>5, <1>6, <1>7

\* The loop thread sleeps again only when the queue is empty.
LEMMA DrainDonePreserves == IInv /\ DrainDone => IInv'
<1> USE ClientAssumption DEF Ids, NoId, IInv, CallerPcs, LoopPcs
<1> SUFFICES ASSUME IInv, DrainDone PROVE IInv'
  OBVIOUS
<1> USE DEF DrainDone, LoopAt, callerVars, sharedVars, netVars
<1>1. TypeOK'
  BY DEF TypeOK
<1>2. CallerInv'
  BY DEF TypeOK, CallerInv
<1>3. PathInv'
  BY DEF TypeOK, PathInv, Sent, Handling
<1>4. TableInv'
  BY DEF TypeOK, TableInv, TimedOut
<1>5. WakeInv'
  BY DEF TypeOK, WakeInv, TimedOut
<1> QED
  BY <1>1, <1>2, <1>3, <1>4, <1>5

\* A reply goes into the hands of the loop thread.
LEMMA DataEventPreserves == IInv /\ DataEvent => IInv'
<1> USE ClientAssumption DEF Ids, NoId, IInv, CallerPcs, LoopPcs
<1> SUFFICES ASSUME IInv, DataEvent PROVE IInv'
  OBVIOUS
<1> USE DEF DataEvent, LoopAt, callerVars, sharedVars
<1>1. TypeOK'
  BY HeadTaken DEF TypeOK
<1>2. CallerInv'
  BY DEF TypeOK, CallerInv
<1>3. PathInv'
  BY HeadTaken DEF TypeOK, PathInv, Sent, Handling
<1>4. TableInv'
  BY DEF TypeOK, TableInv, TimedOut
<1>5. WakeInv'
  BY HeadTaken DEF TypeOK, WakeInv, TimedOut
<1> QED
  BY <1>1, <1>2, <1>3, <1>4, <1>5

\* ... or into nobody's.
LEMMA UnverifiedPreserves == IInv /\ Unverified => IInv'
<1> USE ClientAssumption DEF Ids, NoId, IInv, CallerPcs, LoopPcs
<1> SUFFICES ASSUME IInv, Unverified PROVE IInv'
  OBVIOUS
<1> USE DEF Unverified, LoopAt, callerVars, sharedVars
<1>1. TypeOK'
  BY HeadTaken DEF TypeOK
<1>2. CallerInv' /\ TableInv' /\ WakeInv'
  BY DEF CallerInv, TableInv, WakeInv, TimedOut
<1>3. PathInv'
  BY HeadTaken DEF TypeOK, PathInv, Sent, Handling
<1> QED
  BY <1>1, <1>2, <1>3

\* A promise is set from the one reply to its call.
LEMMA DeliverPreserves == IInv /\ Deliver => IInv'
<1> USE ClientAssumption DEF NoId, IInv, CallerPcs, LoopPcs
<1> SUFFICES ASSUME IInv, Deliver PROVE IInv'
  OBVIOUS
<1>0. /\ loop.id \in Ids /\ loop.id # NoId /\ loop.pc = "deliver" /\ future[loop.id] = NoId
      /\ loop.id \in served /\ ~In(toClient, loop.id)
      /\ UNCHANGED <<nextId, caller, outcome, callReturns, outQueue, asyncSent,
                     toServer, toClient, accepted, served, linkUp, clientUp>>
  BY DEF PathInv, Handling, Deliver, LoopAt, callerVars, netVars, Ids
<1>1. CASE /\ future' = [future EXCEPT ![loop.id] = loop.id]
           /\ loop' = [loop EXCEPT !.pc = "erase"]
  <2>1. /\ loop' = [pc |-> "erase", id |-> loop.id]
        /\ future' \in [Ids -> Ids \cup {NoId}] /\ future'[loop.id] = loop.id
        /\ \A i \in Ids : i # loop.id => future'[i] = future[i]
    BY <1>0, <1>1 DEF TypeOK
  <2>2. TypeOK' /\ CallerInv'
    BY <1>0, <2>1 DEF TypeOK, CallerInv
  <2>3. PathInv'
    BY <1>0, <2>1 DEF PathInv, Sent, Handling
  <2>4. TableInv'
    BY <1>0, <2>1 DEF TypeOK, TableInv, TimedOut
  <2>5. WakeInv'
    BY <1>0, <2>1 DEF WakeInv, TimedOut
  <2> QED
    BY <2>2, <2>3, <2>4, <2>5
<1>2. CASE loop' = [pc |-> "poll", id |-> NoId] /\ UNCHANGED future
  <2>1. TypeOK' /\ CallerInv' /\ TableInv'
    BY <1>0, <1>2 DEF TypeOK, CallerInv, TableInv, TimedOut
  <2>2. PathInv' /\ WakeInv'
    BY <1>0, <1>2 DEF PathInv, Sent, Handling, WakeInv, TimedOut
  <2> QED
    BY <2>1, <2>2
<1> QED
  BY <1>1, <1>2 DEF Deliver, RepliedCall

\* The promise that was set leaves the table.
LEMMA ErasePreserves == IInv /\ Erase => IInv'
<1> USE ClientAssumption DEF Ids, NoId, IInv, CallerPcs, LoopPcs
<1> SUFFICES ASSUME IInv, Erase PROVE IInv'
  OBVIOUS
<1> USE DEF Erase, LoopAt, Erased, callerVars, netVars
<1>1. TypeOK'
  BY DEF TypeOK
<1>2. CallerInv'
  BY DEF TypeOK, CallerInv
<1>3. PathInv'
  BY DEF TypeOK, PathInv, Sent, Handling
<1>4. TableInv'
  BY DEF TypeOK, TableInv, TimedOut
<1>5. WakeInv'
  BY DEF TypeOK, WakeInv, TimedOut
<1> QED
  BY <1>1, <1>2, <1>3, <1>4, <1>5

\* The end of the stream changes nothing for the caller.
LEMMA EndEventPreserves == IInv /\ EndEvent => IInv'
<1> USE ClientAssumption DEF Ids, NoId, IInv, CallerPcs, LoopPcs
<1> SUFFICES ASSUME IInv, EndEvent PROVE IInv'
  OBVIOUS
<1> USE DEF EndEvent, LoopAt, callerVars, sharedVars, netVars
<1>1. TypeOK'
  BY DEF TypeOK
<1>2. CallerInv'
  BY DEF TypeOK, CallerInv
<1>3. PathInv'
  BY DEF TypeOK, PathInv, Sent, Handling
<1>4. TableInv'
  BY DEF TypeOK, TableInv, TimedOut
<1>5. WakeInv'
  BY DEF TypeOK, WakeInv, TimedOut
<1> QED
  BY <1>1, <1>2, <1>3, <1>4, <1>5

\* Replies may be lost with the connection.
LEMMA ErrorEventPreserves == IInv /\ ErrorEvent => IInv'
<1> USE ClientAssumption DEF Ids, NoId, IInv, CallerPcs, LoopPcs
<1> SUFFICES ASSUME IInv, ErrorEvent PROVE IInv'
  OBVIOUS
<1> USE DEF ErrorEvent, LoopAt, callerVars, sharedVars
<1>1. TypeOK'
  BY EmptyIn DEF TypeOK
<1>2. CallerInv'
  BY DEF TypeOK, CallerInv
<1>3. PathInv'
  BY EmptyIn DEF TypeOK, PathInv, Sent, Handling
<1>4. TableInv'
  BY DEF TypeOK, TableInv, TimedOut
<1>5. WakeInv'
  BY EmptyIn DEF TypeOK, WakeInv, TimedOut
<1> QED
  BY <1>1, <1>2, <1>3, <1>4, <1>5

\* After the end, calls are lost from the queue.
LEMMA AsyncAfterEndPreserves == IInv /\ AsyncAfterEnd => IInv'
<1> USE ClientAssumption DEF Ids, NoId, IInv, CallerPcs, LoopPcs
<1> SUFFICES ASSUME IInv, AsyncAfterEnd PROVE IInv'
  OBVIOUS
<1> USE DEF AsyncAfterEnd, LoopAt, callerVars, netVars
<1>1. TypeOK'
  BY EmptyIn DEF TypeOK
<1>2. CallerInv'
  BY DEF TypeOK, CallerInv
<1>3. PathInv'
  BY EmptyIn DEF TypeOK, PathInv, Sent, Handling
<1>4. TableInv'
  BY DEF TypeOK, TableInv, TimedOut
<1>5. WakeInv'
  BY EmptyIn DEF TypeOK, WakeInv, TimedOut
<1> QED
  BY <1>1, <1>2, <1>3, <1>4, <1>5

\* The manager reads a call.
LEMMA ReadPreserves == IInv /\ Read => IInv'
<1> USE ClientAssumption DEF Ids, NoId, IInv, CallerPcs, LoopPcs
<1> SUFFICES ASSUME IInv, Read PROVE IInv'
  OBVIOUS
<1> USE DEF Read, callerVars, sharedVars
<1>0. toServer # <<>> /\ Head(toServer) \in Ids /\ Tail(toServer) \in Seq(Ids)
  BY HeadTaken DEF TypeOK
<1>1. TypeOK'
  BY <1>0 DEF TypeOK
<1>2. CallerInv'
  BY DEF TypeOK, CallerInv
<1>3. PathInv'
  BY HeadTaken DEF TypeOK, PathInv, Sent, Handling
<1>4. TableInv'
  BY DEF TypeOK, TableInv, TimedOut
<1>5. WakeInv'
  BY HeadTaken DEF TypeOK, WakeInv, TimedOut
<1> QED
  BY <1>1, <1>2, <1>3, <1>4, <1>5

\* What the manager had read is lost with it.
LEMMA ManagerGonePreserves == IInv /\ ManagerGone => IInv'
<1> USE ClientAssumption DEF Ids, NoId, IInv, CallerPcs, LoopPcs
<1> SUFFICES ASSUME IInv, ManagerGone PROVE IInv'
  OBVIOUS
<1> USE DEF ManagerGone, callerVars, sharedVars
<1>1. TypeOK'
  BY EmptyIn DEF TypeOK
<1>2. CallerInv'
  BY DEF TypeOK, CallerInv
<1>3. PathInv'
  BY EmptyIn DEF TypeOK, PathInv, Sent, Handling
<1>4. TableInv'
  BY DEF TypeOK, TableInv, TimedOut
<1>5. WakeInv'
  BY EmptyIn DEF TypeOK, WakeInv, TimedOut
<1> QED
  BY <1>1, <1>2, <1>3, <1>4, <1>5
\* The manager answers a call it has accepted, so it answers it once.
LEMMA ReplyPreserves == ASSUME IInv, NEW i \in Ids, Reply(i) PROVE IInv'
<1> USE ClientAssumption DEF NoId, IInv, CallerPcs, LoopPcs
<1>0. /\ i \in accepted /\ i \notin served /\ ~In(toClient, i) /\ ~Handling(i)
      /\ future[i] = NoId /\ accepted' = accepted \ {i} /\ served' = served \cup {i}
      /\ UNCHANGED <<nextId, caller, outcome, callReturns, future, outQueue,
                     asyncSent, loop, toServer, linkUp, clientUp>>
  BY DEF Reply, PathInv, callerVars, sharedVars
<1>1. /\ toClient' \in Seq(Ids) /\ Distinct(toClient')
      /\ \A j : In(toClient', j) <=> In(toClient, j) \/ j = i
  BY <1>0, AppendedIn DEF Reply, TypeOK, PathInv
<1>2. TypeOK' /\ CallerInv' /\ TableInv' /\ WakeInv'
  BY <1>0, <1>1 DEF TypeOK, CallerInv, TableInv, WakeInv, TimedOut
<1>3. PathInv'
  BY <1>0, <1>1 DEF PathInv, Sent, Handling
<1> QED
  BY <1>2, <1>3

\* The manager forgets a call it has accepted.
LEMMA DropPreserves == ASSUME IInv, NEW i \in Ids, Drop(i) PROVE IInv'
<1> USE ClientAssumption DEF NoId, IInv, CallerPcs, LoopPcs, Drop, callerVars, sharedVars
<1>1. TypeOK' /\ CallerInv' /\ TableInv' /\ WakeInv'
  BY DEF TypeOK, CallerInv, TableInv, WakeInv, TimedOut
<1>2. PathInv'
  BY DEF PathInv, Sent, Handling
<1> QED
  BY <1>1, <1>2

\* No step leaves the invariant: one step per action.
LEMMA NextPreserves == IInv /\ [Next]_vars => IInv'
<1> SUFFICES ASSUME IInv, [Next]_vars PROVE IInv'
  OBVIOUS
<1>1. CASE Application
  BY <1>1, GetCallPreserves, InsertPreserves, EnqueuePreserves, SendPreserves,
     GetReplyPreserves, TimeoutPreserves DEF Application
<1>2. CASE LoopThread
  BY <1>2, AsyncEventPreserves, DrainOnePreserves, DrainDonePreserves,
     DataEventPreserves, UnverifiedPreserves, DeliverPreserves, ErasePreserves, EndEventPreserves,
     ErrorEventPreserves, AsyncAfterEndPreserves DEF LoopThread
<1>3. CASE Manager
  BY <1>3, ReadPreserves, ManagerGonePreserves, ReplyPreserves, DropPreserves DEF Manager
<1>4. CASE UNCHANGED vars
  <2>1. TypeOK' /\ CallerInv' /\ TableInv' /\ WakeInv'
    BY <1>4 DEF IInv, TypeOK, CallerInv, TableInv, WakeInv, TimedOut, vars,
       callerVars, sharedVars, netVars
  <2>2. PathInv'
    BY <1>4 DEF IInv, PathInv, Sent, Handling, vars, callerVars, sharedVars, netVars
  <2> QED
    BY <2>1, <2>2 DEF IInv
<1> QED
  BY <1>1, <1>2, <1>3, <1>4 DEF Next, Stopped

\* The strengthened invariant holds always.
LEMMA Invariance == Spec => []IInv
<1>1. Init => IInv
  BY InitIInv
<1>2. IInv /\ [Next]_vars => IInv'
  BY NextPreserves
<1> QED
  BY <1>1, <1>2, PTL DEF Spec
\* Every variable of the client keeps its type.
THEOREM TypeCorrect == Spec => []TypeOK
<1>1. IInv => TypeOK
  BY DEF IInv
<1> QED
  BY <1>1, Invariance, PTL

\* No call is forgotten in the queue although wake-ups coalesce.
THEOREM NoWakeupIsLost == Spec => []NoLostWakeup
<1>1. IInv => NoLostWakeup
  BY DEF IInv, WakeInv, NoLostWakeup
<1> QED
  BY <1>1, Invariance, PTL

\* Of the calls that are over, only those that timed out still hold a promise.
THEOREM TableIsExact == Spec => []OnlyTimeoutsLeak
<1>1. IInv => OnlyTimeoutsLeak
  BY DEF IInv, TableInv, OnlyTimeoutsLeak
<1> QED
  BY <1>1, Invariance, PTL

\* Without a timeout the two threads never meet in what they share unguarded:
\* a caller that makes its next call has been answered, so its wake-up is over
\* and the loop thread is past the lookup.
THEOREM RacesComeAfterTimeouts == Spec => []RacesNeedATimeout
<1>1. ASSUME IInv, TimedOut = {}
      PROVE  ~(caller.pc = "enqueue" /\ loop.pc = "draining")
  BY <1>1 DEF IInv, WakeInv
<1>2. ASSUME IInv, TimedOut = {}, caller.pc = "insert", loop.pc = "deliver"
      PROVE  FALSE
  <2>1. loop.id \in Ids /\ future[loop.id] = NoId /\ Sent(loop.id)
    BY <1>2 DEF IInv, PathInv, Handling, Sent
  <2>2. loop.id < nextId /\ loop.id # caller.id
    BY <1>2, <2>1 DEF IInv, PathInv
  <2>3. nextId \in Int /\ loop.id \in Int /\ outcome[loop.id] # "none"
    BY <2>1, <2>2, <1>2, ClientAssumption DEF IInv, CallerInv, TypeOK, Ids
  <2>4. outcome[loop.id] \in {"answered", "mistyped"}
    BY <1>2, <2>1, <2>3 DEF IInv, TypeOK, TimedOut
  <2> QED
    BY <2>1, <2>4, <1>2 DEF IInv, CallerInv
<1>3. IInv => RacesNeedATimeout
  BY <1>1, <1>2 DEF RacesNeedATimeout
<1> QED
  BY <1>3, Invariance, PTL

\* Setting a promise a second time, which would end the process, cannot happen:
\* a promise that is set belongs to no reply that is still to be handled.
THEOREM NoPromiseIsSetTwice == Spec => PromiseSetOnce
<1>1. ASSUME IInv, [Next]_vars, NEW i \in Ids, future[i] # NoId
      PROVE  /\ future'[i] = future[i]
             /\ ~(loop.pc = "deliver" /\ loop.id = i /\ loop'.pc = "erase")
  <2>1. ~(loop.pc = "deliver" /\ loop.id = i)
    BY <1>1 DEF IInv, PathInv
  <2>2. CASE Deliver
    BY <2>1, <2>2, <1>1 DEF Deliver, LoopAt, RepliedCall, IInv, TypeOK
  <2>3. CASE ~Deliver
    <3>1. UNCHANGED future
      BY <1>1, <2>3 DEF Next, Application, LoopThread, Manager, GetCall, Insert,
         Enqueue, Send, GetReply, WrongType, Timeout, Finish, AsyncEvent,
         DrainOne, DrainDone, DataEvent, Unverified, Erase, EndEvent, ErrorEvent, AsyncAfterEnd, Read,
         Reply, Drop, ManagerGone, Stopped, vars, sharedVars
    <3> QED
      BY <3>1, <2>1
  <2> QED
    BY <2>2, <2>3
<1>2. IInv /\ [Next]_vars =>
        [\A i \in Ids : future[i] # NoId => future'[i] = future[i] /\
           ~(loop.pc = "deliver" /\ loop.id = i /\ loop'.pc = "erase")]_vars
  BY <1>1
<1> QED
  BY <1>2, Invariance, PTL DEF Spec, PromiseSetOnce

-----------------------------------------------------------------------------
(* The client implements request and reply.                                 *)

Statuses == [i \in Ids |-> Status(i)]

\* Drawing an id asks a call; the one before it is over.
LEMMA GetCallIsAsk ==
  ASSUME IInv, GetCall
  PROVE  nextId \in Ids /\ Abstract!Ask(nextId)
<1> USE ClientAssumption DEF IInv, Ids, NoId
<1>1. /\ nextId \in Ids /\ clientUp /\ caller.id = NoId /\ nextId' = nextId + 1
      /\ UNCHANGED <<outcome, served, clientUp>>
  BY DEF GetCall, At, Advanced, CallerInv, TypeOK, netVars, sharedVars
<1>2. outcome \in [Ids -> {"none", "answered", "mistyped", "timeout"}]
  BY DEF TypeOK
<1>3. \A i \in Ids : Status(i) # "asked"
  <2> SUFFICES ASSUME NEW i \in Ids PROVE Status(i) # "asked"
    OBVIOUS
  <2>1. outcome[i] = "none" => ~(i < nextId)
    BY <1>1 DEF CallerInv, TypeOK
  <2>2. \/ outcome[i] = "none" \/ outcome[i] = "answered"
        \/ outcome[i] = "mistyped" \/ outcome[i] = "timeout"
    BY <1>2
  <2> QED
    BY <2>1, <2>2 DEF Status
<1>4. Statuses[nextId] = "unasked"
  BY <1>1, <1>2 DEF Statuses, Status, CallerInv
<1>5. Statuses' = [Statuses EXCEPT ![nextId] = "asked"]
  <2>1. outcome[nextId] = "none"
    BY <1>1 DEF CallerInv
  <2>2. ASSUME NEW i \in Ids
        PROVE  Status(i)' = IF i = nextId THEN "asked" ELSE Status(i)
    <3>1. i < nextId + 1 <=> i < nextId \/ i = nextId
      BY <1>1, <2>2
    <3> QED
      BY <1>1, <2>1, <2>2, <3>1 DEF Status
  <2> QED
    BY <1>1, <2>2 DEF Statuses
<1> QED
  BY <1>1, <1>3, <1>4, <1>5 DEF Abstract!Ask, Statuses

\* What gen() gives its caller ends the call; an answer was served.
LEMMA FinishEndsCall ==
  ASSUME IInv, GetReply \/ WrongType \/ Timeout
  PROVE  /\ caller.id \in Ids
         /\ Abstract!Return(caller.id) \/ Abstract!Fail(caller.id)
<1> USE ClientAssumption DEF IInv, NoId
<1>1. /\ caller.id \in Ids /\ outcome[caller.id] = "none" /\ caller.id < nextId
      /\ UNCHANGED <<nextId, served, clientUp>>
      /\ outcome \in [Ids -> {"none", "answered", "mistyped", "timeout"}]
  BY DEF GetReply, WrongType, Timeout, At, Finish, CallerInv, TypeOK, Ids, netVars
<1>2. Statuses[caller.id] = "asked"
  BY <1>1 DEF Statuses, Status
<1>3. CASE GetReply
  <2>1. caller.id \in served
    BY <1>1, <1>3 DEF GetReply, PathInv
  <2>2. outcome' = [outcome EXCEPT ![caller.id] = "answered"]
    BY <1>3 DEF GetReply, Finish
  <2>3. Statuses' = [Statuses EXCEPT ![caller.id] = "answered"]
    BY <1>1, <2>2 DEF Statuses, Status
  <2> QED
    BY <1>1, <1>2, <2>1, <2>3 DEF Abstract!Return, Statuses
<1>4. CASE WrongType \/ Timeout
  <2>1. \/ outcome' = [outcome EXCEPT ![caller.id] = "mistyped"]
        \/ outcome' = [outcome EXCEPT ![caller.id] = "timeout"]
    BY <1>4 DEF WrongType, Timeout, Finish
  <2>2. Statuses' = [Statuses EXCEPT ![caller.id] = "failed"]
    BY <1>1, <2>1 DEF Statuses, Status
  <2> QED
    BY <1>1, <1>2, <2>2 DEF Abstract!Fail, Statuses
<1> QED
  BY <1>3, <1>4

\* A reply of the manager serves a call that was asked, for the first time.
LEMMA ReplyIsServe ==
  ASSUME IInv, NEW i \in Ids, Reply(i)
  PROVE  Abstract!Serve(i)
<1> USE ClientAssumption DEF IInv
<1>1. i < nextId /\ i \notin served /\ served' = served \cup {i}
      /\ UNCHANGED <<nextId, outcome, clientUp>>
  BY DEF Reply, PathInv, Sent, callerVars
<1>2. Statuses[i] # "unasked" /\ UNCHANGED Statuses
  BY <1>1 DEF Statuses, Status, TypeOK
<1> QED
  BY <1>1, <1>2 DEF Abstract!Serve, Statuses

\* No other step is seen by the caller, unless it ends the client.
LEMMA OthersAreUnseen ==
  ASSUME UNCHANGED <<nextId, outcome, served>>, clientUp \/ UNCHANGED clientUp,
         clientUp \in BOOLEAN, clientUp' \in BOOLEAN
  PROVE  Abstract!Break \/ UNCHANGED Abstract!vars
<1>1. UNCHANGED Statuses
  BY DEF Statuses, Status
<1> QED
  BY <1>1 DEF Abstract!Break, Abstract!vars, Statuses

\* The caller's view of the client is request and reply: an answer is the one
\* given to this call, whatever times out, is lost or comes late.
THEOREM ClientImplementsRequestReply == Spec => ImplementsRequestReply
<1>1. Init => Abstract!Init
  BY ClientAssumption DEF Init, Abstract!Init, Status, Ids
<1>2. IInv /\ IInv' /\ [Next]_vars => [Abstract!Next]_(Abstract!vars)
  <2> SUFFICES ASSUME IInv, IInv', [Next]_vars PROVE [Abstract!Next]_(Abstract!vars)
    OBVIOUS
  <2>0. clientUp \in BOOLEAN /\ clientUp' \in BOOLEAN
    BY DEF IInv, TypeOK
  <2>1. CASE GetCall
    BY <2>1, GetCallIsAsk DEF Abstract!Next
  <2>2. CASE GetReply \/ WrongType \/ Timeout
    BY <2>2, FinishEndsCall DEF Abstract!Next
  <2>3. ASSUME NEW i \in Ids, Reply(i) PROVE Abstract!Next
    BY <2>3, ReplyIsServe DEF Abstract!Next
  <2>4. CASE Insert \/ Enqueue \/ Send
    BY <2>0, <2>4, OthersAreUnseen DEF Insert, Enqueue, Send, At, netVars, Abstract!Next
  <2>5. CASE LoopThread
    BY <2>0, <2>5, OthersAreUnseen DEF LoopThread, AsyncEvent, DrainOne, DrainDone,
       DataEvent, Unverified, Deliver, Erase, EndEvent, ErrorEvent, AsyncAfterEnd, LoopAt,
       callerVars, netVars, Abstract!Next
  <2>6. CASE Read \/ ManagerGone \/ \E i \in Ids : Drop(i)
    BY <2>0, <2>6, OthersAreUnseen DEF Read, ManagerGone, Drop, callerVars, Abstract!Next
  <2>7. CASE Stopped \/ UNCHANGED vars
    BY <2>0, <2>7, OthersAreUnseen DEF Stopped, vars, callerVars, netVars, Abstract!Next
  <2> QED
    BY <2>1, <2>2, <2>3, <2>4, <2>5, <2>6, <2>7 DEF Next, Application, Manager
<1> QED
  BY <1>1, <1>2, Invariance, PTL DEF Spec, ImplementsRequestReply, Abstract!Spec
=============================================================================
