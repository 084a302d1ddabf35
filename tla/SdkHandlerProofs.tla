--------------------------- MODULE SdkHandlerProofs ---------------------------
(***************************************************************************)
(* The handler of packages/sdk never holds two live sockets, and tracks no *)
(* request without a socket; its event stream loses and reorders nothing,  *)
(* and it gives up reconnecting when it should.  For every bound and every *)
(* configuration.                                                          *)
(***************************************************************************)
EXTENDS SdkHandler, TLAPS, SequenceTheorems

IInv == HandlerTypes /\ SocketInv

\* The initial state: a disconnected handler with no socket.
LEMMA InitInv == Init => IInv
<1> SUFFICES ASSUME Init PROVE IInv
  OBVIOUS
<1>2. HandlerTypes
  <2>1. state \in States /\ ws \in Socks \cup {None}
    BY DEF Init, States
  <2>2. link \in [Socks -> Links]
    BY DEF Init, Links
  <2>3. handled \in [Socks -> BOOLEAN]
    BY DEF Init
  <2>4. authTimer \in [Socks -> BOOLEAN]
    BY DEF Init
  <2>5. opened \in 0..MaxSocks
    BY SdkAssumption DEF Init
  <2>6. lastSeen \in Nat \cup {None}
    BY DEF Init
  <2>7. pending \subseteq Reqs /\ settled \subseteq Reqs
    BY DEF Init
  <2>8. monitor \in BOOLEAN /\ attempt \in Nat /\ timers \in Nat /\ tries \in Nat
    BY DEF Init
  <2>9. QED
    BY <2>1, <2>2, <2>3, <2>4, <2>5, <2>6, <2>7, <2>8 DEF HandlerTypes
<1>3. SocketInv
  BY DEF Init, SocketInv
<1>4. QED
  BY <1>2, <1>3 DEF IInv

\* attemptReconnect gives up or arms a timer; either way the types hold.
LEMMA ReconnectTypes ==
  ASSUME HandlerTypes, attemptReconnect
  PROVE  state' \in {"disconnected", "reconnecting"} /\ attempt' \in Nat /\ timers' \in Nat
<1>1. CASE state' = "disconnected" /\ UNCHANGED <<attempt, timers>>
  BY <1>1 DEF HandlerTypes
<1>2. CASE state' = "reconnecting" /\ attempt' = attempt + 1 /\ timers' = timers + 1
  BY <1>2 DEF HandlerTypes
<1>3. QED
  BY <1>1, <1>2 DEF attemptReconnect

\* Every action keeps the types.
LEMMA TypeStep == HandlerTypes /\ [Next]_vars => HandlerTypes'
<1> SUFFICES ASSUME HandlerTypes, [Next]_vars PROVE HandlerTypes'
  OBVIOUS
<1> USE SdkAssumption DEF HandlerTypes, States, Links, sock
<1> USE DEF Socks
<1>1. CASE connect
  BY <1>1 DEF connect, connectInternal
<1>2. CASE disconnect
  BY <1>2 DEF disconnect, Shut
<1>3. CASE StreamNext
  BY <1>3 DEF StreamNext
<1>4. CASE ReconnectTimer
  <2>1. timers' \in Nat
    BY <1>4 DEF ReconnectTimer
  <2>2. CASE connectInternal /\ tries' = tries + 1
    BY <1>4, <2>1, <2>2 DEF ReconnectTimer, connectInternal
  <2>3. CASE UNCHANGED <<state, ws, sock, opened, tries>>
    BY <1>4, <2>1, <2>3 DEF ReconnectTimer
  <2>4. QED
    BY <1>4, <2>2, <2>3 DEF ReconnectTimer
<1>5. CASE HeartbeatDead
  <2>1. CASE ws # None /\ link' = Shut(ws) /\ UNCHANGED <<state, stream, attempt, timers>>
    BY <1>5, <2>1 DEF HeartbeatDead, Shut
  <2>2. CASE attemptReconnect /\ UNCHANGED link
    BY <1>5, <2>2, ReconnectTypes DEF HeartbeatDead
  <2>3. QED
    BY <1>5, <2>1, <2>2 DEF HeartbeatDead
<1>6. ASSUME NEW n \in Socks, SocketOpen(n) PROVE HandlerTypes'
  BY <1>6 DEF SocketOpen
<1>7. ASSUME NEW n \in Socks, AuthTimeout(n) PROVE HandlerTypes'
  BY <1>7 DEF AuthTimeout, Shut
<1>8. ASSUME NEW n \in Socks, Authenticated(n) PROVE HandlerTypes'
  BY <1>8 DEF Authenticated
<1>9. ASSUME NEW n \in Socks, AuthRejected(n) PROVE HandlerTypes'
  BY <1>9 DEF AuthRejected
<1>10. ASSUME NEW n \in Socks, NEW code \in Codes, CloseAfterAuth(n, code) PROVE HandlerTypes'
  <2>1. state' \in States /\ attempt' \in Nat /\ timers' \in Nat
    BY <1>10, ReconnectTypes DEF CloseAfterAuth
  <2>2. link' \in [Socks -> Links]
    BY <1>10 DEF CloseAfterAuth
  <2>3. pending' \subseteq Reqs /\ settled' \subseteq Reqs
    BY <1>10 DEF CloseAfterAuth
  <2>4. ws' = None /\ monitor' = FALSE /\ UNCHANGED <<handled, authTimer, opened, lastSeen, tries>>
    BY <1>10 DEF CloseAfterAuth
  <2>5. QED
    BY <2>1, <2>2, <2>3, <2>4
<1>11. ASSUME NEW n \in Socks, NEW code \in Codes, CloseBeforeAuth(n, code) PROVE HandlerTypes'
  <2>1. state' \in States /\ attempt' \in Nat /\ timers' \in Nat
    BY <1>11, ReconnectTypes DEF CloseBeforeAuth
  <2>2. link' \in [Socks -> Links]
    BY <1>11 DEF CloseBeforeAuth
  <2>3. pending' \subseteq Reqs /\ settled' \subseteq Reqs
    BY <1>11 DEF CloseBeforeAuth
  <2>4. handled' \in [Socks -> BOOLEAN]
    BY <1>11 DEF CloseBeforeAuth
  <2>5. authTimer' \in [Socks -> BOOLEAN]
    BY <1>11 DEF CloseBeforeAuth
  <2>6. monitor' = FALSE /\ UNCHANGED <<ws, opened, lastSeen, tries>>
    BY <1>11 DEF CloseBeforeAuth
  <2>7. QED
    BY <2>1, <2>2, <2>3, <2>4, <2>5, <2>6
<1>12. ASSUME NEW n \in Socks, NEW seq \in 1..MaxEvents, EventFrame(n, seq) PROVE HandlerTypes'
  BY <1>12 DEF EventFrame
<1>13. ASSUME NEW n \in Socks, NEW r \in Reqs, ResponseFrame(n, r) PROVE HandlerTypes'
  BY <1>13 DEF ResponseFrame
<1>14. ASSUME NEW r \in Reqs, sendRequest(r) \/ RequestTimeout(r) PROVE HandlerTypes'
  BY <1>14 DEF sendRequest, RequestTimeout
<1>15. CASE UNCHANGED vars
  BY <1>15 DEF vars
<1>16. QED
  BY <1>1, <1>2, <1>3, <1>4, <1>5, <1>6, <1>7, <1>8, <1>9, <1>10, <1>11, <1>12, <1>13,
     <1>14, <1>15
  DEF Next, Closes

\* Every action keeps the relation between the sockets, ws and the state.
LEMMA SocketStep == IInv /\ [Next]_vars => SocketInv'
<1> SUFFICES ASSUME IInv, [Next]_vars PROVE SocketInv'
  OBVIOUS
<1> USE SdkAssumption DEF IInv, HandlerTypes, SocketInv, Socks, sock
<1>1. CASE connect
  BY <1>1 DEF connect, connectInternal
<1>2. CASE disconnect
  BY <1>2 DEF disconnect, Shut
<1>3. CASE StreamNext
  BY <1>3 DEF StreamNext
<1>4. CASE ReconnectTimer
  BY <1>4 DEF ReconnectTimer, connectInternal
<1>5. CASE HeartbeatDead
  BY <1>5 DEF HeartbeatDead, Shut
<1>6. ASSUME NEW n \in Socks, SocketOpen(n) PROVE SocketInv'
  BY <1>6 DEF SocketOpen
<1>7. ASSUME NEW n \in Socks, AuthTimeout(n) PROVE SocketInv'
  BY <1>7 DEF AuthTimeout, Shut
<1>8. ASSUME NEW n \in Socks, Authenticated(n) PROVE SocketInv'
  BY <1>8 DEF Authenticated
<1>9. ASSUME NEW n \in Socks, AuthRejected(n) PROVE SocketInv'
  BY <1>9 DEF AuthRejected
<1>10. ASSUME NEW n \in Socks, NEW code \in Codes, CloseAfterAuth(n, code) PROVE SocketInv'
  <2>1. \A m \in Socks : link'[m] = IF m = n THEN "closed" ELSE link[m]
    BY <1>10 DEF CloseAfterAuth
  <2>2. n = opened
    BY <1>10 DEF CloseAfterAuth
  <2>3. monitor' = FALSE /\ opened' = opened /\ ws' = None
    BY <1>10 DEF CloseAfterAuth
  <2>4. \A m \in Socks : link'[m] \in {"none", "closed"}
    BY <2>1, <2>2 DEF Links
  <2>5. \A m \in Socks : link'[m] # "none" => m <= opened'
    BY <2>1, <2>2, <2>3
  <2>6. QED
    BY <2>3, <2>4, <2>5
<1>11. ASSUME NEW n \in Socks, NEW code \in Codes, CloseBeforeAuth(n, code) PROVE SocketInv'
  <2>1. \A m \in Socks : link'[m] = IF m = n THEN "closed" ELSE link[m]
    BY <1>11 DEF CloseBeforeAuth
  <2>2. n = opened
    BY <1>11 DEF CloseBeforeAuth
  <2>3. monitor' = FALSE /\ opened' = opened /\ ws' = ws
    BY <1>11 DEF CloseBeforeAuth
  <2>4. \A m \in Socks : link'[m] \in {"none", "closed"}
    BY <2>1, <2>2 DEF Links
  <2>5. \A m \in Socks : link'[m] # "none" => m <= opened'
    BY <2>1, <2>2, <2>3
  <2>6. QED
    BY <2>3, <2>4, <2>5
<1>12. ASSUME NEW n \in Socks, NEW seq \in 1..MaxEvents, EventFrame(n, seq) PROVE SocketInv'
  BY <1>12 DEF EventFrame
<1>13. ASSUME NEW n \in Socks, NEW r \in Reqs, ResponseFrame(n, r) PROVE SocketInv'
  BY <1>13 DEF ResponseFrame
<1>14. ASSUME NEW r \in Reqs, sendRequest(r) \/ RequestTimeout(r) PROVE SocketInv'
  BY <1>14 DEF sendRequest, RequestTimeout
<1>15. CASE UNCHANGED vars
  BY <1>15 DEF vars
<1>16. QED
  BY <1>1, <1>2, <1>3, <1>4, <1>5, <1>6, <1>7, <1>8, <1>9, <1>10, <1>11, <1>12, <1>13,
     <1>14, <1>15
  DEF Next, Closes

\* The inductive invariant holds in every reachable state of handler.ts.
THEOREM SdkInvariant == Spec => []IInv
<1>1. IInv /\ [Next]_vars => IInv'
  BY TypeStep, SocketStep DEF IInv
<1>2. QED
  BY InitInv, <1>1, PTL DEF Spec

\* Reconnection timers, the heartbeat monitor and close events of handler.ts
\* never leave two sockets connecting or open.
THEOREM OneLiveSocket == Spec => []AtMostOneLiveSocket
<1>1. IInv => AtMostOneLiveSocket
  BY DEF IInv, SocketInv, AtMostOneLiveSocket
<1>2. QED
  BY <1>1, SdkInvariant, PTL

\* Requests of request-tracker.ts are tracked only while ws is set.
THEOREM PendingSocket == Spec => []PendingHasSocket
<1>1. Init => PendingHasSocket
  BY DEF Init, PendingHasSocket
<1>2. PendingHasSocket /\ IInv /\ [Next]_vars => PendingHasSocket'
  <2> SUFFICES ASSUME PendingHasSocket, IInv, [Next]_vars PROVE PendingHasSocket'
    OBVIOUS
  <2> USE SdkAssumption DEF PendingHasSocket, IInv, HandlerTypes, SocketInv, Socks, sock
  <2>1. CASE connect \/ ReconnectTimer
    BY <2>1 DEF connect, ReconnectTimer, connectInternal
  <2>2. CASE disconnect \/ StreamNext \/ HeartbeatDead
    BY <2>2 DEF disconnect, StreamNext, HeartbeatDead
  <2>3. ASSUME NEW n \in Socks,
               \/ SocketOpen(n) \/ AuthTimeout(n) \/ Authenticated(n) \/ AuthRejected(n)
               \/ \E seq \in 1..MaxEvents : EventFrame(n, seq)
               \/ \E r \in Reqs : ResponseFrame(n, r)
        PROVE  PendingHasSocket'
    BY <2>3 DEF SocketOpen, AuthTimeout, Authenticated, AuthRejected, EventFrame, ResponseFrame
  <2>4. ASSUME NEW n \in Socks, Closes(n) PROVE PendingHasSocket'
    BY <2>4 DEF Closes, CloseAfterAuth, CloseBeforeAuth
  <2>5. ASSUME NEW r \in Reqs, sendRequest(r) \/ RequestTimeout(r) PROVE PendingHasSocket'
    BY <2>5 DEF sendRequest, RequestTimeout
  <2>6. CASE UNCHANGED vars
    BY <2>6 DEF vars
  <2>7. QED
    BY <2>1, <2>2, <2>3, <2>4, <2>5, <2>6 DEF Next
<1>3. QED
  BY <1>1, <1>2, SdkInvariant, PTL DEF Spec

\* Sockets, state and requests of handler.ts agree in every reachable state.
THEOREM SocketsAgree == Spec => []SocketsConsistent
<1>1. IInv /\ AtMostOneLiveSocket /\ PendingHasSocket => SocketsConsistent
  BY DEF IInv, SocketsConsistent
<1>2. QED
  BY <1>1, SdkInvariant, OneLiveSocket, PendingSocket, PTL

-----------------------------------------------------------------------------
\* What the iterator and the pushes do to the order of the events.
LEMMA QueueFacts ==
  ASSUME NEW got \in Seq(Nat), NEW buf \in Seq(Nat), NEW ev \in Nat
  PROVE  /\ got \o Append(buf, ev) = Append(got \o buf, ev)
         /\ buf = <<>> => Append(got, ev) \o buf = Append(got \o buf, ev)
         /\ buf # <<>> => /\ Head(buf) \in Nat /\ Tail(buf) \in Seq(Nat)
                          /\ Append(got, Head(buf)) \o Tail(buf) = got \o buf
<1>1. <<ev>> \in Seq(Nat) /\ got \o buf \in Seq(Nat) /\ Append(got, ev) \in Seq(Nat)
  BY ConcatProperties, AppendProperties
<1>2. got \o Append(buf, ev) = Append(got \o buf, ev)
  <2>1. got \o Append(buf, ev) = got \o (buf \o <<ev>>)
    BY AppendIsConcat
  <2>2. Append(got \o buf, ev) = (got \o buf) \o <<ev>>
    BY <1>1, AppendIsConcat
  <2> QED
    BY <1>1, <2>1, <2>2, ConcatAssociative
<1>3. ASSUME buf = <<>> PROVE Append(got, ev) \o buf = Append(got \o buf, ev)
  BY <1>1, <1>3, ConcatEmptySeq
<1>4. ASSUME buf # <<>>
      PROVE  /\ Head(buf) \in Nat /\ Tail(buf) \in Seq(Nat)
             /\ Append(got, Head(buf)) \o Tail(buf) = got \o buf
  <2>1. Head(buf) \in Nat /\ Tail(buf) \in Seq(Nat) /\ <<Head(buf)>> \in Seq(Nat)
    BY <1>4, HeadTailProperties
  <2>2. buf = <<Head(buf)>> \o Tail(buf)
    <3>1. Len(buf) \in Nat \ {0}
      BY <1>4, EmptySeq
    <3>2. 1 \in 1 .. Len(buf) /\ Len(buf) \in 1 .. Len(buf)
      BY <3>1
    <3>3. SubSeq(buf, 1, Len(buf)) = <<buf[1]>> \o SubSeq(buf, 1 + 1, Len(buf))
      BY <3>2, SubSeqRecursiveFirst
    <3>4. Head(buf) = buf[1] /\ 1 + 1 = 2
      BY <3>1
    <3> QED
      BY <1>4, <3>3, <3>4, SubSeqFull, TailIsSubSeq
  <2>3. Append(got, Head(buf)) = got \o <<Head(buf)>>
    BY <2>1, AppendIsConcat
  <2>4. (got \o <<Head(buf)>>) \o Tail(buf) = got \o (<<Head(buf)>> \o Tail(buf))
    BY <2>1, ConcatAssociative
  <2> QED
    BY <2>1, <2>2, <2>3, <2>4
<1> QED
  BY <1>2, <1>3, <1>4

StreamInv == stream \in Stream /\ StreamConsistent

LEMMA NewStream ==
  ASSUME stream' = createEventStream
  PROVE  StreamInv'
  BY DEF createEventStream, Stream, StreamInv, StreamConsistent

LEMMA CompleteStream ==
  ASSUME StreamInv, stream' = Complete(stream)
  PROVE  StreamInv'
  BY DEF Complete, Stream, StreamInv, StreamConsistent

LEMMA PushStream ==
  ASSUME StreamInv, NEW ev \in Nat, stream' = Push(stream, ev)
  PROVE  StreamInv'
<1>1. /\ stream.buf \in Seq(Nat) /\ stream.got \in Seq(Nat) /\ stream.pushed \in Seq(Nat)
      /\ stream \in Stream /\ stream.got \o stream.buf = stream.pushed
  BY DEF StreamInv, StreamConsistent, Stream
<1>2. CASE stream.done
  BY <1>2 DEF Push, StreamInv, StreamConsistent
<1>3. CASE ~stream.done /\ stream.waiter
  <2>1. stream' = [stream EXCEPT !.waiter = FALSE, !.pushed = Append(stream.pushed, ev),
                                 !.got = Append(stream.got, ev)]
    BY <1>3 DEF Push
  <2>2. PICK p, g \in Seq(Nat) : p = Append(stream.pushed, ev) /\ g = Append(stream.got, ev)
    BY <1>1, AppendProperties
  <2>3. /\ stream' \in Stream /\ stream'.buf = stream.buf /\ stream'.got = g
        /\ stream'.pushed = p /\ ~stream'.waiter
    BY <1>1, <2>1, <2>2 DEF Stream
  <2>4. g \o stream.buf = p
    <3>1. stream.buf = <<>>
      BY <1>3 DEF StreamInv, StreamConsistent
    <3>2. Append(stream.got, ev) \o stream.buf = Append(stream.got \o stream.buf, ev)
      BY <1>1, <3>1, QueueFacts
    <3> QED
      BY <1>1, <2>2, <3>2
  <2> QED
    BY <2>3, <2>4 DEF StreamInv, StreamConsistent
<1>4. CASE ~stream.done /\ ~stream.waiter
  <2>1. stream' = [stream EXCEPT !.buf = Append(stream.buf, ev),
                                 !.pushed = Append(stream.pushed, ev)]
    BY <1>4 DEF Push
  <2>2. PICK p, b \in Seq(Nat) : p = Append(stream.pushed, ev) /\ b = Append(stream.buf, ev)
    BY <1>1, AppendProperties
  <2>3. /\ stream' \in Stream /\ stream'.buf = b /\ stream'.got = stream.got
        /\ stream'.pushed = p /\ ~stream'.waiter
    BY <1>1, <1>4, <2>1, <2>2 DEF Stream
  <2>4. stream.got \o b = p
    <3>1. stream.got \o Append(stream.buf, ev) = Append(stream.got \o stream.buf, ev)
      <4>1. stream.buf \in Seq(Nat) /\ stream.got \in Seq(Nat)
        BY <1>1
      <4> QED
        BY <4>1, QueueFacts, Zenon
    <3> QED
      BY <1>1, <2>2, <3>1
  <2> QED
    BY <2>3, <2>4 DEF StreamInv, StreamConsistent
<1> QED
  BY <1>2, <1>3, <1>4

LEMMA NextStream ==
  ASSUME StreamInv, StreamNext
  PROVE  StreamInv'
<1>1. /\ stream.buf \in Seq(Nat) /\ stream.got \in Seq(Nat) /\ stream \in Stream
      /\ stream.got \o stream.buf = stream.pushed /\ ~stream.waiter
  BY DEF StreamInv, StreamConsistent, Stream, StreamNext
<1>2. CASE stream.buf # <<>>
  <2>1. PICK b, g \in Seq(Nat) :
           /\ b = Tail(stream.buf) /\ g = Append(stream.got, Head(stream.buf))
           /\ g \o b = stream.pushed
    <3>1. Tail(stream.buf) \in Seq(Nat) /\ Head(stream.buf) \in Nat
          /\ Append(stream.got, Head(stream.buf)) \o Tail(stream.buf) = stream.pushed
      BY <1>1, <1>2, QueueFacts
    <3> QED
      BY <1>1, <3>1, AppendProperties
  <2>2. stream' = [stream EXCEPT !.buf = b, !.got = g]
    BY <1>2, <2>1 DEF StreamNext
  <2>3. /\ stream' \in Stream /\ stream'.buf = b /\ stream'.got = g
        /\ stream'.pushed = stream.pushed /\ ~stream'.waiter
    BY <1>1, <2>2 DEF Stream
  <2> QED
    BY <2>1, <2>3 DEF StreamInv, StreamConsistent
<1>3. CASE stream.buf = <<>>
  <2>1. ~stream.done /\ stream' = [stream EXCEPT !.waiter = TRUE]
    BY <1>3 DEF StreamNext
  <2>2. /\ stream' \in Stream /\ stream'.buf = stream.buf /\ stream'.got = stream.got
        /\ stream'.pushed = stream.pushed /\ ~stream'.done
    BY <1>1, <2>1 DEF Stream
  <2> QED
    BY <1>1, <1>3, <2>2 DEF StreamInv, StreamConsistent
<1> QED
  BY <1>2, <1>3

LEMMA StreamStep == StreamInv /\ [Next]_vars => StreamInv'
<1> SUFFICES ASSUME StreamInv, [Next]_vars PROVE StreamInv'
  OBVIOUS
<1>1. CASE stream' = stream
  BY <1>1 DEF StreamInv, StreamConsistent
<1>2. CASE stream' = Complete(stream)
  BY <1>2, CompleteStream
<1>3. CASE connect \/ StreamNext
  BY <1>3, NewStream, NextStream DEF connect
<1>4. CASE disconnect \/ ReconnectTimer \/ HeartbeatDead
  BY <1>1, <1>2, <1>4 DEF disconnect, ReconnectTimer, HeartbeatDead, attemptReconnect
<1>5. ASSUME NEW n \in Socks,
             \/ SocketOpen(n) \/ AuthTimeout(n) \/ Authenticated(n) \/ AuthRejected(n)
             \/ \E r \in Reqs : ResponseFrame(n, r)
      PROVE  StreamInv'
  BY <1>1, <1>5 DEF SocketOpen, AuthTimeout, Authenticated, AuthRejected, ResponseFrame
<1>6. ASSUME NEW n \in Socks, Closes(n) PROVE StreamInv'
  BY <1>1, <1>2, <1>6 DEF Closes, CloseAfterAuth, CloseBeforeAuth, attemptReconnect
<1>7. ASSUME NEW n \in Socks, NEW seq \in 1..MaxEvents, EventFrame(n, seq) PROVE StreamInv'
  BY <1>7, PushStream, SdkAssumption DEF EventFrame
<1>8. CASE \E r \in Reqs : sendRequest(r) \/ RequestTimeout(r)
  BY <1>1, <1>8 DEF sendRequest, RequestTimeout
<1>9. CASE UNCHANGED vars
  BY <1>1, <1>9 DEF vars
<1> QED
  BY <1>3, <1>4, <1>5, <1>6, <1>7, <1>8, <1>9 DEF Next

-----------------------------------------------------------------------------
\* A reconnection timer is alone, and is armed only while there is no socket;
\* each reconnection was an attempt of the tracker, which is bounded.
RetryInv ==
  /\ timers \in {0, 1}
  /\ timers = 1 => /\ state \in {"reconnecting", "closed"}
                   /\ \A n \in Socks : link[n] \in {"none", "closed"}
  /\ tries + timers <= attempt
  /\ MaxAttempts # 0 => attempt <= MaxAttempts

LEMMA RetryKept ==
  ASSUME IInv, RetryInv, UNCHANGED <<timers, attempt>>, tries' = tries \/ tries' = 0,
         timers = 1 => /\ state' \in {state, "closed"}
                       /\ \A n \in Socks : link'[n] = link[n]
  PROVE  RetryInv'
  BY DEF RetryInv, IInv, HandlerTypes

\* A socket has closed, so no timer is armed: one more is, or the handler gives up.
LEMMA RetryAgain ==
  ASSUME IInv, RetryInv, SocketInv', attemptReconnect, tries' = tries, timers = 0
  PROVE  RetryInv'
<1>1. attempt \in Nat /\ tries \in Nat /\ MaxAttempts \in Nat
  BY SdkAssumption DEF IInv, HandlerTypes
<1>2. CASE UNCHANGED <<attempt, timers>>
  BY <1>1, <1>2 DEF RetryInv
<1>3. CASE /\ Enabled /\ ~exhausted(attempt) /\ state' = "reconnecting"
           /\ attempt' = attempt + 1 /\ timers' = timers + 1
  <2>1. \A n \in Socks : link'[n] \in {"none", "closed"}
    BY <1>3 DEF SocketInv
  <2>2. tries' + timers' <= attempt' /\ timers' = 1
    BY <1>1, <1>3 DEF RetryInv
  <2>3. MaxAttempts # 0 => attempt' <= MaxAttempts
    BY <1>1, <1>3 DEF exhausted
  <2> QED
    BY <1>3, <2>1, <2>2, <2>3 DEF RetryInv
<1> QED
  BY <1>2, <1>3 DEF attemptReconnect

LEMMA RetryStep == IInv /\ IInv' /\ RetryInv /\ [Next]_vars => RetryInv'
<1> SUFFICES ASSUME IInv, IInv', RetryInv, [Next]_vars PROVE RetryInv'
  OBVIOUS
<1>l. \A n \in Socks : link[n] \in {"connecting", "open", "closing"} => timers = 0
  BY DEF RetryInv
<1>t. attempt \in Nat /\ tries \in Nat /\ SocketInv /\ SocketInv'
  BY DEF IInv, HandlerTypes
<1>1. CASE connect
  <2>1. timers = 0 /\ timers' = 0 /\ tries' = 0 /\ attempt' = attempt
    BY <1>1 DEF connect, RetryInv
  <2> QED
    BY <1>t, <2>1 DEF RetryInv
<1>2. CASE disconnect
  <2>1. timers = 1 => \A n \in Socks : link'[n] = link[n]
    BY <1>2 DEF disconnect, Shut, RetryInv, IInv, HandlerTypes
  <2> QED
    BY <1>2, <2>1, RetryKept DEF disconnect
<1>3. CASE ReconnectTimer
  <2>1. timers = 1 /\ timers' = 0 /\ attempt' = attempt
    BY <1>3 DEF ReconnectTimer, RetryInv
  <2>2. tries' = tries \/ tries' = tries + 1
    BY <1>3 DEF ReconnectTimer
  <2> QED
    BY <1>t, <2>1, <2>2 DEF RetryInv
<1>4. CASE HeartbeatDead
  <2>1. ws # None /\ UNCHANGED <<state, timers, attempt, tries>>
    BY <1>4 DEF HeartbeatDead, IInv, SocketInv
  <2>2. timers = 1 => \A n \in Socks : link'[n] = link[n]
    BY <1>4, <2>1 DEF HeartbeatDead, Shut, RetryInv, IInv, HandlerTypes
  <2> QED
    BY <2>1, <2>2, RetryKept
<1>5. ASSUME NEW n \in Socks, SocketOpen(n) \/ AuthRejected(n) PROVE RetryInv'
  <2>1. timers = 0
    BY <1>5, <1>l DEF SocketOpen, AuthRejected
  <2> QED
    BY <1>5, <2>1, RetryKept DEF SocketOpen, AuthRejected
<1>6. ASSUME NEW n \in Socks, AuthTimeout(n) PROVE RetryInv'
  <2>1. timers = 1 => \A m \in Socks : link'[m] = link[m]
    BY <1>6 DEF AuthTimeout, Shut, RetryInv, IInv, HandlerTypes
  <2> QED
    BY <1>6, <2>1, RetryKept DEF AuthTimeout
<1>7. ASSUME NEW n \in Socks, Authenticated(n) PROVE RetryInv'
  <2>1. timers = 0 /\ timers' = 0 /\ attempt' = 0 /\ tries' = 0
    BY <1>7, <1>l DEF Authenticated
  <2> QED
    BY <2>1, SdkAssumption DEF RetryInv
<1>8. ASSUME NEW n \in Socks, NEW code \in Codes,
             CloseAfterAuth(n, code) \/ CloseBeforeAuth(n, code)
      PROVE  RetryInv'
  <2>1. timers = 0 /\ tries' = tries
    BY <1>8, <1>l DEF CloseAfterAuth, CloseBeforeAuth
  <2>2. attemptReconnect \/ UNCHANGED <<attempt, timers>>
    BY <1>8 DEF CloseAfterAuth, CloseBeforeAuth
  <2> QED
    BY <1>t, <2>1, <2>2, RetryAgain, RetryKept
<1>9. ASSUME NEW n \in Socks, \/ \E seq \in 1..MaxEvents : EventFrame(n, seq)
                              \/ \E r \in Reqs : ResponseFrame(n, r)
      PROVE  RetryInv'
  BY <1>9, RetryKept DEF EventFrame, ResponseFrame, sock
<1>10. CASE StreamNext \/ \E r \in Reqs : sendRequest(r) \/ RequestTimeout(r)
  BY <1>10, RetryKept DEF StreamNext, sendRequest, RequestTimeout, sock
<1>11. CASE UNCHANGED vars
  BY <1>11, RetryKept DEF vars
<1> QED
  BY <1>1, <1>2, <1>3, <1>4, <1>5, <1>6, <1>7, <1>8, <1>9, <1>10, <1>11 DEF Next, Closes

\* For every number of sockets, events and attempts: the event stream hands over
\* what was pushed in order and never forgets a waiting iterator, and no more
\* reconnections are tried than the configuration allows (event-stream.ts,
\* reconnection.ts).
THEOREM StreamsAndRetriesHold == Spec => []StreamAndRetries
<1>1. Init => StreamInv /\ RetryInv
  BY SdkAssumption, NewStream
     DEF Init, createEventStream, Stream, StreamInv, StreamConsistent, RetryInv
<1>2. IInv /\ StreamInv /\ RetryInv => StreamAndRetries
  <2> SUFFICES ASSUME IInv, StreamInv, RetryInv PROVE StreamAndRetries
    OBVIOUS
  <2>1. MaxAttempts # 0 => tries <= MaxAttempts
    BY SdkAssumption DEF IInv, HandlerTypes, RetryInv
  <2> QED
    BY <2>1 DEF IInv, StreamInv, StreamAndRetries, SdkTypeOK, BoundedRetries
<1> QED
  BY <1>1, <1>2, SdkInvariant, StreamStep, RetryStep, PTL DEF Spec
=============================================================================
