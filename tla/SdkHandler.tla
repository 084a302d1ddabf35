----------------------------- MODULE SdkHandler -----------------------------
(***************************************************************************)
(* The harness side of the WebSocket protocol (packages/sdk): connection   *)
(* state machine, authentication with its timeout, reconnection, request   *)
(* tracking, heartbeat monitoring and the event stream a harness iterates. *)
(* Every listener and timer callback runs to completion, so each is one    *)
(* action; which of them runs next is up to the socket and the clock.      *)
(***************************************************************************)
EXTENDS Integers, Sequences

CONSTANTS
  Reqs,           \* request ids (crypto.randomUUID: never reused)
  Enabled,        \* config.reconnect.enabled
  MaxAttempts,    \* config.reconnect.maxAttempts, 0 for no limit
  None,           \* the null of the code
  MaxSocks,       \* bound: sockets opened in one behaviour
  MaxEvents       \* bound: events the signet sends

ASSUME SdkAssumption ==
  /\ Enabled \in BOOLEAN /\ MaxAttempts \in Nat
  /\ MaxSocks \in Nat /\ MaxEvents \in Nat /\ None \notin Nat

VARIABLES
  state,      \* HandlerState
  ws,         \* the socket requests are sent on, or None
  link,       \* the connection of the n-th WebSocket
  handled,    \* authHandled of the n-th connectInternal
  authTimer,  \* whether its auth timeout is armed
  opened,     \* number of WebSockets created
  lastSeen,   \* lastSeenSeq
  stream,     \* the event stream: [buf, done, waiter, pushed, got]
  pending,    \* requests tracked
  settled,    \* history: requests whose promise was resolved
  monitor,    \* whether the heartbeat monitor is armed
  attempt,    \* reconnectionTracker.attempt
  timers,     \* reconnection timeouts that have not fired
  tries       \* history: reconnections since the last success or connect()

vars == <<state, ws, link, handled, authTimer, opened, lastSeen, stream, pending, settled, monitor, attempt,
          timers, tries>>

sock == <<link, handled, authTimer>>
Socks == 1..MaxSocks
States == {"disconnected", "connecting", "authenticating", "connected", "reconnecting", "closed"}
NON_RETRYABLE_CODES == {4001, 4002, 4004, 4009}
Codes == {1006, 4001}        \* one close code of each kind
Links == {"none", "connecting", "open", "closing", "closed"}

Stream == [buf : Seq(Nat), done : BOOLEAN, waiter : BOOLEAN, pushed : Seq(Nat), got : Seq(Nat)]

createEventStream ==
  [buf |-> <<>>, done |-> FALSE, waiter |-> FALSE, pushed |-> <<>>, got |-> <<>>]

Init ==
  /\ state = "disconnected" /\ ws = None
  /\ link = [n \in Socks |-> "none"]
  /\ handled = [n \in Socks |-> FALSE] /\ authTimer = [n \in Socks |-> FALSE]
  /\ opened = 0 /\ lastSeen = None
  /\ stream = createEventStream
  /\ pending = {} /\ settled = {}
  /\ monitor = FALSE /\ attempt = 0 /\ timers = 0 /\ tries = 0

-----------------------------------------------------------------------------
(* event-stream.ts *)

Push(s, ev) ==
  IF s.done THEN s
  ELSE IF s.waiter
  THEN [s EXCEPT !.waiter = FALSE, !.pushed = Append(@, ev), !.got = Append(@, ev)]
  ELSE [s EXCEPT !.buf = Append(@, ev), !.pushed = Append(@, ev)]

Complete(s) == [s EXCEPT !.done = TRUE, !.waiter = FALSE]

\* The harness asks for the next event.
StreamNext ==
  /\ ~stream.waiter
  /\ \/ /\ stream.buf # <<>>
        /\ stream' = [stream EXCEPT !.buf = Tail(@), !.got = Append(@, Head(stream.buf))]
     \/ /\ stream.buf = <<>> /\ ~stream.done
        /\ stream' = [stream EXCEPT !.waiter = TRUE]
  /\ UNCHANGED <<state, ws, sock, opened, lastSeen, pending, settled, monitor, attempt, timers,
                 tries>>

-----------------------------------------------------------------------------
(* reconnection.ts and attemptReconnect *)

isRetryable(code) == code \notin NON_RETRYABLE_CODES

\* Mutant of exhausted: one attempt too many.
ExhaustedLate(n) == MaxAttempts # 0 /\ n > MaxAttempts

exhausted(n) == MaxAttempts # 0 /\ n >= MaxAttempts

\* attemptReconnect: gives up, or arms one more timer.
attemptReconnect ==
  \/ /\ ~Enabled \/ exhausted(attempt)
     /\ state' = "disconnected"
     /\ stream' = Complete(stream)
     /\ UNCHANGED <<attempt, timers>>
  \/ /\ Enabled /\ ~exhausted(attempt)
     /\ state' = "reconnecting"
     /\ attempt' = attempt + 1
     /\ timers' = timers + 1
     /\ UNCHANGED stream

-----------------------------------------------------------------------------
(* connectInternal *)

connectInternal ==
  /\ opened < MaxSocks
  /\ opened' = opened + 1
  /\ ws' = opened + 1
  /\ link' = [link EXCEPT ![opened + 1] = "connecting"]
  /\ handled' = [handled EXCEPT ![opened + 1] = FALSE]
  /\ authTimer' = [authTimer EXCEPT ![opened + 1] = TRUE]
  /\ state' = "connecting"

connect ==
  /\ state = "disconnected"
  /\ stream' = createEventStream
  /\ connectInternal
  /\ tries' = 0
  /\ UNCHANGED <<lastSeen, pending, settled, monitor, attempt, timers>>

ReconnectTimer ==
  /\ timers > 0
  /\ timers' = timers - 1
  /\ \/ state = "reconnecting" /\ connectInternal /\ tries' = tries + 1
     \/ state # "reconnecting" /\ UNCHANGED <<state, ws, sock, opened, tries>>
  /\ UNCHANGED <<lastSeen, stream, pending, settled, monitor, attempt>>

\* ws.close(): no message is delivered any more, the close event comes later.
Shut(n) ==
  [link EXCEPT ![n] = IF @ \in {"connecting", "open"} THEN "closing" ELSE @]

disconnect ==
  /\ monitor' = FALSE
  /\ settled' = settled \cup pending /\ pending' = {}
  /\ link' = IF ws = None THEN link ELSE Shut(ws)
  /\ ws' = None
  /\ state' = "closed"
  /\ stream' = Complete(stream)
  /\ UNCHANGED <<handled, authTimer, opened, lastSeen, attempt, timers, tries>>

SocketOpen(n) ==
  /\ link[n] = "connecting"
  /\ link' = [link EXCEPT ![n] = "open"]
  /\ state' = "authenticating"
  /\ UNCHANGED <<handled, authTimer, ws, opened, lastSeen, stream, pending, settled, monitor, attempt, timers, tries>>

\* Mutant of AuthTimeout: only the caller is told.
AuthTimeoutQuiet(n) ==
  /\ authTimer[n]
  /\ authTimer' = [authTimer EXCEPT ![n] = FALSE]
  /\ UNCHANGED <<link, handled, state, ws, opened, lastSeen, stream, pending, settled, monitor, attempt, timers,
                 tries>>

AuthTimeout(n) ==
  /\ authTimer[n]
  /\ authTimer' = [authTimer EXCEPT ![n] = FALSE]
  /\ \/ /\ ~handled[n]
        /\ handled' = [handled EXCEPT ![n] = TRUE]
        /\ link' = Shut(n)
        /\ state' = "closed"
     \/ handled[n] /\ UNCHANGED <<state, link, handled>>
  /\ UNCHANGED <<ws, opened, lastSeen, stream, pending, settled, monitor, attempt, timers, tries>>

\* The first messages of a socket, until authHandled.
Authenticated(n) ==
  /\ link[n] = "open" /\ ~handled[n]
  /\ handled' = [handled EXCEPT ![n] = TRUE]
  /\ authTimer' = [authTimer EXCEPT ![n] = FALSE]
  /\ monitor' = TRUE
  /\ attempt' = 0 /\ tries' = 0
  /\ state' = "connected"
  /\ UNCHANGED <<link, ws, opened, lastSeen, stream, pending, settled, timers>>

\* An auth_error frame, or a first message that is not JSON (which leaves
\* authHandled unset).
AuthRejected(n) ==
  /\ link[n] = "open" /\ ~handled[n]
  /\ \E json \in BOOLEAN : handled' = [handled EXCEPT ![n] = json]
  /\ authTimer' = [authTimer EXCEPT ![n] = FALSE]
  /\ state' = "closed"
  /\ UNCHANGED <<link, ws, opened, lastSeen, stream, pending, settled, monitor, attempt, timers, tries>>

\* handleFrame: sequenced events (heartbeats among them re-arm the monitor).
EventFrame(n, seq) ==
  /\ link[n] = "open" /\ handled[n]
  /\ Len(stream.pushed) < MaxEvents
  /\ lastSeen' = seq
  /\ stream' = Push(stream, seq)
  /\ UNCHANGED <<state, ws, sock, opened, pending, settled, monitor, attempt, timers, tries>>

ResponseFrame(n, r) ==
  /\ link[n] = "open" /\ handled[n] /\ r \in pending
  /\ pending' = pending \ {r} /\ settled' = settled \cup {r}
  /\ UNCHANGED <<state, ws, sock, opened, lastSeen, stream, monitor, attempt, timers, tries>>

\* The close listener.
CloseAfterAuth(n, code) ==
  /\ link[n] \in {"connecting", "open", "closing"} /\ handled[n]
  /\ link' = [link EXCEPT ![n] = "closed"]
  /\ monitor' = FALSE
  /\ ws' = None
  /\ settled' = settled \cup pending /\ pending' = {}
  /\ \/ ~isRetryable(code) /\ state' = "closed" /\ stream' = Complete(stream)
        /\ UNCHANGED <<attempt, timers>>
     \/ isRetryable(code) /\ state # "closed" /\ attemptReconnect
     \/ isRetryable(code) /\ state = "closed" /\ UNCHANGED <<state, stream, attempt, timers>>
  /\ UNCHANGED <<handled, authTimer, opened, lastSeen, tries>>

CloseBeforeAuth(n, code) ==
  /\ link[n] \in {"connecting", "open", "closing"} /\ ~handled[n]
  /\ link' = [link EXCEPT ![n] = "closed"]
  /\ handled' = [handled EXCEPT ![n] = TRUE]
  /\ authTimer' = [authTimer EXCEPT ![n] = FALSE]
  /\ monitor' = FALSE
  /\ \/ /\ ~isRetryable(code)
        /\ state' = "closed"
        /\ UNCHANGED <<stream, pending, settled, attempt, timers>>
     \/ /\ isRetryable(code)
        /\ settled' = settled \cup pending /\ pending' = {}
        /\ attemptReconnect
  /\ UNCHANGED <<ws, opened, lastSeen, tries>>

\* Mutant of HeartbeatDead: reconnects without waiting for the close event.
DeadReconnectsAtOnce ==
  /\ monitor
  /\ monitor' = FALSE
  /\ link' = IF ws = None THEN link ELSE Shut(ws)
  /\ attemptReconnect
  /\ UNCHANGED <<handled, authTimer, ws, opened, lastSeen, pending, settled, tries>>

\* The heartbeat monitor's timer: handleConnectionDead.
HeartbeatDead ==
  /\ monitor
  /\ monitor' = FALSE
  /\ \/ ws # None /\ link' = Shut(ws) /\ UNCHANGED <<state, stream, attempt, timers>>
     \/ ws = None /\ attemptReconnect /\ UNCHANGED link
  /\ UNCHANGED <<handled, authTimer, ws, opened, lastSeen, pending, settled, tries>>

-----------------------------------------------------------------------------
(* Requests: sendRequest and request-tracker.ts *)

sendRequest(r) ==
  /\ state = "connected" /\ ws # None
  /\ r \notin pending \cup settled
  /\ pending' = pending \cup {r}
  /\ UNCHANGED <<state, ws, sock, opened, lastSeen, stream, settled, monitor, attempt, timers, tries>>

RequestTimeout(r) ==
  /\ r \in pending
  /\ pending' = pending \ {r} /\ settled' = settled \cup {r}
  /\ UNCHANGED <<state, ws, sock, opened, lastSeen, stream, monitor, attempt, timers, tries>>

-----------------------------------------------------------------------------
(* Specification *)

Closes(n) == \E code \in Codes : CloseAfterAuth(n, code) \/ CloseBeforeAuth(n, code)

Next ==
  \/ connect \/ disconnect \/ StreamNext \/ ReconnectTimer \/ HeartbeatDead
  \/ \E n \in Socks :
       \/ SocketOpen(n) \/ AuthTimeout(n) \/ Authenticated(n) \/ AuthRejected(n) \/ Closes(n)
       \/ \E seq \in 1..MaxEvents : EventFrame(n, seq)
       \/ \E r \in Reqs : ResponseFrame(n, r)
  \/ \E r \in Reqs : sendRequest(r) \/ RequestTimeout(r)

\* Timers fire and a socket that was closed reports it.  Nothing is assumed
\* of the signet or of the network.
Fairness ==
  /\ WF_vars(ReconnectTimer)
  /\ \A n \in Socks : WF_vars(AuthTimeout(n)) /\ WF_vars(link[n] = "closing" /\ Closes(n))
  /\ \A r \in Reqs : WF_vars(RequestTimeout(r))

Spec == Init /\ [][Next]_vars
FairSpec == Spec /\ Fairness

-----------------------------------------------------------------------------
(* Properties *)

\* The shape of the handler's state, without and with its stream.
HandlerTypes ==
  /\ state \in States /\ ws \in Socks \cup {None}
  /\ link \in [Socks -> Links]
  /\ handled \in [Socks -> BOOLEAN] /\ authTimer \in [Socks -> BOOLEAN]
  /\ opened \in 0..MaxSocks /\ lastSeen \in Nat \cup {None}
  /\ pending \subseteq Reqs /\ settled \subseteq Reqs
  /\ monitor \in BOOLEAN /\ attempt \in Nat /\ timers \in Nat /\ tries \in Nat

SdkTypeOK == HandlerTypes /\ stream \in Stream

\* The handler never holds two live sockets, whatever heartbeats, closes and
\* reconnection timers overlap: a second one would authenticate the same
\* credential twice and split the sequence between them.
AtMostOneLiveSocket ==
  \A m, n \in Socks :
    link[m] \in {"connecting", "open"} /\ link[n] \in {"connecting", "open"} => m = n

\* Requests are tracked only while there is a socket they could be answered
\* on: every way of losing it rejects them.
PendingHasSocket == pending # {} => ws # None

\* The stream hands over what was pushed, in order, without loss, and a
\* waiting iterator is never left behind by an event or by the end.
StreamConsistent ==
  /\ stream.got \o stream.buf = stream.pushed
  /\ stream.waiter => stream.buf = <<>> /\ ~stream.done

\* Between two successful authentications at most maxAttempts reconnections
\* are tried.
BoundedRetries == MaxAttempts # 0 => tries <= MaxAttempts

\* connecting and authenticating end, even when the signet never answers.
AuthResolves ==
  state \in {"connecting", "authenticating"} ~> state \notin {"connecting", "authenticating"}

\* Why there is one live socket: only the latest can be unfinished, none is
\* when a new one may be created, and the live one is the one in ws.
SocketInv ==
  /\ \A n \in Socks : link[n] # "none" => n <= opened
  /\ \A n \in Socks : link[n] \in {"connecting", "open", "closing"} => n = opened
  /\ state \in {"disconnected", "reconnecting"} =>
       \A n \in Socks : link[n] \in {"none", "closed"}
  /\ \A n \in Socks : link[n] \in {"connecting", "open"} => ws = n
  /\ monitor => ws # None

\* The sockets, the handler's state and the requests agree whatever heartbeats,
\* closes and reconnection timers overlap: one live socket, and requests only
\* while there is one (handler.ts).
SocketsConsistent == HandlerTypes /\ SocketInv /\ AtMostOneLiveSocket /\ PendingHasSocket

\* The event stream survives reconnections without loss or a forgotten waiter,
\* and reconnections are given up when they should be (event-stream.ts,
\* reconnection.ts).
StreamAndRetries == SdkTypeOK /\ StreamConsistent /\ BoundedRetries

=============================================================================
