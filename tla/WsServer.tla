------------------------------ MODULE WsServer ------------------------------
(***************************************************************************)
(* The WebSocket transport of the signet (packages/ws): connections,       *)
(* in-band authentication with replay, sequenced broadcast, the cached     *)
(* credential snapshot of each connection and its invalidation, requests   *)
(* with timeouts, server heartbeats, backpressure and graceful stop.       *)
(*                                                                         *)
(* One JavaScript thread runs everything, so a step is the code between    *)
(* two awaits.  A handler suspended at an await is a record in "tasks"     *)
(* that holds the locals it will use when it resumes; tasks resume in any  *)
(* order.  A lookup reads the credential store when it is called.  A loop  *)
(* that sends to several connections runs without interleaving: while      *)
(* "loop" is not None no other action is enabled.                          *)
(***************************************************************************)
EXTENDS Naturals, Sequences, FiniteSets

CONSTANTS
  Conns,          \* sockets; each is opened at most once
  Creds,          \* credential ids
  Events,         \* payloads handed to broadcast
  Reqs,           \* request ids (crypto.randomUUID in the SDK: never reused)
  ReqKinds,       \* subset of {"send", "update", "bad"}
  None,           \* the null of the code
  Cap,            \* config.replayBufferSize
  SoftLimit,      \* config.sendBufferSoftLimit
  HardLimit,      \* config.sendBufferHardLimit
  VisibleAt,      \* VisibleAt[v]: events version v of a policy projects to non-null
  MaxVer,         \* bound: mutations of a credential
  MaxSeq,         \* bound: sequence numbers assigned per credential
  MaxQueue,       \* bound: events queued behind an invalidation
  MaxAuth,        \* bound: auth frames a harness sends on one connection
  MayBlock,       \* whether the kernel send buffer can fill up
  MayStop,        \* whether stop() is called
  SlowLookups,    \* FALSE: connection lookups are answered from memory (start.ts)
  MayFail         \* whether a credential lookup can return an error

ASSUME CapAssumption == Cap \in Nat \ {0}
ASSUME LimitAssumption ==
  SoftLimit \in Nat \ {0} /\ HardLimit \in Nat \ {0} /\ SoftLimit < HardLimit
ASSUME NoneAssumption == None \notin Creds \cup Nat
ASSUME BoundAssumption ==
  /\ MaxVer \in Nat /\ MaxSeq \in Nat /\ MaxQueue \in Nat /\ MaxAuth \in Nat
  /\ MayBlock \in BOOLEAN /\ MayStop \in BOOLEAN /\ SlowLookups \in BOOLEAN
  /\ MayFail \in BOOLEAN
  /\ VisibleAt \in [0..MaxVer -> SUBSET Events]
  /\ ReqKinds \subseteq {"send", "update", "bad"}

VARIABLES
  store,      \* external: the credential manager's record, [ver, status]
  server,     \* serverState
  conn,       \* ws.data and the socket of each connection
  registry,   \* ConnectionRegistry: the registered connections
  replay,     \* credentialStates: [nextSeq, buf] per credential
  pend,       \* pendingInvalidations: [refs, gen, queue] per credential
  invGen,     \* invalidationGen
  tasks,      \* handlers suspended at an await
  loop,       \* the synchronous send loop being run, or None
  wire,       \* frames handed to each socket, in order
  resume      \* history: what each connection was promised when it resumed

vars == <<store, server, conn, registry, replay, pend, invGen, tasks, loop, wire, resume>>

-----------------------------------------------------------------------------
(* Data *)

Statuses == {"active", "revoked", "expired", "pending"}
Vers == 0..MaxVer
Snapshot == [ver : Vers, status : Statuses]
ASSUME SnapshotAssumption == None \notin Snapshot
Phases == {"none", "authenticating", "active", "draining", "closed"}
Signals == {"authenticated", "heartbeat", "recovery", "shutdown"}

\* pver: version of the snapshot the event was projected with; bver: version
\* of the stored credential when the event was broadcast (both history).
Frame == [seq : Nat, ev : Events \cup Signals, pver : Nat, bver : Nat]
Queued == [ev : Events, bver : Nat]

TaskKinds == {"auth", "fingerprint", "heartbeat", "invalidate", "request", "handler",
              "refresh", "drain", "stopping"}

Lookup(k) == IF MayFail THEN {store[k], None} ELSE {store[k]}

\* lookupByToken followed by the status check of handleAuth.
handleAuth(k) ==
  IF store[k].status = "active" THEN Lookup(k) ELSE {None}

\* ws.data as createConnectionState() builds it, before the socket opens.
createConnectionState ==
  [phase |-> "none", sock |-> "none", cred |-> None, rec |-> None, auths |-> 0,
   authTimer |-> FALSE, hb |-> FALSE, strayHb |-> FALSE, inflight |-> {}, asked |-> {},
   resp |-> <<>>, blocked |-> FALSE, depth |-> 0, notified |-> FALSE]

NoPending == [refs |-> 0, gen |-> 0, queue |-> <<>>]
FreshReplay == [nextSeq |-> 1, buf |-> <<>>]

Init ==
  /\ store = [k \in Creds |-> [ver |-> 0, status |-> "active"]]
  /\ server = "idle"
  /\ conn = [c \in Conns |-> createConnectionState]
  /\ registry = {}
  /\ replay = [k \in Creds |-> FreshReplay]
  /\ pend = [k \in Creds |-> NoPending]
  /\ invGen = 0
  /\ tasks = {}
  /\ loop = None
  /\ wire = [c \in Conns |-> <<>>]
  /\ resume = [c \in Conns |-> None]

-----------------------------------------------------------------------------
(* connection-state.ts, connection-registry.ts, backpressure.ts *)

VALID_TRANSITIONS ==
  {<<"authenticating", "active">>, <<"authenticating", "closed">>,
   <<"active", "draining">>, <<"active", "closed">>, <<"draining", "closed">>}

\* Mutant of transition: any phase change is accepted.
UncheckedTransition(phase, to) == to

transition(phase, to) == IF <<phase, to>> \in VALID_TRANSITIONS THEN to ELSE phase

getByCredentialId(k) == {c \in registry : conn[c].cred = k}

\* ws.close: the close event, and with it cleanupConnection, comes later.
Close(d) == [d EXCEPT !.sock = IF @ = "open" THEN "closing" ELSE @]
CloseIf(cond, d) == IF cond THEN Close(d) ELSE d

stopHeartbeat(d) == [d EXCEPT !.hb = FALSE]

cleanupConnection(d) ==
  [d EXCEPT !.authTimer = FALSE, !.hb = FALSE, !.inflight = {}, !.phase = "closed",
            !.sock = "closed"]

\* n calls of ws.send: -1 from the socket adds one to the depth.  Only
\* comparisons with the limits matter, so the depth saturates at HardLimit.
SendMany(d, n) ==
  IF d.blocked /\ d.sock = "open"
  THEN [d EXCEPT !.depth = IF @ + n < HardLimit THEN @ + n ELSE HardLimit]
  ELSE d

sendJson(d) == SendMany(d, 1)

BackpressureState(d) ==
  IF d.depth >= HardLimit THEN "exceeded" ELSE IF d.depth >= SoftLimit THEN "warning" ELSE "ok"

\* The backpressure checks that follow the send of a sequenced frame.
CheckBackpressure(d) ==
  IF BackpressureState(d) = "warning" /\ ~d.notified
  THEN LET warned == sendJson([d EXCEPT !.notified = TRUE])
       IN  CloseIf(BackpressureState(warned) = "exceeded", warned)
  ELSE CloseIf(BackpressureState(d) = "exceeded", d)

\* What reaches the socket of connection c: nothing once it is closing.
OnWire(c, frames) ==
  wire' = [wire EXCEPT ![c] = IF conn[c].sock = "open" THEN @ \o frames ELSE @]

Signal(ev) == [seq |-> 0, ev |-> ev, pver |-> 0, bver |-> 0]

-----------------------------------------------------------------------------
(* event-broadcaster.ts and replay-buffer.ts (see ReplayBuffer for the ring) *)

Push(buf, frame) == Append(IF Len(buf) < Cap THEN buf ELSE Tail(buf), frame)

sequenceEvent(r, ev, pver, bver) ==
  [nextSeq |-> r.nextSeq + 1,
   buf |-> Push(r.buf, [seq |-> r.nextSeq, ev |-> ev, pver |-> pver, bver |-> bver])]

\* sendSequenced on a connection whose record is about to become d.  Past the
\* bound MaxSeq frames are still sent but no longer numbered or recorded.
SendSequenced(c, d, before, ev, pver, bver) ==
  LET k == d.cred
      frame == [seq |-> replay[k].nextSeq, ev |-> ev, pver |-> pver, bver |-> bver]
  IN  \/ /\ replay[k].nextSeq <= MaxSeq
         /\ replay' = [replay EXCEPT ![k] = sequenceEvent(@, ev, pver, bver)]
         /\ conn' = [conn EXCEPT ![c] = CheckBackpressure(sendJson(d))]
         /\ OnWire(c, Append(before, frame))
      \/ /\ replay[k].nextSeq > MaxSeq
         /\ conn' = [conn EXCEPT ![c] = CheckBackpressure(sendJson(d))]
         /\ OnWire(c, before)
         /\ UNCHANGED replay

\* Mutant of NeedsRecovery: compares the oldest frame with an off-by-one.
LenientRecovery(r, last) == r.buf # <<>> /\ r.buf[1].seq > last + 2

\* Which frames a resuming harness is owed, and whether they are all there.
NeedsRecovery(r, last) == r.buf # <<>> /\ r.buf[1].seq > last + 1

\* buffer.itemsSince(f => f.seq > last): the numbers rise along the buffer, so
\* what the filter keeps is its end, from the first frame after last.
ItemsSince(r, last) ==
  LET kept == {i \in DOMAIN r.buf : r.buf[i].seq > last}
  IN  IF kept = {} THEN <<>>
      ELSE SubSeq(r.buf, CHOOSE i \in kept : \A j \in kept : i <= j, Len(r.buf))

-----------------------------------------------------------------------------
(* Sockets *)

Open(c) ==
  /\ server \in {"listening", "draining"}
  /\ conn[c].phase = "none"
  /\ conn' = [conn EXCEPT ![c] =
       IF server = "draining"
       THEN [@ EXCEPT !.phase = "authenticating", !.sock = "closing"]
       ELSE [@ EXCEPT !.phase = "authenticating", !.sock = "open", !.authTimer = TRUE]]
  /\ UNCHANGED <<store, server, registry, replay, pend, invGen, tasks, loop, wire, resume>>

\* The close event: the harness went away, or the server called ws.close.
CloseEvent(c) ==
  /\ conn[c].sock \in {"open", "closing"}
  /\ conn' = [conn EXCEPT ![c] = cleanupConnection(@)]
  /\ registry' = registry \ {c}
  /\ UNCHANGED <<store, server, replay, pend, invGen, tasks, loop, wire, resume>>

AuthTimeout(c) ==
  /\ conn[c].authTimer
  /\ conn' = [conn EXCEPT ![c] =
       IF @.phase = "authenticating"
       THEN Close(sendJson([@ EXCEPT !.authTimer = FALSE]))
       ELSE [@ EXCEPT !.authTimer = FALSE]]
  /\ UNCHANGED <<store, server, registry, replay, pend, invGen, tasks, loop, wire, resume>>

\* A frame the message handler refuses: invalid JSON or rate limit exceeded in
\* any live phase, an unparsable auth frame while authenticating.
RejectedFrame(c) ==
  /\ conn[c].sock = "open"
  /\ \/ conn' = [conn EXCEPT ![c] = Close(@)]
     \/ /\ conn[c].phase = "authenticating"
        /\ conn' = [conn EXCEPT ![c] = Close(sendJson([@ EXCEPT !.authTimer = FALSE]))]
  /\ UNCHANGED <<store, server, registry, replay, pend, invGen, tasks, loop, wire, resume>>

\* The kernel buffer fills up; Bun's drain event resets the tracker.
Block(c) ==
  /\ MayBlock /\ conn[c].sock = "open" /\ ~conn[c].blocked
  /\ conn' = [conn EXCEPT ![c].blocked = TRUE]
  /\ UNCHANGED <<store, server, registry, replay, pend, invGen, tasks, loop, wire, resume>>

Drain(c) ==
  /\ conn[c].blocked /\ conn[c].sock = "open"
  /\ conn' = [conn EXCEPT ![c].blocked = FALSE, ![c].depth = 0, ![c].notified = FALSE]
  /\ UNCHANGED <<store, server, registry, replay, pend, invGen, tasks, loop, wire, resume>>

-----------------------------------------------------------------------------
(* Authentication: handleAuthFrame, suspended first at the token lookup and  *)
(* then at the fingerprint of the token.                                     *)

AuthFrame(c, k, last) ==
  /\ conn[c].sock = "open" /\ conn[c].phase = "authenticating"
  /\ conn[c].auths < MaxAuth
  /\ conn' = [conn EXCEPT ![c].authTimer = FALSE, ![c].auths = @ + 1]
  /\ \E snap \in handleAuth(k) :
       tasks' = tasks \cup {[kind |-> "auth", conn |-> c, n |-> conn[c].auths, cred |-> k,
                             last |-> last, snap |-> snap]}
  /\ UNCHANGED <<store, server, registry, replay, pend, invGen, loop, wire, resume>>

AuthRefused(t) ==
  /\ t.kind = "auth" /\ t.snap = None
  /\ tasks' = tasks \ {t}
  /\ conn' = [conn EXCEPT ![t.conn] = Close(sendJson(@))]
  /\ UNCHANGED <<store, server, registry, replay, pend, invGen, loop, wire, resume>>

AuthAccepted(t) ==
  LET c == t.conn
      r == replay[t.cred]
      lost == t.last # None /\ NeedsRecovery(r, t.last)
      owed == IF t.last = None \/ lost THEN <<>> ELSE ItemsSince(r, t.last)
  IN  /\ t.kind = "auth" /\ t.snap # None
      /\ conn' = [conn EXCEPT ![c].rec = t.snap, ![c].cred = t.cred,
                              ![c].phase = transition(@, "active")]
      /\ registry' = registry \cup {c}
      /\ tasks' = (tasks \ {t}) \cup
           {[kind |-> "fingerprint", conn |-> c, n |-> t.n, last |-> t.last,
             upto |-> r.nextSeq - 1, lost |-> lost, owed |-> owed]}
      /\ UNCHANGED <<store, server, replay, pend, invGen, loop, wire, resume>>

\* Mutant of Fingerprinted: the buffer is read after the fingerprint.
LateReplay(t) ==
  LET c == t.conn
      owed == IF t.last = None THEN <<>> ELSE ItemsSince(replay[conn[c].cred], t.last)
  IN  /\ t.kind = "fingerprint"
      /\ tasks' = tasks \ {t}
      /\ resume' = [resume EXCEPT ![c] = [from |-> t.last, upto |-> t.upto, lost |-> t.lost]]
      /\ conn' = [conn EXCEPT ![c].hb = TRUE]
      /\ OnWire(c, <<Signal("authenticated")>> \o owed)
      /\ UNCHANGED <<store, server, registry, replay, pend, invGen, loop>>

\* The authenticated frame, then the recovery event or the replayed frames,
\* then startHeartbeat, which drops the handle of an interval already running.
Fingerprinted(t) ==
  LET c == t.conn
      d == [sendJson(conn[c]) EXCEPT !.hb = TRUE, !.strayHb = @ \/ conn[c].hb]
      hello == <<Signal("authenticated")>>
  IN  /\ t.kind = "fingerprint"
      /\ tasks' = tasks \ {t}
      /\ resume' = [resume EXCEPT ![c] = [from |-> t.last, upto |-> t.upto, lost |-> t.lost]]
      /\ \/ /\ t.lost
            /\ SendSequenced(c, d, hello, "recovery", 0, 0)
         \/ /\ ~t.lost
            /\ conn' = [conn EXCEPT ![c] = SendMany(d, Len(t.owed))]
            /\ OnWire(c, hello \o t.owed)
            /\ UNCHANGED replay
      /\ UNCHANGED <<store, server, registry, pend, invGen, loop>>

-----------------------------------------------------------------------------
(* The cached snapshot: heartbeat and request refreshes, invalidation.       *)

\* ws.data.credentialRecord = fresh, and the closes that follow.
AdoptSnapshot(d, snap) ==
  IF snap = None THEN stopHeartbeat(Close(d))
  ELSE IF snap.status = "active" THEN [d EXCEPT !.rec = snap]
  ELSE stopHeartbeat(Close([d EXCEPT !.rec = snap]))

Healthy(snap) == snap # None /\ snap.status = "active"

HeartbeatTick(c) ==
  /\ conn[c].hb \/ conn[c].strayHb
  /\ conn[c].phase = "active"
  /\ \/ \* no inbound frame for missedHeartbeatsBeforeDead intervals
        /\ conn' = [conn EXCEPT ![c] = Close(@)]
        /\ UNCHANGED tasks
     \/ /\ \A t \in tasks : t.kind = "heartbeat" => t.conn # c
        /\ \E snap \in Lookup(conn[c].cred) :
             tasks' = tasks \cup {[kind |-> "heartbeat", conn |-> c, snap |-> snap]}
        /\ UNCHANGED conn
  /\ UNCHANGED <<store, server, registry, replay, pend, invGen, loop, wire, resume>>

HeartbeatLookedUp(t) ==
  LET d == AdoptSnapshot(conn[t.conn], t.snap)
  IN  /\ t.kind = "heartbeat"
      /\ tasks' = tasks \ {t}
      /\ \/ /\ Healthy(t.snap)
            /\ SendSequenced(t.conn, d, <<>>, "heartbeat", t.snap.ver, t.snap.ver)
         \/ /\ ~Healthy(t.snap)
            /\ conn' = [conn EXCEPT ![t.conn] = d]
            /\ UNCHANGED <<replay, wire>>
      /\ UNCHANGED <<store, server, registry, pend, invGen, loop, resume>>

\* The synchronous part of invalidateCredential, called by the credential
\* manager in the step that changes the record.
Generation(p, myGen) == [p EXCEPT !.refs = @ + 1, !.gen = myGen]

\* A change of the credential, by a request or by admin, HTTP, MCP or a sweep.
Mutate(k) ==
  \E status \in IF store[k].status = "active" THEN Statuses ELSE {"revoked", "expired"} :
    LET fresh == [ver |-> store[k].ver + 1, status |-> status]
    IN  /\ store[k].ver < MaxVer
        /\ store' = [store EXCEPT ![k] = fresh]
        /\ invGen' = invGen + 1
        /\ pend' = [pend EXCEPT ![k] = Generation(@, invGen + 1)]
        /\ \E snap \in (IF MayFail THEN {fresh, None} ELSE {fresh}) :
             tasks' = tasks \cup {[kind |-> "invalidate", cred |-> k, gen |-> invGen + 1,
                                   snap |-> snap]}
        /\ UNCHANGED <<server, conn, registry, replay, loop, wire, resume>>

\* Mutant of Wins: every lookup writes the cache.
EveryoneWins(t) == TRUE

\* Only the latest invalidation of the credential writes the cache.
Wins(t) == pend[t.cred].gen = t.gen

\* phase, snapshot, status and projection of a registered connection.  The
\* sends of one event change none of them, so the receivers are known when
\* its loop starts.
Receives(d, ev) ==
  /\ d.phase = "active" /\ d.rec # None
  /\ d.rec.status = "active"
  /\ ev \in VisibleAt[d.rec.ver]

Receivers(cs, k, ev) == {c \in getByCredentialId(k) : Receives(cs[c], ev)}

\* Mutant of Release: a lookup that lost returns before the finally block.
WinnerReleases(p, t) ==
  IF p.gen # t.gen THEN p ELSE IF p.refs = 1 THEN NoPending ELSE [p EXCEPT !.refs = @ - 1]

\* The finally block: every lookup, winner or not, gives its reference back.
Release(p, t) == IF p.refs = 1 THEN NoPending ELSE [p EXCEPT !.refs = @ - 1]

Invalidated(t) ==
  LET k == t.cred
      after == Release(pend[k], t)
      queue == pend[k].queue
      adopted == [c \in Conns |->
        IF Wins(t) /\ c \in getByCredentialId(k) /\ conn[c].phase = "active"
        THEN AdoptSnapshot(conn[c], t.snap) ELSE conn[c]]
  IN  /\ t.kind = "invalidate"
      /\ tasks' = tasks \ {t}
      /\ conn' = adopted
      /\ pend' = [pend EXCEPT ![k] = after]
      /\ loop' = IF after.refs = 0 /\ queue # <<>>
                 THEN [kind |-> "events", cred |-> k, queue |-> queue,
                       left |-> Receivers(adopted, k, Head(queue).ev)]
                 ELSE None
      /\ UNCHANGED <<store, server, registry, replay, invGen, wire, resume>>

-----------------------------------------------------------------------------
(* broadcastToCredential *)

\* An event nobody receives changes nothing: it is neither sequenced nor kept.
Broadcast(k, ev) ==
  LET event == [ev |-> ev, bver |-> store[k].ver]
  IN  /\ replay[k].nextSeq <= MaxSeq
      /\ \/ /\ pend[k].refs > 0 /\ Len(pend[k].queue) < MaxQueue
            /\ pend' = [pend EXCEPT ![k].queue = Append(@, event)]
            /\ UNCHANGED loop
         \/ /\ pend[k].refs = 0 /\ Receivers(conn, k, ev) # {}
            /\ loop' = [kind |-> "events", cred |-> k, queue |-> <<event>>,
                        left |-> Receivers(conn, k, ev)]
            /\ UNCHANGED pend
      /\ UNCHANGED <<store, server, conn, registry, replay, invGen, tasks, wire, resume>>

SendLoopStep ==
  LET event == Head(loop.queue)
      rest == Tail(loop.queue)
  IN  /\ loop # None /\ loop.kind = "events"
      /\ \/ /\ loop.left = {}
            /\ loop' = IF rest = <<>> THEN None
                       ELSE [loop EXCEPT !.queue = rest,
                                         !.left = Receivers(conn, loop.cred, Head(rest).ev)]
            /\ UNCHANGED <<conn, replay, wire>>
         \/ \E c \in loop.left :
              /\ loop' = [loop EXCEPT !.left = @ \ {c}]
              /\ SendSequenced(c, conn[c], <<>>, event.ev, conn[c].rec.ver, event.bver)
      /\ UNCHANGED <<store, server, registry, pend, invGen, tasks, resume>>

-----------------------------------------------------------------------------
(* handleRequestFrame: suspended at the lookup, then in the request handler, *)
(* then (update_scopes and reveal_content) at the refresh lookup.            *)

Respond(d, r) ==
  [sendJson(d) EXCEPT !.resp = IF d.sock = "open" THEN Append(@, r) ELSE @]

Request(c, r, kind) ==
  /\ conn[c].sock = "open" /\ conn[c].phase = "active" /\ r \notin conn[c].asked
  /\ conn' = [conn EXCEPT ![c].asked = @ \cup {r}]
  /\ \E snap \in Lookup(conn[c].cred) :
       tasks' = tasks \cup {[kind |-> "request", conn |-> c, req |-> r, of |-> kind,
                             snap |-> snap]}
  /\ UNCHANGED <<store, server, registry, replay, pend, invGen, loop, wire, resume>>

\* A lookup that failed or found a credential that is not active.
RequestRefused(t) ==
  /\ t.kind = "request" /\ ~Healthy(t.snap)
  /\ tasks' = tasks \ {t}
  /\ conn' = [conn EXCEPT ![t.conn] = AdoptSnapshot(@, t.snap)]
  /\ UNCHANGED <<store, server, registry, replay, pend, invGen, loop, wire, resume>>

\* A frame that is no harness request: answered if it carries a request id.
RequestMalformed(t) ==
  /\ t.kind = "request" /\ Healthy(t.snap) /\ t.of = "bad"
  /\ tasks' = tasks \ {t}
  /\ \E hasId \in BOOLEAN :
       conn' = [conn EXCEPT ![t.conn] =
         LET d == AdoptSnapshot(@, t.snap) IN IF hasId THEN Respond(d, t.req) ELSE Close(d)]
  /\ UNCHANGED <<store, server, registry, replay, pend, invGen, loop, wire, resume>>

\* The entries of ws.data.inFlightRequests.
SetInflight(d, r) == [d EXCEPT !.inflight = @ \cup {r}]
DeleteInflight(d, r) == [d EXCEPT !.inflight = @ \ {r}]

\* The timer and the in-flight entry are set and the request handler starts;
\* the phase is not read again.  What an update changes is a Mutate step.
RequestRouted(t) ==
  /\ t.kind = "request" /\ Healthy(t.snap) /\ t.of # "bad"
  /\ conn' = [conn EXCEPT ![t.conn] =
       SetInflight(AdoptSnapshot(@, t.snap), t.req)]
  /\ tasks' = (tasks \ {t}) \cup
       {[kind |-> "handler", conn |-> t.conn, req |-> t.req, of |-> t.of]}
  /\ UNCHANGED <<store, server, registry, replay, pend, invGen, loop, wire, resume>>

\* The in-flight entry decides who answers: the handler or the timer.
Answer(d, r) ==
  IF r \in d.inflight THEN Respond(DeleteInflight(d, r), r) ELSE d

HandlerDone(t) ==
  /\ t.kind = "handler"
  /\ \/ /\ t.of = "update"
        /\ \E snap \in Lookup(conn[t.conn].cred) :
             tasks' = (tasks \ {t}) \cup {[kind |-> "refresh", conn |-> t.conn, req |-> t.req,
                                           snap |-> snap]}
        /\ UNCHANGED conn
     \/ \* no refresh is due, or the handler threw
        /\ tasks' = tasks \ {t}
        /\ conn' = [conn EXCEPT ![t.conn] = Answer(@, t.req)]
  /\ UNCHANGED <<store, server, registry, replay, pend, invGen, loop, wire, resume>>

Refreshed(t) ==
  /\ t.kind = "refresh"
  /\ tasks' = tasks \ {t}
  /\ conn' = [conn EXCEPT ![t.conn] =
       Answer(IF t.snap = None THEN @ ELSE [@ EXCEPT !.rec = t.snap], t.req)]
  /\ UNCHANGED <<store, server, registry, replay, pend, invGen, loop, wire, resume>>

RequestTimeout(c, r) ==
  /\ r \in conn[c].inflight
  /\ conn' = [conn EXCEPT ![c] = Respond(DeleteInflight(@, r), r)]
  /\ UNCHANGED <<store, server, registry, replay, pend, invGen, tasks, loop, wire, resume>>

-----------------------------------------------------------------------------
(* start and stop *)

Start ==
  /\ server = "idle"
  /\ server' = "listening"
  /\ UNCHANGED <<store, conn, registry, replay, pend, invGen, tasks, loop, wire, resume>>

Stop ==
  /\ server = "listening" /\ MayStop
  /\ server' = "draining"
  /\ loop' = [kind |-> "shutdown", left |-> registry]
  /\ tasks' = tasks \cup {[kind |-> "drain", expired |-> FALSE]}
  /\ UNCHANGED <<store, conn, registry, replay, pend, invGen, wire, resume>>

\* One round of the loop that announces the shutdown.
ShutdownLoopStep ==
  /\ loop # None /\ loop.kind = "shutdown"
  /\ \/ /\ loop.left = {}
        /\ loop' = None
        /\ UNCHANGED <<conn, replay, wire>>
     \/ \E c \in loop.left :
          /\ loop' = [loop EXCEPT !.left = @ \ {c}]
          /\ \/ /\ conn[c].phase = "active"
                /\ SendSequenced(c, [conn[c] EXCEPT !.phase = transition(@, "draining")], <<>>,
                                 "shutdown", 0, 0)
             \/ /\ conn[c].phase # "active"
                /\ UNCHANGED <<conn, replay, wire>>
  /\ UNCHANGED <<store, server, registry, pend, invGen, tasks, resume>>

DrainDeadline(t) ==
  /\ t.kind = "drain" /\ ~t.expired
  /\ tasks' = (tasks \ {t}) \cup {[t EXCEPT !.expired = TRUE]}
  /\ UNCHANGED <<store, server, conn, registry, replay, pend, invGen, loop, wire, resume>>

\* Mutant of DrainOver: the deadline cancels the wait instead of ending it.
NeverLate(t) == ~t.expired /\ \A c \in registry : conn[c].inflight = {}

\* The deadline, or checkInflight finding no entry on a registered connection.
DrainOver(t) == t.expired \/ \A c \in registry : conn[c].inflight = {}

DrainDone(t) ==
  /\ t.kind = "drain" /\ DrainOver(t)
  /\ conn' = [c \in Conns |-> CloseIf(c \in registry, conn[c])]
  /\ tasks' = (tasks \ {t}) \cup {[kind |-> "stopping", left |-> registry]}
  /\ UNCHANGED <<store, server, registry, replay, pend, invGen, loop, wire, resume>>

FinishStop(t) ==
  /\ t.kind = "stopping"
  /\ tasks' = tasks \ {t}
  /\ conn' = [c \in Conns |-> IF c \in t.left THEN cleanupConnection(conn[c]) ELSE conn[c]]
  /\ registry' = registry \ t.left
  /\ replay' = [k \in Creds |-> FreshReplay]
  /\ server' = "stopped"
  /\ UNCHANGED <<store, pend, invGen, loop, wire, resume>>

-----------------------------------------------------------------------------
(* Specification *)

\* What a harness can claim to have seen of a credential's sequence.
LastSeen(k) ==
  LET Seen(c) == {wire[c][i].seq : i \in DOMAIN wire[c]}
  IN  {None} \cup (UNION {Seen(c) : c \in {c \in Conns : conn[c].cred = k}} \ {0})

Resumes(t) ==
  \/ AuthRefused(t) \/ AuthAccepted(t) \/ Fingerprinted(t)
  \/ HeartbeatLookedUp(t) \/ Invalidated(t)
  \/ RequestRefused(t) \/ RequestMalformed(t) \/ RequestRouted(t) \/ Refreshed(t)
  \/ DrainDeadline(t) \/ DrainDone(t) \/ FinishStop(t)

Running == loop = None /\ server # "stopped"

\* A lookup answered from memory resumes its handler before the event loop
\* turns to anything else.
LookupOut == ~SlowLookups /\ \E t \in tasks : t.kind \in {"auth", "heartbeat", "request", "refresh"}
Idle == Running /\ ~LookupOut
Ready(t) == Running /\ (LookupOut => t.kind \in {"auth", "heartbeat", "request", "refresh"})

SocketStep(c) ==
  \/ Open(c) \/ CloseEvent(c) \/ AuthTimeout(c) \/ RejectedFrame(c)
  \/ Block(c) \/ Drain(c) \/ HeartbeatTick(c)
  \/ \E k \in Creds : \E last \in LastSeen(k) : AuthFrame(c, k, last)
  \/ \E r \in Reqs : RequestTimeout(c, r) \/ \E kind \in ReqKinds : Request(c, r, kind)

CredStep(k) == Mutate(k) \/ \E ev \in Events : Broadcast(k, ev)

Next ==
  \/ SendLoopStep \/ ShutdownLoopStep
  \/ Idle /\ (Start \/ Stop)
  \/ Idle /\ \E c \in Conns : SocketStep(c)
  \/ Idle /\ \E k \in Creds : CredStep(k)
  \/ \E t \in tasks : Ready(t) /\ (Resumes(t) \/ HandlerDone(t))

\* The event loop runs every ready continuation and every timer.  An
\* invalidation is not put off for ever by the lookups that others await, which
\* are answered first when they come from memory: its fairness is strong.
\* Nothing is assumed of the harness, of the request handler or of the send
\* buffer.
Fairness ==
  /\ WF_vars(SendLoopStep) /\ WF_vars(ShutdownLoopStep)
  /\ \A kind \in TaskKinds \ {"heartbeat", "handler", "invalidate"} :
       WF_vars(\E t \in tasks : t.kind = kind /\ Ready(t) /\ Resumes(t))
  /\ SF_vars(\E t \in tasks : t.kind = "invalidate" /\ Ready(t) /\ Resumes(t))
  /\ \A c \in Conns :
       /\ WF_vars(Idle /\ conn[c].sock = "closing" /\ CloseEvent(c))
       /\ WF_vars(Idle /\ AuthTimeout(c))
       /\ WF_vars(Idle /\ HeartbeatTick(c))
       /\ WF_vars(\E t \in tasks : /\ t.kind = "heartbeat" /\ t.conn = c
                               /\ Ready(t) /\ Resumes(t))
       /\ \A r \in Reqs : WF_vars(Idle /\ RequestTimeout(c, r))

Spec == Init /\ [][Next]_vars
FairSpec == Spec /\ Fairness
-----------------------------------------------------------------------------
(* Types *)

MaybeSnapshot == Snapshot \cup {None}

Task ==
  [kind : {"auth"}, conn : Conns, n : Nat, cred : Creds, last : Nat \cup {None},
   snap : MaybeSnapshot]
  \cup [kind : {"fingerprint"}, conn : Conns, n : Nat, last : Nat \cup {None}, upto : Nat,
        lost : BOOLEAN, owed : Seq(Frame)]
  \cup [kind : {"heartbeat"}, conn : Conns, snap : MaybeSnapshot]
  \cup [kind : {"invalidate"}, cred : Creds, gen : Nat, snap : MaybeSnapshot]
  \cup [kind : {"request"}, conn : Conns, req : Reqs, of : ReqKinds, snap : MaybeSnapshot]
  \cup [kind : {"handler"}, conn : Conns, req : Reqs, of : ReqKinds]
  \cup [kind : {"refresh"}, conn : Conns, req : Reqs, snap : MaybeSnapshot]
  \cup [kind : {"drain"}, expired : BOOLEAN]
  \cup [kind : {"stopping"}, left : SUBSET Conns]

Conn ==
  [phase : Phases, sock : {"none", "open", "closing", "closed"}, cred : Creds \cup {None},
   rec : MaybeSnapshot, auths : Nat, authTimer : BOOLEAN, hb : BOOLEAN, strayHb : BOOLEAN,
   inflight : SUBSET Reqs, asked : SUBSET Reqs, resp : Seq(Reqs), blocked : BOOLEAN,
   depth : 0..HardLimit, notified : BOOLEAN]

\* The shape of every piece of transport state.  A registered connection has
\* the credential its events, heartbeats and requests are looked up with.
TypeOK ==
  /\ store \in [Creds -> Snapshot]
  /\ server \in {"idle", "listening", "draining", "stopped"}
  /\ conn \in [Conns -> Conn]
  /\ registry \subseteq Conns
  /\ \A c \in registry : conn[c].cred \in Creds
  /\ replay \in [Creds -> [nextSeq : Nat \ {0}, buf : Seq(Frame)]]
  /\ pend \in [Creds -> [refs : Nat, gen : Nat, queue : Seq(Queued)]]
  /\ invGen \in Nat
  /\ tasks \subseteq Task
  /\ \/ loop = None
     \/ loop \in [kind : {"events"}, cred : Creds, queue : Seq(Queued), left : SUBSET Conns]
     \/ loop \in [kind : {"shutdown"}, left : SUBSET Conns]
  /\ wire \in [Conns -> Seq(Frame)]
  /\ resume \in [Conns -> [from : Nat \cup {None}, upto : Nat, lost : BOOLEAN] \cup {None}]

-----------------------------------------------------------------------------
(* Safety *)

Seqs(frames) == {frames[i].seq : i \in DOMAIN frames}

\* The replay buffer of a credential always holds the last Cap sequence
\* numbers without a hole, whichever of its connections, heartbeats, shutdown
\* notices or recovery events consumed them (event-broadcaster.ts): the test
\* "oldest > lastSeen + 1" of the auth handler is then exactly "something
\* the harness has not seen is gone".
ReplayWindow ==
  \A k \in Creds :
    LET r == replay[k]
        n == r.nextSeq - 1
    IN  /\ Len(r.buf) = IF n < Cap THEN n ELSE Cap
        /\ \A i \in 1..Len(r.buf) : r.buf[i].seq = n - Len(r.buf) + i

\* A harness that resumes from a sequence number and is not told to resync has
\* on its wire every frame of the credential numbered after it up to the
\* moment of authentication, even though frames are sequenced, evicted and
\* sent by other connections while the handler waits for the fingerprint.
ResumeComplete ==
  \A c \in Conns :
    /\ resume[c] # None /\ conn[c].sock = "open"
    /\ resume[c].from # None /\ ~resume[c].lost
    => (resume[c].from + 1)..resume[c].upto \subseteq Seqs(wire[c])

\* No connection is sent the same sequenced frame twice: what is replayed
\* and what is broadcast live to a resuming connection are disjoint.
NoDuplicateOnWire ==
  \A c \in Conns : \A i, j \in DOMAIN wire[c] :
    wire[c][i].seq = wire[c][j].seq /\ wire[c][i].seq > 0 => i = j

\* The lookup of the invalidation that is allowed to write the cache holds
\* the stored record: no credential change can fall between it and the write
\* without taking the generation over.
LatestInvalidationIsCurrent ==
  \A t \in tasks :
    t.kind = "invalidate" /\ Wins(t) /\ t.snap # None => t.snap = store[t.cred]

\* The refcount of a pending invalidation is the number of its lookups still
\* out, so the queue is drained by the last of them and by no other.
RefsCountTasks ==
  \A k \in Creds :
    pend[k].refs = Cardinality({t \in tasks : t.kind = "invalidate" /\ t.cred = k})

\* A request is answered at most once, by its handler or by its timer,
\* whatever the order in which they finish.
AtMostOneResponse ==
  \A c \in Conns : \A i, j \in DOMAIN conn[c].resp :
    conn[c].resp[i] = conn[c].resp[j] => i = j

\* A connection that was cleaned up stays closed, although authentication,
\* heartbeat and request handlers suspended before the close resume after it.
NoResurrection ==
  [][\A c \in Conns : conn[c].phase = "closed" => conn'[c].phase = "closed"]_vars

\* No event is projected with a snapshot older than the credential was when
\* the event was broadcast (server.ts: "An earlier broader lookup that
\* resolves after a later narrower one must not overwrite the narrower
\* snapshot").
FreshProjection ==
  \A c \in Conns : \A i \in DOMAIN wire[c] :
    wire[c][i].ev \in Events => wire[c][i].pver >= wire[c][i].bver

\* Whatever lookups fail, an event that is about to be sent on an open socket
\* is projected with no older snapshot: a connection the server is closing for
\* want of one is the only one to be handed an older projection, which numbers
\* a frame that does not leave (invalidateCredentialSnapshots, then
\* broadcastToCredential, of server.ts).
FreshSends ==
  loop # None /\ loop.kind = "events" =>
    \A c \in loop.left :
      conn[c].sock = "open" => conn[c].rec.ver >= Head(loop.queue).bver

\* What a connection is sent agrees with what was sequenced for its credential:
\* the replay buffer is the window of the last frames and no frame is sent twice,
\* live and replayed (event-broadcaster.ts, handleAuthFrame of server.ts).
ReplayConsistent == TypeOK /\ ReplayWindow /\ NoDuplicateOnWire

\* However the lookups of overlapping invalidations resolve, the last one alone
\* writes the cache and what it writes is current, the queue waits for all of
\* them, and no event is projected with an older snapshot
\* (invalidateCredentialSnapshots of server.ts).
SnapshotsConsistent ==
  LatestInvalidationIsCurrent /\ RefsCountTasks /\ FreshSends /\ FreshProjection

\* No request is answered twice and no closed connection comes back, although
\* timers and handlers suspended before the end resume after it (server.ts,
\* connection-state.ts).
ResponsesSound == []AtMostOneResponse /\ NoResurrection

\* The replay buffer of a credential as the window of ReplayLog.
Log(k) == INSTANCE ReplayLog WITH Items <- Frame, window <- replay[k].buf

-----------------------------------------------------------------------------
(* Liveness, under FairSpec *)

\* An opened socket does not stay unauthenticated: it is accepted or closed.
AuthDecided ==
  \A c \in Conns :
    conn[c].sock = "open" /\ conn[c].phase = "authenticating"
    ~> conn[c].sock # "open" \/ conn[c].phase # "authenticating"

\* A connection does not keep an outdated credential snapshot: invalidation
\* or the heartbeat refresh replaces it, or the connection ends.
SnapshotCatchesUp ==
  \A c \in Conns :
    conn[c].sock = "open" /\ conn[c].phase = "active"
    ~> conn[c].sock # "open" \/ conn[c].phase # "active" \/ conn[c].rec = store[conn[c].cred]

\* Events queued behind an invalidation are released.
QueueDrains ==
  \A k \in Creds : pend[k].queue # <<>> ~> pend[k].queue = <<>>

\* A harness gets an answer or loses its connection (or the process is
\* stopped), even when the request handler never finishes.
RequestAnswered ==
  \A c \in Conns : \A r \in Reqs :
    r \in conn[c].asked
    ~> \/ conn[c].sock # "open" \/ server = "stopped"
       \/ \E i \in DOMAIN conn[c].resp : conn[c].resp[i] = r

\* stop() finishes, whatever requests are in flight.
DrainTerminates == server = "draining" ~> server = "stopped"

\* A connection over the hard limit is closed or drains (or the server is
\* stopped), also when replayed frames or responses, which are sent unchecked,
\* took it over the limit.
ExceededCloses ==
  \A c \in Conns :
    conn[c].depth >= HardLimit
    ~> conn[c].sock # "open" \/ conn[c].depth < HardLimit \/ server = "stopped"

\* Nothing stays suspended on the credential: authentication is decided, stale
\* snapshots are replaced and queued events released (server.ts).
SnapshotsSettle == SnapshotCatchesUp /\ QueueDrains /\ AuthDecided

\* Nothing stays suspended on the harness: requests are answered, the drain of
\* stop() ends and a connection over its limit is closed (server.ts).
RequestsSettle == RequestAnswered /\ DrainTerminates /\ ExceededCloses
=============================================================================
