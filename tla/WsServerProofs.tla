--------------------------- MODULE WsServerProofs ---------------------------
(***************************************************************************)
(* The transport for every number of connections, credentials, requests    *)
(* and events: types, the replay window, what a resuming harness gets,     *)
(* single responses, and the snapshots events are projected with.          *)
(***************************************************************************)
EXTENDS WsServer, TLAPS, SequenceTheorems, FiniteSetTheorems

-----------------------------------------------------------------------------
(* What the helpers on a connection keep.                                   *)

\* d and e differ at most in the cached record, timers, send buffer and a
\* socket that closes.
Alike(d, e) ==
  /\ e.phase = d.phase /\ e.cred = d.cred /\ e.auths = d.auths
  /\ e.inflight = d.inflight /\ e.asked = d.asked /\ e.resp = d.resp
  /\ e.sock = "open" => d.sock = "open"

Same(d, e) == Alike(d, e) /\ e.rec = d.rec

\* ws.close only closes.
LEMMA CloseSame ==
  ASSUME NEW d \in Conn
  PROVE  Close(d) \in Conn /\ Same(d, Close(d))
BY DEF Close, Conn, Same, Alike

LEMMA CloseIfSame ==
  ASSUME NEW d \in Conn, NEW cond \in BOOLEAN
  PROVE  CloseIf(cond, d) \in Conn /\ Same(d, CloseIf(cond, d))
BY CloseSame DEF CloseIf, Same, Alike

LEMMA StopHeartbeatSame ==
  ASSUME NEW d \in Conn
  PROVE  stopHeartbeat(d) \in Conn /\ Same(d, stopHeartbeat(d))
BY DEF stopHeartbeat, Conn, Same, Alike

\* Sending adds to the depth of the send buffer, up to the hard limit.
LEMMA SendManySame ==
  ASSUME NEW d \in Conn, NEW n \in Nat
  PROVE  /\ SendMany(d, n) \in Conn /\ Same(d, SendMany(d, n))
         /\ SendMany(d, n).sock = d.sock
<1> DEFINE m == IF d.depth + n < HardLimit THEN d.depth + n ELSE HardLimit
           e == [d EXCEPT !.depth = m]
<1>1. d.depth \in 0..HardLimit
  BY DEF Conn
<1>2. m \in 0..HardLimit
  BY <1>1, LimitAssumption
<1> HIDE DEF m
<1>3. e \in Conn /\ Same(d, e) /\ e.sock = d.sock
  BY <1>2 DEF Conn, Same, Alike
<1>4. SendMany(d, n) = e \/ SendMany(d, n) = d
  BY DEF SendMany, m
<1>5. Same(d, d)
  BY DEF Same, Alike
<1> HIDE DEF e
<1> QED
  BY <1>3, <1>4, <1>5

LEMMA SendJsonSame ==
  ASSUME NEW d \in Conn
  PROVE  sendJson(d) \in Conn /\ Same(d, sendJson(d)) /\ sendJson(d).sock = d.sock
BY SendManySame DEF sendJson

LEMMA SameTransitive ==
  ASSUME NEW d, NEW e, NEW f, Same(d, e), Same(e, f)
  PROVE  Same(d, f)
BY DEF Same, Alike

\* The backpressure checks warn and close.
LEMMA CheckSame ==
  ASSUME NEW d \in Conn
  PROVE  CheckBackpressure(d) \in Conn /\ Same(d, CheckBackpressure(d))
<1>1. CASE BackpressureState(d) = "warning" /\ ~d.notified
  <2> DEFINE n == [d EXCEPT !.notified = TRUE]
             w == sendJson(n)
             e == CloseIf(BackpressureState(w) = "exceeded", w)
  <2>1. n \in Conn /\ Same(d, n)
    BY DEF Conn, Same, Alike
  <2> HIDE DEF n
  <2>2. w \in Conn /\ Same(n, w)
    BY <2>1, SendJsonSame
  <2> HIDE DEF w
  <2>3. e \in Conn /\ Same(w, e)
    BY <2>2, CloseIfSame
  <2>4. CheckBackpressure(d) = e
    BY <1>1 DEF CheckBackpressure, w, n
  <2> HIDE DEF e
  <2> QED
    BY <2>1, <2>2, <2>3, <2>4, SameTransitive
<1>2. CASE ~(BackpressureState(d) = "warning" /\ ~d.notified)
  BY <1>2, CloseIfSame DEF CheckBackpressure
<1> QED
  BY <1>1, <1>2

\* A sequenced frame and its checks.
LEMMA SendCheckSame ==
  ASSUME NEW d \in Conn
  PROVE  /\ CheckBackpressure(sendJson(d)) \in Conn
         /\ Same(d, CheckBackpressure(sendJson(d)))
<1> DEFINE e == sendJson(d)
<1>1. e \in Conn /\ Same(d, e)
  BY SendJsonSame
<1> HIDE DEF e
<1>2. CheckBackpressure(e) \in Conn /\ Same(e, CheckBackpressure(e))
  BY <1>1, CheckSame
<1>3. QED
  BY <1>1, <1>2, SameTransitive DEF e

\* A closed socket after a message: refusals and timeouts.
LEMMA CloseSendSame ==
  ASSUME NEW d \in Conn
  PROVE  Close(sendJson(d)) \in Conn /\ Same(d, Close(sendJson(d)))
<1> DEFINE e == sendJson(d)
<1>1. e \in Conn /\ Same(d, e)
  BY SendJsonSame
<1> HIDE DEF e
<1>2. Close(e) \in Conn /\ Same(e, Close(e))
  BY <1>1, CloseSame
<1>3. QED
  BY <1>1, <1>2, SameTransitive DEF e

\* Adopting a snapshot changes the cached record and closes the socket.
LEMMA AdoptAlike ==
  ASSUME NEW d \in Conn, NEW snap \in MaybeSnapshot
  PROVE  /\ AdoptSnapshot(d, snap) \in Conn
         /\ AdoptSnapshot(d, snap).rec = IF snap = None THEN d.rec ELSE snap
         /\ Alike(d, AdoptSnapshot(d, snap))
<1>1. ASSUME NEW e \in Conn
      PROVE  stopHeartbeat(Close(e)) \in Conn /\ Same(e, stopHeartbeat(Close(e)))
  <2> DEFINE f == Close(e)
  <2>1. f \in Conn /\ Same(e, f)
    BY CloseSame
  <2> HIDE DEF f
  <2>2. stopHeartbeat(f) \in Conn /\ Same(f, stopHeartbeat(f))
    BY <2>1, StopHeartbeatSame
  <2> QED
    BY <2>1, <2>2, SameTransitive DEF f
<1> DEFINE e == [d EXCEPT !.rec = snap]
<1>2. e \in Conn /\ e.rec = snap /\ Alike(d, e)
  BY DEF Conn, Alike
<1>3. AdoptSnapshot(d, snap) =
        IF snap = None THEN stopHeartbeat(Close(d))
        ELSE IF snap.status = "active" THEN e ELSE stopHeartbeat(Close(e))
  BY DEF AdoptSnapshot
<1> HIDE DEF e
<1>4. CASE snap = None
  BY <1>1, <1>3, <1>4 DEF Same
<1>5. CASE snap # None /\ snap.status = "active"
  BY <1>2, <1>3, <1>5
<1>6. CASE snap # None /\ snap.status # "active"
  BY <1>1, <1>2, <1>3, <1>6 DEF Same, Alike
<1> QED
  BY <1>4, <1>5, <1>6

-----------------------------------------------------------------------------
(* Types.  A connection that sends for its credential has one: it was set by *)
(* the step that made the connection active and is never taken back.         *)

Live(d) == d.phase \in {"active", "draining"} => d.cred \in Creds /\ d.rec # None

CarriedKinds == {"fingerprint", "heartbeat", "request", "handler", "refresh"}

Carries(t) == t.kind \in CarriedKinds => conn[t.conn].cred \in Creds

LoopLinked ==
  loop # None =>
    /\ \A c \in loop.left : conn[c].cred \in Creds
    /\ loop.kind = "events" =>
         loop.queue # <<>> /\ \A c \in loop.left : conn[c].rec # None

Linked ==
  /\ \A c \in Conns : Live(conn[c])
  /\ \A t \in tasks : Carries(t)
  /\ LoopLinked

EventLoop == [kind : {"events"}, cred : Creds, queue : Seq(Queued), left : SUBSET Conns]
ShutdownLoop == [kind : {"shutdown"}, left : SUBSET Conns]
LoopOK == loop = None \/ loop \in EventLoop \/ loop \in ShutdownLoop

\* What a step may do to a connection as far as types are concerned.
Keeps(d, e) ==
  /\ e \in Conn /\ Live(e)
  /\ d.cred \in Creds => e.cred \in Creds
  /\ d.rec # None => e.rec # None

ConnStep ==
  /\ conn' \in [Conns -> Conn]
  /\ \A c \in Conns : Keeps(conn[c], conn'[c])

LEMMA SameKeeps ==
  ASSUME NEW d, NEW e \in Conn, Live(d), Same(d, e)
  PROVE  Keeps(d, e)
BY DEF Keeps, Same, Alike, Live

LEMMA KeepsTransitive ==
  ASSUME NEW d, NEW e, NEW f, Keeps(d, e), Keeps(e, f)
  PROVE  Keeps(d, f)
BY DEF Keeps

LEMMA UpdateStep ==
  ASSUME conn \in [Conns -> Conn], \A c \in Conns : Live(conn[c]),
         NEW c \in Conns, NEW e, Keeps(conn[c], e), conn' = [conn EXCEPT ![c] = e]
  PROVE  ConnStep
BY DEF ConnStep, Keeps

LEMMA StutterStep ==
  ASSUME conn \in [Conns -> Conn], \A c \in Conns : Live(conn[c]), UNCHANGED conn
  PROVE  ConnStep
BY DEF ConnStep, Keeps

\* The fields of a suspended handler.
LEMMA TaskFields ==
  ASSUME NEW t \in Task
  PROVE  /\ t.kind \in TaskKinds
         /\ t.kind \in CarriedKinds \cup {"auth"} => t.conn \in Conns
         /\ t.kind = "auth" =>
              /\ t.n \in Nat /\ t.cred \in Creds /\ t.last \in Nat \cup {None}
              /\ t.snap \in MaybeSnapshot
         /\ t.kind = "fingerprint" =>
              /\ t.n \in Nat /\ t.last \in Nat \cup {None} /\ t.upto \in Nat
              /\ t.lost \in BOOLEAN /\ t.owed \in Seq(Frame)
         /\ t.kind = "heartbeat" => t.snap \in MaybeSnapshot
         /\ t.kind = "invalidate" => t.cred \in Creds /\ t.gen \in Nat /\ t.snap \in MaybeSnapshot
         /\ t.kind = "request" => t.req \in Reqs /\ t.of \in ReqKinds /\ t.snap \in MaybeSnapshot
         /\ t.kind = "handler" => t.req \in Reqs /\ t.of \in ReqKinds
         /\ t.kind = "refresh" => t.req \in Reqs /\ t.snap \in MaybeSnapshot
         /\ t.kind = "drain" => t.expired \in BOOLEAN /\ t \in [kind : {"drain"}, expired : BOOLEAN]
         /\ t.kind = "stopping" => t.left \subseteq Conns
<1>1. CASE t \in [kind : {"auth"}, conn : Conns, n : Nat, cred : Creds,
                  last : Nat \cup {None}, snap : MaybeSnapshot]
  BY <1>1 DEF TaskKinds, CarriedKinds
<1>2. CASE t \in [kind : {"fingerprint"}, conn : Conns, n : Nat, last : Nat \cup {None},
                  upto : Nat, lost : BOOLEAN, owed : Seq(Frame)]
  BY <1>2 DEF TaskKinds, CarriedKinds
<1>3. CASE t \in [kind : {"heartbeat"}, conn : Conns, snap : MaybeSnapshot]
  BY <1>3 DEF TaskKinds, CarriedKinds
<1>4. CASE t \in [kind : {"invalidate"}, cred : Creds, gen : Nat, snap : MaybeSnapshot]
  BY <1>4 DEF TaskKinds, CarriedKinds
<1>5. CASE t \in [kind : {"request"}, conn : Conns, req : Reqs, of : ReqKinds,
                  snap : MaybeSnapshot]
  BY <1>5 DEF TaskKinds, CarriedKinds
<1>6. CASE t \in [kind : {"handler"}, conn : Conns, req : Reqs, of : ReqKinds]
  BY <1>6 DEF TaskKinds, CarriedKinds
<1>7. CASE t \in [kind : {"refresh"}, conn : Conns, req : Reqs, snap : MaybeSnapshot]
  BY <1>7 DEF TaskKinds, CarriedKinds
<1>8. CASE t \in [kind : {"drain"}, expired : BOOLEAN]
  BY <1>8 DEF TaskKinds, CarriedKinds
<1>9. CASE t \in [kind : {"stopping"}, left : SUBSET Conns]
  BY <1>9 DEF TaskKinds, CarriedKinds
<1> QED
  BY <1>1, <1>2, <1>3, <1>4, <1>5, <1>6, <1>7, <1>8, <1>9 DEF Task

\* The parts of TypeOK that no other part speaks of.
RestOK ==
  /\ store \in [Creds -> Snapshot]
  /\ server \in {"idle", "listening", "draining", "stopped"}
  /\ replay \in [Creds -> [nextSeq : Nat \ {0}, buf : Seq(Frame)]]
  /\ pend \in [Creds -> [refs : Nat, gen : Nat, queue : Seq(Queued)]]
  /\ invGen \in Nat
  /\ wire \in [Conns -> Seq(Frame)]
  /\ resume \in [Conns -> [from : Nat \cup {None}, upto : Nat, lost : BOOLEAN] \cup {None}]

TypeInv == TypeOK /\ Linked

LEMMA TypeParts ==
  ASSUME TypeInv
  PROVE  /\ RestOK
         /\ conn \in [Conns -> Conn] /\ \A c \in Conns : conn[c] \in Conn /\ Live(conn[c])
         /\ registry \subseteq Conns /\ \A c \in registry : conn[c].cred \in Creds
         /\ tasks \subseteq Task /\ \A t \in tasks : Carries(t)
         /\ LoopOK /\ LoopLinked
BY DEF TypeInv, TypeOK, RestOK, LoopOK, EventLoop, ShutdownLoop, Linked

\* A step that keeps connections typed preserves the invariant if what it adds
\* to the registry, the tasks and the loop is linked.
LEMMA Assemble ==
  ASSUME TypeInv, ConnStep, RestOK',
         registry' \subseteq Conns,
         \A c \in registry' : c \in registry \/ conn'[c].cred \in Creds,
         \A t \in tasks' :
            \/ t \in tasks
            \/ (t \in Task /\ (t.kind \in CarriedKinds => conn'[t.conn].cred \in Creds)),
         UNCHANGED loop \/ (LoopOK' /\ LoopLinked')
  PROVE  TypeInv'
<1>0. TypeOK /\ Linked
  BY DEF TypeInv
<1>1. conn' \in [Conns -> Conn] /\ \A c \in Conns : Live(conn'[c])
  BY DEF ConnStep, Keeps
<1>2. \A c \in registry' : conn'[c].cred \in Creds
  BY <1>0 DEF TypeOK, ConnStep, Keeps
<1>3. tasks' \subseteq Task
  BY <1>0 DEF TypeOK
<1>4. \A t \in tasks' : Carries(t)'
  <2> SUFFICES ASSUME NEW t \in tasks, t.kind \in CarriedKinds PROVE conn'[t.conn].cred \in Creds
    BY DEF Carries
  <2>1. t \in Task /\ conn[t.conn].cred \in Creds
    BY <1>0 DEF TypeOK, Linked, Carries
  <2>2. t.conn \in Conns
    BY <2>1, TaskFields
  <2> QED
    BY <2>1, <2>2 DEF ConnStep, Keeps
<1>5. LoopOK' /\ LoopLinked'
  <2> SUFFICES ASSUME UNCHANGED loop PROVE LoopOK' /\ LoopLinked'
    OBVIOUS
  <2>1. LoopOK /\ LoopLinked
    BY <1>0 DEF TypeOK, LoopOK, EventLoop, ShutdownLoop, Linked
  <2>2. LoopOK'
    BY <2>1 DEF LoopOK
  <2>3. loop # None => loop.left \subseteq Conns
    BY <2>1 DEF LoopOK, EventLoop, ShutdownLoop
  <2> QED
    BY <2>1, <2>2, <2>3 DEF LoopLinked, ConnStep, Keeps
<1>6. TypeOK'
  BY <1>1, <1>2, <1>3, <1>5 DEF TypeOK, RestOK, LoopOK, EventLoop, ShutdownLoop
<1>7. Linked'
  BY <1>1, <1>4, <1>5 DEF Linked
<1> QED
  BY <1>6, <1>7 DEF TypeInv

-----------------------------------------------------------------------------
(* Frames and the replay buffer.                                             *)

Replay == [nextSeq : Nat \ {0}, buf : Seq(Frame)]

\* A push appends, after dropping the oldest frame of a full buffer.
LEMMA PushBuf ==
  ASSUME NEW buf \in Seq(Frame), NEW f \in Frame, Len(buf) <= Cap
  PROVE  /\ Push(buf, f) \in Seq(Frame)
         /\ Len(Push(buf, f)) = IF Len(buf) < Cap THEN Len(buf) + 1 ELSE Cap
         /\ \A i \in 1..Len(Push(buf, f)) :
              Push(buf, f)[i] = IF i = Len(Push(buf, f)) THEN f
                                ELSE IF Len(buf) < Cap THEN buf[i] ELSE buf[i + 1]
<1> DEFINE b == IF Len(buf) < Cap THEN buf ELSE Tail(buf)
<1>1. b \in Seq(Frame) /\ Len(b) = IF Len(buf) < Cap THEN Len(buf) ELSE Cap - 1
  <2>1. CASE Len(buf) < Cap
    BY <2>1
  <2>2. CASE ~(Len(buf) < Cap)
    BY <2>2, CapAssumption
  <2> QED
    BY <2>1, <2>2
<1>2. \A i \in 1..Len(b) : b[i] = IF Len(buf) < Cap THEN buf[i] ELSE buf[i + 1]
  <2>1. CASE Len(buf) < Cap
    BY <2>1
  <2>2. CASE ~(Len(buf) < Cap)
    BY <2>2, CapAssumption
  <2> QED
    BY <2>1, <2>2
<1> HIDE DEF b
<1>3. Push(buf, f) = Append(b, f)
  BY DEF Push, b
<1>4. /\ Append(b, f) \in Seq(Frame) /\ Len(Append(b, f)) = Len(b) + 1
      /\ Append(b, f)[Len(b) + 1] = f
      /\ \A i \in 1..Len(b) : Append(b, f)[i] = b[i]
  BY <1>1, AppendProperties
<1>5. Len(Append(b, f)) = IF Len(buf) < Cap THEN Len(buf) + 1 ELSE Cap
  BY <1>1, <1>4, CapAssumption
<1>6. \A i \in 1..Len(Append(b, f)) :
        Append(b, f)[i] = IF i = Len(Append(b, f)) THEN f
                          ELSE IF Len(buf) < Cap THEN buf[i] ELSE buf[i + 1]
  <2> SUFFICES ASSUME NEW i \in 1..Len(Append(b, f))
               PROVE  Append(b, f)[i] = IF i = Len(Append(b, f)) THEN f
                          ELSE IF Len(buf) < Cap THEN buf[i] ELSE buf[i + 1]
    OBVIOUS
  <2>1. i = Len(b) + 1 \/ i \in 1..Len(b)
    BY <1>1, <1>4
  <2> QED
    BY <2>1, <1>1, <1>2, <1>4
<1> QED
  BY <1>3, <1>4, <1>5, <1>6

\* Any push keeps a sequence of frames, whatever its length.
LEMMA PushType ==
  ASSUME NEW buf \in Seq(Frame), NEW f \in Frame
  PROVE  Push(buf, f) \in Seq(Frame)
<1> DEFINE b == IF Len(buf) < Cap THEN buf ELSE Tail(buf)
<1>1. b \in Seq(Frame)
  <2>1. CASE Len(buf) < Cap
    BY <2>1
  <2>2. CASE ~(Len(buf) < Cap)
    BY <2>2, CapAssumption
  <2> QED
    BY <2>1, <2>2
<1> QED
  BY <1>1 DEF Push

LEMMA SequenceType ==
  ASSUME NEW r \in Replay, NEW ev \in Events \cup Signals, NEW pver \in Nat, NEW bver \in Nat
  PROVE  /\ sequenceEvent(r, ev, pver, bver) \in Replay
         /\ [seq |-> r.nextSeq, ev |-> ev, pver |-> pver, bver |-> bver] \in Frame
<1> DEFINE f == [seq |-> r.nextSeq, ev |-> ev, pver |-> pver, bver |-> bver]
<1>1. f \in Frame
  BY DEF Frame, Replay
<1> HIDE DEF f
<1>2. Push(r.buf, f) \in Seq(Frame)
  BY <1>1, PushType DEF Replay
<1>3. sequenceEvent(r, ev, pver, bver) = [nextSeq |-> r.nextSeq + 1, buf |-> Push(r.buf, f)]
  BY DEF sequenceEvent, f
<1> QED
  BY <1>1, <1>2, <1>3 DEF Replay, f

\* A set of numbers that is not empty has a least member.
LEMMA SmallestExists ==
  ASSUME NEW S, S \subseteq Nat, S # {}
  PROVE  \E i \in S : \A j \in S : i <= j
<1> DEFINE R == OpToRel(<, Nat)
<1>1. PICK i \in S : \A j \in S : ~(<<j, i>> \in R)
  <2>1. IsWellFoundedOn(R, Nat)
    BY NatLessThanWellFounded
  <2> HIDE DEF R
  <2> QED
    BY <2>1, WFMin, Zenon
<1>2. ASSUME NEW j \in S PROVE i <= j
  <2>1. ~(j < i)
    BY <1>1 DEF OpToRel
  <2> QED
    BY <2>1
<1> QED
  BY <1>2

\* What is owed is the end of the buffer from the first frame after last.
LEMMA ItemsSinceBuf ==
  ASSUME NEW r \in Replay, NEW last \in Nat
  PROVE  /\ ItemsSince(r, last) \in Seq(Frame)
         /\ ItemsSince(r, last) = <<>> => \A i \in 1..Len(r.buf) : r.buf[i].seq <= last
         /\ ItemsSince(r, last) # <<>> =>
              \E m \in 1..Len(r.buf) :
                /\ r.buf[m].seq > last
                /\ \A j \in 1..Len(r.buf) : r.buf[j].seq > last => m <= j
                /\ Len(ItemsSince(r, last)) = Len(r.buf) - m + 1
                /\ \A i \in 1..(Len(r.buf) - m + 1) : ItemsSince(r, last)[i] = r.buf[m + i - 1]
<1> DEFINE kept == {i \in DOMAIN r.buf : r.buf[i].seq > last}
<1>0. r.buf \in Seq(Frame) /\ DOMAIN r.buf = 1..Len(r.buf) /\ Len(r.buf) \in Nat
  BY DEF Replay
<1>1. \A i \in 1..Len(r.buf) : r.buf[i].seq \in Nat
  <2> SUFFICES ASSUME NEW i \in 1..Len(r.buf) PROVE r.buf[i].seq \in Nat
    OBVIOUS
  <2>1. r.buf[i] \in Frame
    BY <1>0, ElementOfSeq
  <2> QED
    BY <2>1 DEF Frame
<1>2. CASE kept = {}
  BY <1>0, <1>1, <1>2 DEF ItemsSince
<1>3. CASE kept # {}
  <2> DEFINE m == CHOOSE i \in kept : \A j \in kept : i <= j
             s == SubSeq(r.buf, m, Len(r.buf))
  <2>1. PICK a \in kept : TRUE
    BY <1>3
  <2>2. m \in kept /\ \A j \in kept : m <= j
    <3>1. kept \subseteq Nat /\ kept # {}
      BY <1>0, <1>3
    <3> HIDE DEF kept
    <3>2. \E i \in kept : \A j \in kept : i <= j
      BY <3>1, SmallestExists
    <3> QED
      BY <3>2
  <2>3. ItemsSince(r, last) = s
    BY <1>3 DEF ItemsSince
  <2>4. m \in 1..Len(r.buf) /\ r.buf[m].seq > last
    BY <2>2, <1>0
  <2>5. \A j \in 1..Len(r.buf) : r.buf[j].seq > last => m <= j
    BY <2>2, <1>0
  <2> HIDE DEF m, kept
  <2>6. /\ s \in Seq(Frame) /\ Len(s) = Len(r.buf) - m + 1
        /\ \A i \in 1..(Len(r.buf) - m + 1) : s[i] = r.buf[m + i - 1]
    BY <2>4, <1>0
  <2> HIDE DEF s
  <2>7. s # <<>>
    BY <2>4, <2>6, <1>0
  <2> QED
    BY <2>3, <2>4, <2>5, <2>6, <2>7
<1> QED
  BY <1>2, <1>3

-----------------------------------------------------------------------------
(* Each action preserves TypeInv.                                            *)

\* sendSequenced numbers a frame, sends it and checks the send buffer.
LEMMA SendSequencedStep ==
  ASSUME TypeInv, NEW c \in Conns, NEW d \in Conn, Keeps(conn[c], d), d.cred \in Creds,
         NEW before \in Seq(Frame), NEW ev \in Events \cup Signals,
         NEW pver \in Nat, NEW bver \in Nat,
         SendSequenced(c, d, before, ev, pver, bver)
  PROVE  /\ \E e \in Conn : Same(d, e) /\ conn' = [conn EXCEPT ![c] = e]
         /\ ConnStep
         /\ replay' \in [Creds -> Replay]
         /\ wire' \in [Conns -> Seq(Frame)]
<1> DEFINE e == CheckBackpressure(sendJson(d))
           k == d.cred
           f == [seq |-> replay[k].nextSeq, ev |-> ev, pver |-> pver, bver |-> bver]
<1>1. e \in Conn /\ Same(d, e)
  BY SendCheckSame
<1>2. conn' = [conn EXCEPT ![c] = e]
  BY DEF SendSequenced
<1> HIDE DEF e
<1>3. Keeps(conn[c], e)
  BY <1>1, SameKeeps, KeepsTransitive DEF Keeps
<1>4. ConnStep
  BY <1>2, <1>3, UpdateStep DEF TypeInv, TypeOK, Linked
<1>5. replay[k] \in Replay /\ replay \in [Creds -> Replay] /\ wire \in [Conns -> Seq(Frame)]
  BY DEF TypeInv, TypeOK, Replay
<1>6. sequenceEvent(replay[k], ev, pver, bver) \in Replay /\ f \in Frame
  BY <1>5, SequenceType
<1>7. replay' \in [Creds -> Replay]
  BY <1>5, <1>6 DEF SendSequenced
<1> HIDE DEF f
<1>8. Append(before, f) \in Seq(Frame)
  BY <1>6
<1>9. \A fr \in Seq(Frame) : wire[c] \o fr \in Seq(Frame)
  BY <1>5
<1>10. wire' \in [Conns -> Seq(Frame)]
  <2>1. OnWire(c, Append(before, f)) \/ OnWire(c, before)
    BY DEF SendSequenced, f
  <2> QED
    BY <2>1, <1>5, <1>8, <1>9 DEF OnWire
<1> QED
  BY <1>1, <1>2, <1>4, <1>7, <1>10

LEMMA TypeInit == Init => TypeInv
<1> SUFFICES ASSUME Init PROVE TypeInv
  OBVIOUS
<1>1. createConnectionState \in Conn /\ Live(createConnectionState)
  BY LimitAssumption DEF createConnectionState, Conn, Phases, MaybeSnapshot, Live
<1>2. FreshReplay \in Replay /\ NoPending \in [refs : Nat, gen : Nat, queue : Seq(Queued)]
  BY DEF FreshReplay, Replay, NoPending
<1>3. [ver |-> 0, status |-> "active"] \in Snapshot
  BY BoundAssumption DEF Snapshot, Vers, Statuses
<1>4. TypeOK
  BY <1>1, <1>2, <1>3 DEF Init, TypeOK, Replay
<1>5. Linked
  BY <1>1 DEF Init, Linked, LoopLinked
<1> QED
  BY <1>4, <1>5 DEF TypeInv

\* Steps of one connection that leave its credential and phase alone.
LEMMA QuietConnStep ==
  ASSUME TypeInv, NEW c \in Conns, NEW e \in Conn, Keeps(conn[c], e),
         conn' = [conn EXCEPT ![c] = e],
         registry' \subseteq registry,
         UNCHANGED <<store, server, replay, pend, invGen, tasks, loop, wire, resume>>
  PROVE  TypeInv'
<1>1. ConnStep
  BY TypeParts, UpdateStep
<1>2. RestOK'
  BY TypeParts DEF RestOK
<1>3. registry' \subseteq Conns /\ \A c1 \in registry' : c1 \in registry
  BY TypeParts
<1>4. UNCHANGED loop /\ \A t \in tasks' : t \in tasks
  OBVIOUS
<1> QED
  BY <1>1, <1>2, <1>3, <1>4, Assemble

LEMMA OpenType == ASSUME TypeInv, NEW c \in Conns, Open(c) PROVE TypeInv'
<1>1. \E e \in Conn : Keeps(conn[c], e) /\ conn' = [conn EXCEPT ![c] = e]
  <2> DEFINE e == IF server = "draining"
                  THEN [conn[c] EXCEPT !.phase = "authenticating", !.sock = "closing"]
                  ELSE [conn[c] EXCEPT !.phase = "authenticating", !.sock = "open",
                                       !.authTimer = TRUE]
  <2>1. conn[c] \in Conn
    BY TypeParts
  <2>2. e \in Conn /\ Keeps(conn[c], e)
    BY <2>1 DEF Conn, Keeps, Live, Phases
  <2> QED
    BY <2>2 DEF Open
<1> QED
  BY <1>1, QuietConnStep DEF Open

LEMMA CloseEventType == ASSUME TypeInv, NEW c \in Conns, CloseEvent(c) PROVE TypeInv'
<1>1. \E e \in Conn : Keeps(conn[c], e) /\ conn' = [conn EXCEPT ![c] = e]
  <2> DEFINE e == cleanupConnection(conn[c])
  <2>1. conn[c] \in Conn
    BY TypeParts
  <2>2. e \in Conn /\ Keeps(conn[c], e)
    BY <2>1 DEF Conn, Keeps, Live, Phases, cleanupConnection
  <2> QED
    BY <2>2 DEF CloseEvent
<1> QED
  BY <1>1, QuietConnStep DEF CloseEvent

LEMMA AuthTimeoutType == ASSUME TypeInv, NEW c \in Conns, AuthTimeout(c) PROVE TypeInv'
<1>1. \E e \in Conn : Keeps(conn[c], e) /\ conn' = [conn EXCEPT ![c] = e]
  <2> DEFINE d == [conn[c] EXCEPT !.authTimer = FALSE]
  <2>1. d \in Conn /\ Keeps(conn[c], d) /\ Live(d)
    BY TypeParts DEF Conn, Keeps, Live
  <2>2. conn' = [conn EXCEPT ![c] = Close(sendJson(d))] \/ conn' = [conn EXCEPT ![c] = d]
    BY DEF AuthTimeout
  <2> HIDE DEF d
  <2>3. Close(sendJson(d)) \in Conn /\ Keeps(conn[c], Close(sendJson(d)))
    BY <2>1, CloseSendSame, SameKeeps, KeepsTransitive
  <2> QED
    BY <2>1, <2>2, <2>3
<1> QED
  BY <1>1, QuietConnStep DEF AuthTimeout

LEMMA RejectedFrameType == ASSUME TypeInv, NEW c \in Conns, RejectedFrame(c) PROVE TypeInv'
<1>1. \E e \in Conn : Keeps(conn[c], e) /\ conn' = [conn EXCEPT ![c] = e]
  <2> DEFINE d == [conn[c] EXCEPT !.authTimer = FALSE]
  <2>1. d \in Conn /\ Keeps(conn[c], d) /\ Live(d) /\ conn[c] \in Conn /\ Live(conn[c])
    BY TypeParts DEF Conn, Keeps, Live
  <2>2. conn' = [conn EXCEPT ![c] = Close(sendJson(d))]
        \/ conn' = [conn EXCEPT ![c] = Close(conn[c])]
    BY DEF RejectedFrame
  <2> HIDE DEF d
  <2>3. Close(sendJson(d)) \in Conn /\ Keeps(conn[c], Close(sendJson(d)))
    BY <2>1, CloseSendSame, SameKeeps, KeepsTransitive
  <2>4. Close(conn[c]) \in Conn /\ Keeps(conn[c], Close(conn[c]))
    BY <2>1, CloseSame, SameKeeps
  <2> QED
    BY <2>2, <2>3, <2>4
<1> QED
  BY <1>1, QuietConnStep DEF RejectedFrame

LEMMA BlockDrainType ==
  ASSUME TypeInv, NEW c \in Conns, Block(c) \/ Drain(c) PROVE TypeInv'
<1>1. \E e \in Conn : Keeps(conn[c], e) /\ conn' = [conn EXCEPT ![c] = e]
  <2> DEFINE d == [conn[c] EXCEPT !.blocked = TRUE]
             e == [conn[c] EXCEPT !.blocked = FALSE, !.depth = 0, !.notified = FALSE]
  <2>0. conn[c] \in Conn /\ Live(conn[c]) /\ 0 \in 0..HardLimit
    BY TypeParts, LimitAssumption
  <2>1. d \in Conn /\ Keeps(conn[c], d) /\ e \in Conn /\ Keeps(conn[c], e)
    BY <2>0 DEF Conn, Keeps, Live
  <2>2. conn' = [conn EXCEPT ![c] = d] \/ conn' = [conn EXCEPT ![c] = e]
    BY TypeParts DEF Block, Drain
  <2> QED
    BY <2>1, <2>2
<1> QED
  BY <1>1, QuietConnStep DEF Block, Drain

\* Steps of one connection that suspend or resume handlers.
LEMMA TaskStep ==
  ASSUME TypeInv, NEW c \in Conns, NEW e \in Conn, Keeps(conn[c], e),
         conn' = [conn EXCEPT ![c] = e],
         registry' \subseteq registry,
         \A t \in tasks' :
            t \in tasks \/ (t \in Task /\ (t.kind \in CarriedKinds => conn'[t.conn].cred \in Creds)),
            UNCHANGED <<store, server, replay, pend, invGen, loop, wire, resume>>
  PROVE  TypeInv'
<1>1. ConnStep
  BY TypeParts, UpdateStep
<1>2. RestOK'
  BY TypeParts DEF RestOK
<1>3. registry' \subseteq Conns /\ \A c1 \in registry' : c1 \in registry
  BY TypeParts
<1>4. UNCHANGED loop
  OBVIOUS
<1> QED
  BY <1>1, <1>2, <1>3, <1>4, Assemble

\* The connection and the fields of a task that is out.
LEMMA TaskOut ==
  ASSUME TypeInv, NEW t \in tasks
  PROVE  /\ t \in Task
         /\ t.kind \in CarriedKinds \cup {"auth"} =>
              t.conn \in Conns /\ conn[t.conn] \in Conn /\ Live(conn[t.conn])
         /\ t.kind \in CarriedKinds => conn[t.conn].cred \in Creds
<1>1. t \in Task
  BY TypeParts
<1>2. t.kind \in CarriedKinds \cup {"auth"} => t.conn \in Conns
  BY <1>1, TaskFields
<1> QED
  BY <1>1, <1>2, TypeParts DEF Carries

LEMMA LookupType ==
  ASSUME TypeInv, NEW k \in Creds
  PROVE  /\ store[k] \in Snapshot
         /\ Lookup(k) \subseteq MaybeSnapshot /\ handleAuth(k) \subseteq MaybeSnapshot
<1>1. store[k] \in Snapshot
  BY TypeParts DEF RestOK
<1> QED
  BY <1>1 DEF Lookup, handleAuth, MaybeSnapshot

LEMMA AuthFrameType ==
  ASSUME TypeInv, NEW c \in Conns, NEW k \in Creds, NEW last \in Nat \cup {None},
         AuthFrame(c, k, last)
  PROVE  TypeInv'
<1> DEFINE m == conn[c].auths + 1
           e == [conn[c] EXCEPT !.authTimer = FALSE, !.auths = m]
<1>1. conn[c] \in Conn /\ Live(conn[c])
  BY TypeParts
<1>3. conn' = [conn EXCEPT ![c] = e]
  BY TypeParts DEF AuthFrame
<1>0. m \in Nat
  BY <1>1 DEF Conn
<1> HIDE DEF m
<1>2. e \in Conn /\ Keeps(conn[c], e)
  BY <1>0, <1>1 DEF Conn, Keeps, Live
<1>4. PICK snap \in handleAuth(k) :
        tasks' = tasks \cup {[kind |-> "auth", conn |-> c, n |-> conn[c].auths, cred |-> k,
                              last |-> last, snap |-> snap]}
  BY DEF AuthFrame
<1>5. snap \in MaybeSnapshot /\ conn[c].auths \in Nat
  BY <1>1, LookupType DEF Conn
<1>6. [kind |-> "auth", conn |-> c, n |-> conn[c].auths, cred |-> k, last |-> last,
       snap |-> snap] \in Task
  BY <1>5 DEF Task
<1>7. \A t \in tasks' : t \in tasks \/ (t \in Task /\ t.kind \notin CarriedKinds)
  BY <1>4, <1>6 DEF CarriedKinds
<1> HIDE DEF e
<1> QED
  BY <1>2, <1>3, <1>7, TaskStep DEF AuthFrame

LEMMA AuthRefusedType == ASSUME TypeInv, NEW t \in tasks, AuthRefused(t) PROVE TypeInv'
<1> DEFINE c == t.conn
           e == Close(sendJson(conn[c]))
<1>1. c \in Conns /\ conn[c] \in Conn /\ Live(conn[c])
  BY TaskOut DEF AuthRefused
<1>2. e \in Conn /\ Keeps(conn[c], e)
  BY <1>1, CloseSendSame, SameKeeps
<1>3. conn' = [conn EXCEPT ![c] = e] /\ \A u \in tasks' : u \in tasks
  BY DEF AuthRefused
<1> HIDE DEF e, c
<1> QED
  BY <1>1, <1>2, <1>3, TaskStep DEF AuthRefused

LEMMA AuthAcceptedType == ASSUME TypeInv, NEW t \in tasks, AuthAccepted(t) PROVE TypeInv'
<1> DEFINE c == t.conn
           r == replay[t.cred]
           lost == t.last # None /\ NeedsRecovery(r, t.last)
           owed == IF t.last = None \/ lost THEN <<>> ELSE ItemsSince(r, t.last)
           u == [kind |-> "fingerprint", conn |-> c, n |-> t.n, last |-> t.last,
                 upto |-> r.nextSeq - 1, lost |-> lost, owed |-> owed]
           e == [conn[c] EXCEPT !.rec = t.snap, !.cred = t.cred,
                                !.phase = transition(@, "active")]
<1>1. /\ c \in Conns /\ conn[c] \in Conn /\ Live(conn[c])
      /\ t.n \in Nat /\ t.cred \in Creds /\ t.last \in Nat \cup {None}
      /\ t.snap \in MaybeSnapshot /\ t.snap # None
  BY TaskOut, TaskFields DEF AuthAccepted
<1>2. e \in Conn /\ Keeps(conn[c], e) /\ e.cred = t.cred
  BY <1>1 DEF Conn, Keeps, Live, transition, Phases
<1>3. r \in Replay /\ r.nextSeq - 1 \in Nat
  BY <1>1, TypeParts DEF RestOK, Replay
<1>4. lost \in BOOLEAN /\ owed \in Seq(Frame)
  BY <1>1, <1>3, ItemsSinceBuf
<1>5. u \in Task
  <2> HIDE DEF r, lost, owed
  <2>1. r.nextSeq - 1 \in Nat
    BY <1>3
  <2> QED
    BY <1>1, <2>1, <1>4 DEF Task
<1>6. /\ conn' = [conn EXCEPT ![c] = e] /\ registry' = registry \cup {c}
      /\ tasks' = (tasks \ {t}) \cup {u}
  BY TypeParts DEF AuthAccepted
<1>7. u.kind = "fingerprint" /\ u.conn = c
  OBVIOUS
<1> HIDE DEF u, e
<1>8. ConnStep
  BY <1>1, <1>2, <1>6, TypeParts, UpdateStep
<1>9. conn'[c].cred \in Creds
  BY <1>1, <1>2, <1>6, TypeParts
<1>10. RestOK'
  BY TypeParts DEF RestOK, AuthAccepted
<1>11. registry' \subseteq Conns /\ \A b \in registry' : b \in registry \/ conn'[b].cred \in Creds
  BY <1>1, <1>6, <1>9, TypeParts
<1>12. \A v \in tasks' :
         v \in tasks \/ (v \in Task /\ (v.kind \in CarriedKinds => conn'[v.conn].cred \in Creds))
  BY <1>5, <1>6, <1>7, <1>9
<1>13. UNCHANGED loop
  BY DEF AuthAccepted
<1> HIDE DEF c
<1> QED
  BY <1>8, <1>10, <1>11, <1>12, <1>13, Assemble

\* Steps of one connection that also number a frame.
LEMMA SendStep ==
  ASSUME TypeInv, NEW c \in Conns, NEW d \in Conn, Keeps(conn[c], d), d.cred \in Creds,
         NEW before \in Seq(Frame), NEW ev \in Events \cup Signals,
         NEW pver \in Nat, NEW bver \in Nat,
         SendSequenced(c, d, before, ev, pver, bver),
         \A t \in tasks' : t \in tasks,
         UNCHANGED loop \/ (LoopOK' /\ LoopLinked'),
         resume' \in [Conns -> [from : Nat \cup {None}, upto : Nat, lost : BOOLEAN] \cup {None}],
         UNCHANGED <<store, server, registry, pend, invGen>>
  PROVE  TypeInv'
<1>1. ConnStep /\ replay' \in [Creds -> Replay] /\ wire' \in [Conns -> Seq(Frame)]
  BY SendSequencedStep
<1>2. RestOK'
  BY <1>1, TypeParts DEF RestOK, Replay
<1>3. registry' \subseteq Conns /\ \A c1 \in registry' : c1 \in registry
  BY TypeParts
<1> QED
  BY <1>1, <1>2, <1>3, Assemble

LEMMA HelloType == <<Signal("authenticated")>> \in Seq(Frame)
BY DEF Signal, Frame, Signals

LEMMA FingerprintedType == ASSUME TypeInv, NEW t \in tasks, Fingerprinted(t) PROVE TypeInv'
<1> DEFINE c == t.conn
           j == sendJson(conn[c])
           d == [j EXCEPT !.hb = TRUE, !.strayHb = @ \/ conn[c].hb]
           hello == <<Signal("authenticated")>>
<1>1. /\ c \in Conns /\ conn[c] \in Conn /\ Live(conn[c]) /\ conn[c].cred \in Creds
      /\ t.last \in Nat \cup {None} /\ t.upto \in Nat /\ t.lost \in BOOLEAN
      /\ t.owed \in Seq(Frame)
  BY TaskOut, TaskFields DEF Fingerprinted, CarriedKinds
<1>2. j \in Conn /\ Keeps(conn[c], j) /\ j.cred = conn[c].cred
  BY <1>1, SendJsonSame, SameKeeps DEF Same, Alike
<1>3. conn[c].hb \in BOOLEAN
  BY <1>1 DEF Conn
<1>4. d \in Conn /\ Keeps(conn[c], d) /\ d.cred \in Creds /\ Live(d)
  <2> HIDE DEF j, c
  <2> QED
    BY <1>1, <1>2, <1>3 DEF Conn, Keeps, Live
<1>5. resume' \in [Conns -> [from : Nat \cup {None}, upto : Nat, lost : BOOLEAN] \cup {None}]
  BY <1>1, TypeParts DEF Fingerprinted, RestOK
<1>6. \A u \in tasks' : u \in tasks
  BY DEF Fingerprinted
<1>7. CASE t.lost
  <2>1. SendSequenced(c, d, hello, "recovery", 0, 0)
    BY <1>7 DEF Fingerprinted
  <2>2. hello \in Seq(Frame) /\ "recovery" \in Events \cup Signals
    BY HelloType DEF Signals
  <2>3. UNCHANGED <<store, server, registry, pend, invGen, loop>>
    BY DEF Fingerprinted
  <2> HIDE DEF c, d, hello
  <2> QED
    BY <1>1, <1>4, <1>5, <1>6, <2>1, <2>2, <2>3, SendStep
<1>8. CASE ~t.lost
  <2> DEFINE e == SendMany(d, Len(t.owed))
  <2>1. /\ conn' = [conn EXCEPT ![c] = e] /\ OnWire(c, hello \o t.owed)
        /\ UNCHANGED <<store, server, registry, pend, invGen, loop, replay>>
    BY <1>8 DEF Fingerprinted
  <2>2. hello \in Seq(Frame)
    BY HelloType
  <2> HIDE DEF c, d, hello
  <2>3. Len(t.owed) \in Nat
    BY <1>1
  <2>4. e \in Conn /\ Keeps(conn[c], e)
    BY <1>4, <2>3, SendManySame, SameKeeps, KeepsTransitive
  <2> HIDE DEF e
  <2>5. ConnStep
    BY <1>1, <2>1, <2>4, TypeParts, UpdateStep
  <2>6. wire' \in [Conns -> Seq(Frame)]
    <3>1. wire \in [Conns -> Seq(Frame)]
      BY TypeParts DEF RestOK
    <3>2. wire[c] \o (hello \o t.owed) \in Seq(Frame)
      BY <1>1, <2>2, <3>1
    <3> QED
      BY <2>1, <3>1, <3>2, <1>1 DEF OnWire
  <2>7. RestOK'
    BY <1>5, <2>1, <2>6, TypeParts DEF RestOK
  <2>8. registry' \subseteq Conns /\ \A c1 \in registry' : c1 \in registry
    BY <2>1, TypeParts
  <2>9. UNCHANGED loop
    BY <2>1
  <2> QED
    BY <1>6, <2>5, <2>7, <2>8, <2>9, Assemble
<1> QED
  BY <1>1, <1>7, <1>8

LEMMA HeartbeatTickType == ASSUME TypeInv, NEW c \in Conns, HeartbeatTick(c) PROVE TypeInv'
<1>1. conn[c] \in Conn /\ Live(conn[c]) /\ conn[c].cred \in Creds
  BY TypeParts DEF HeartbeatTick, Live
<1>2. CASE conn' = [conn EXCEPT ![c] = Close(conn[c])] /\ UNCHANGED tasks
  <2>1. Close(conn[c]) \in Conn /\ Keeps(conn[c], Close(conn[c]))
    BY <1>1, CloseSame, SameKeeps
  <2>2. \A t \in tasks' : t \in tasks
    BY <1>2
  <2> QED
    BY <1>2, <2>1, <2>2, TaskStep DEF HeartbeatTick
<1>3. ASSUME NEW snap \in Lookup(conn[c].cred), UNCHANGED conn,
             tasks' = tasks \cup {[kind |-> "heartbeat", conn |-> c, snap |-> snap]}
      PROVE  TypeInv'
  <2>1. snap \in MaybeSnapshot
    BY <1>1, LookupType
  <2>2. [kind |-> "heartbeat", conn |-> c, snap |-> snap] \in Task
    BY <2>1 DEF Task
  <2>3. \A t \in tasks' :
          t \in tasks \/ (t \in Task /\ (t.kind \in CarriedKinds => conn'[t.conn].cred \in Creds))
    BY <1>1, <1>3, <2>2
  <2>4. conn' = [conn EXCEPT ![c] = conn[c]] /\ Keeps(conn[c], conn[c])
    BY <1>1, <1>3, TypeParts DEF Keeps
  <2> QED
    BY <1>1, <2>3, <2>4, TaskStep DEF HeartbeatTick
<1> QED
  BY <1>2, <1>3 DEF HeartbeatTick

\* Adopting a snapshot keeps the connection linked.
LEMMA AdoptKeeps ==
  ASSUME NEW d \in Conn, Live(d), NEW snap \in MaybeSnapshot
  PROVE  /\ AdoptSnapshot(d, snap) \in Conn /\ Keeps(d, AdoptSnapshot(d, snap))
         /\ AdoptSnapshot(d, snap).cred = d.cred
BY AdoptAlike DEF Keeps, Live, Alike

LEMMA HeartbeatLookedUpType ==
  ASSUME TypeInv, NEW t \in tasks, HeartbeatLookedUp(t) PROVE TypeInv'
<1> DEFINE c == t.conn
           d == AdoptSnapshot(conn[c], t.snap)
<1>1. /\ c \in Conns /\ conn[c] \in Conn /\ Live(conn[c]) /\ conn[c].cred \in Creds
      /\ t.snap \in MaybeSnapshot
  BY TaskOut, TaskFields DEF HeartbeatLookedUp, CarriedKinds
<1>2. d \in Conn /\ Keeps(conn[c], d) /\ d.cred \in Creds
  BY <1>1, AdoptKeeps
<1>3. \A u \in tasks' : u \in tasks
  BY DEF HeartbeatLookedUp
<1>4. CASE Healthy(t.snap)
  <2>1. /\ SendSequenced(c, d, <<>>, "heartbeat", t.snap.ver, t.snap.ver)
        /\ UNCHANGED <<store, server, registry, pend, invGen, loop, resume>>
    BY <1>4 DEF HeartbeatLookedUp
  <2>2. t.snap.ver \in Nat
    BY <1>1, <1>4, BoundAssumption DEF MaybeSnapshot, Snapshot, Vers, Healthy
  <2>3. <<>> \in Seq(Frame) /\ "heartbeat" \in Events \cup Signals
    BY DEF Signals
  <2>4. resume' \in [Conns -> [from : Nat \cup {None}, upto : Nat, lost : BOOLEAN] \cup {None}]
    BY <2>1, TypeParts DEF RestOK
  <2> HIDE DEF c, d
  <2> QED
    BY <1>1, <1>2, <1>3, <2>1, <2>2, <2>3, <2>4, SendStep
<1>5. CASE ~Healthy(t.snap)
  <2>1. /\ conn' = [conn EXCEPT ![c] = d]
        /\ UNCHANGED <<store, server, registry, replay, pend, invGen, loop, wire, resume>>
    BY <1>5 DEF HeartbeatLookedUp
  <2> HIDE DEF c, d
  <2> QED
    BY <1>1, <1>2, <1>3, <2>1, TaskStep
<1> QED
  BY <1>4, <1>5

Pending == [refs : Nat, gen : Nat, queue : Seq(Queued)]

\* Steps that leave the connections alone.
LEMMA ServerStep ==
  ASSUME TypeInv, UNCHANGED <<conn, registry>>, RestOK',
         \A t \in tasks' : t \in tasks \/ (t \in Task /\ t.kind \notin CarriedKinds),
         UNCHANGED loop \/ (LoopOK' /\ LoopLinked')
  PROVE  TypeInv'
<1>1. ConnStep
  BY TypeParts, StutterStep
<1>2. registry' \subseteq Conns /\ \A c1 \in registry' : c1 \in registry
  BY TypeParts
<1> QED
  BY <1>1, <1>2, Assemble

LEMMA MutateType == ASSUME TypeInv, NEW k \in Creds, Mutate(k) PROVE TypeInv'
<1>1. PICK status \in Statuses :
        LET fresh == [ver |-> store[k].ver + 1, status |-> status]
        IN  /\ store[k].ver < MaxVer
            /\ store' = [store EXCEPT ![k] = fresh]
            /\ invGen' = invGen + 1
            /\ pend' = [pend EXCEPT ![k] = Generation(@, invGen + 1)]
            /\ \E snap \in (IF MayFail THEN {fresh, None} ELSE {fresh}) :
                 tasks' = tasks \cup {[kind |-> "invalidate", cred |-> k, gen |-> invGen + 1,
                                       snap |-> snap]}
            /\ UNCHANGED <<server, conn, registry, replay, loop, wire, resume>>
  BY DEF Mutate, Statuses
<1> DEFINE fresh == [ver |-> store[k].ver + 1, status |-> status]
           g == invGen + 1
<1>2. store \in [Creds -> Snapshot] /\ pend \in [Creds -> Pending] /\ invGen \in Nat
  BY TypeParts DEF RestOK, Pending
<1>3. fresh \in Snapshot /\ g \in Nat
  <2>1. store[k].ver \in 0..MaxVer
    BY <1>2 DEF Snapshot, Vers
  <2>2. store[k].ver + 1 \in 0..MaxVer
    BY <1>1, <2>1, BoundAssumption
  <2> QED
    BY <1>2, <2>2 DEF Snapshot, Vers
<1> HIDE DEF fresh, g
<1>4. PICK snap \in {fresh, None} :
        tasks' = tasks \cup {[kind |-> "invalidate", cred |-> k, gen |-> g, snap |-> snap]}
  BY <1>1 DEF fresh, g
<1>5. [kind |-> "invalidate", cred |-> k, gen |-> g, snap |-> snap] \in Task
  BY <1>3 DEF Task, MaybeSnapshot
<1>6. \A t \in tasks' : t \in tasks \/ (t \in Task /\ t.kind \notin CarriedKinds)
  BY <1>4, <1>5 DEF CarriedKinds
<1>7. store' \in [Creds -> Snapshot] /\ invGen' \in Nat
  BY <1>1, <1>2, <1>3 DEF fresh, g
<1>8. pend' \in [Creds -> Pending]
  <2>1. pend[k] \in Pending
    BY <1>2
  <2>2. Generation(pend[k], g) \in Pending
    <3>1. pend[k].refs + 1 \in Nat
      BY <2>1 DEF Pending
    <3> QED
      BY <1>3, <2>1, <3>1 DEF Generation, Pending
  <2> QED
    BY <1>1, <1>2, <2>2 DEF g
<1>9. UNCHANGED <<server, conn, registry, replay, loop, wire, resume>>
  BY <1>1
<1>10. RestOK'
  BY <1>7, <1>8, <1>9, TypeParts DEF RestOK, Pending
<1> QED
  BY <1>6, <1>9, <1>10, ServerStep

LEMMA ReleaseType ==
  ASSUME NEW p \in Pending, NEW t, p.refs > 0
  PROVE  Release(p, t) \in Pending
<1>1. NoPending \in Pending
  BY DEF NoPending, Pending
<1> QED
  BY <1>1 DEF Release, Pending

\* The connections an event is sent to are registered and have a snapshot.
LEMMA ReceiversLinked ==
  ASSUME TypeInv, NEW cs, NEW k, NEW ev, NEW c \in Receivers(cs, k, ev)
  PROVE  c \in Conns /\ c \in registry /\ conn[c].cred = k /\ cs[c].rec # None
BY TypeParts DEF Receivers, Receives, getByCredentialId

\* The lookups of the invalidations of k that are still out.
Lookups(k) == {t \in tasks : t.kind = "invalidate" /\ t.cred = k}

\* The references of a pending invalidation are counted by its lookups, whose
\* generations are no newer than the last one handed out.
Counted ==
  \A k \in Creds :
    /\ IsFiniteSet(Lookups(k))
    /\ pend[k].refs = Cardinality(Lookups(k))
    /\ \A t \in Lookups(k) : t.gen <= invGen

\* While a lookup is out its credential has a reference.
LEMMA LookupHoldsReference ==
  ASSUME TypeInv, Counted, NEW t \in tasks, t.kind = "invalidate"
  PROVE  /\ t.cred \in Creds /\ t.gen \in Nat /\ t.snap \in MaybeSnapshot
         /\ pend[t.cred] \in Pending /\ pend[t.cred].refs > 0
<1>1. t.cred \in Creds /\ t.gen \in Nat /\ t.snap \in MaybeSnapshot
  BY TaskOut, TaskFields
<1>2. pend[t.cred] \in Pending
  BY <1>1, TypeParts DEF RestOK, Pending
<1>3. Lookups(t.cred) # {} /\ IsFiniteSet(Lookups(t.cred))
  BY <1>1 DEF Lookups, Counted
<1>4. Cardinality(Lookups(t.cred)) # 0
  BY <1>3, FS_EmptySet
<1>5. pend[t.cred].refs \in Nat /\ pend[t.cred].refs # 0
  BY <1>1, <1>2, <1>4 DEF Counted, Pending
<1> QED
  BY <1>1, <1>2, <1>5

LEMMA InvalidatedType ==
  ASSUME TypeInv, Counted, NEW t \in tasks, Invalidated(t) PROVE TypeInv'
<1> DEFINE k == t.cred
           after == Release(pend[k], t)
           queue == pend[k].queue
           adopted == [c \in Conns |->
             IF Wins(t) /\ c \in getByCredentialId(k) /\ conn[c].phase = "active"
             THEN AdoptSnapshot(conn[c], t.snap) ELSE conn[c]]
           left == Receivers(adopted, k, Head(queue).ev)
           next == [kind |-> "events", cred |-> k, queue |-> queue, left |-> left]
<1>1. k \in Creds /\ t.snap \in MaybeSnapshot /\ pend[k] \in Pending /\ pend[k].refs > 0
  BY LookupHoldsReference DEF Invalidated
<1>2. after \in Pending /\ queue \in Seq(Queued)
  BY <1>1, ReleaseType DEF Pending
<1>3. /\ conn' = adopted /\ pend' = [pend EXCEPT ![k] = after]
      /\ loop' = IF after.refs = 0 /\ queue # <<>> THEN next ELSE None
      /\ UNCHANGED <<store, server, registry, replay, invGen, wire, resume>>
      /\ \A u \in tasks' : u \in tasks
  BY DEF Invalidated
<1>4. \A c \in Conns : adopted[c] \in Conn /\ Keeps(conn[c], adopted[c])
  <2> SUFFICES ASSUME NEW c \in Conns PROVE adopted[c] \in Conn /\ Keeps(conn[c], adopted[c])
    OBVIOUS
  <2>1. conn[c] \in Conn /\ Live(conn[c])
    BY TypeParts
  <2>2. adopted[c] = AdoptSnapshot(conn[c], t.snap) \/ adopted[c] = conn[c]
    OBVIOUS
  <2>3. Keeps(conn[c], conn[c])
    BY <2>1 DEF Keeps
  <2> QED
    BY <1>1, <2>1, <2>2, <2>3, AdoptKeeps
<1>5. DOMAIN adopted = Conns /\ adopted = [c \in Conns |-> adopted[c]]
  OBVIOUS
<1> HIDE DEF adopted
<1>6. ConnStep
  BY <1>3, <1>4, <1>5 DEF ConnStep
<1>7. RestOK'
  <2>1. pend \in [Creds -> Pending]
    BY TypeParts DEF RestOK, Pending
  <2>2. pend' \in [Creds -> Pending]
    BY <1>1, <1>2, <1>3, <2>1
  <2> QED
    BY <1>3, <2>2, TypeParts DEF RestOK, Pending
<1>8. LoopOK' /\ LoopLinked'
  <2>1. CASE after.refs = 0 /\ queue # <<>>
    <3>1. \A c \in left : c \in Conns /\ conn[c].cred = k /\ adopted[c].rec # None
      BY ReceiversLinked
    <3> HIDE DEF left
    <3>2. loop' = next
      BY <1>3, <2>1
    <3>3. next \in EventLoop
      BY <1>1, <1>2, <3>1 DEF EventLoop
    <3>4. \A c \in left : conn'[c].cred \in Creds
      BY <1>1, <3>1, <1>6 DEF ConnStep, Keeps
    <3> QED
      BY <2>1, <3>1, <3>2, <3>3, <3>4, <1>3 DEF LoopOK, LoopLinked
  <2>2. CASE ~(after.refs = 0 /\ queue # <<>>)
    BY <1>3, <2>2 DEF LoopOK, LoopLinked
  <2> QED
    BY <2>1, <2>2
<1>9. registry' \subseteq Conns /\ \A c1 \in registry' : c1 \in registry
  BY <1>3, TypeParts
<1> QED
  BY <1>3, <1>6, <1>7, <1>8, <1>9, Assemble

LEMMA BroadcastType ==
  ASSUME TypeInv, NEW k \in Creds, NEW ev \in Events, Broadcast(k, ev) PROVE TypeInv'
<1> DEFINE event == [ev |-> ev, bver |-> store[k].ver]
           left == Receivers(conn, k, ev)
           next == [kind |-> "events", cred |-> k, queue |-> <<event>>, left |-> left]
<1>1. event \in Queued
  <2>1. store[k].ver \in Nat
    BY LookupType, BoundAssumption DEF Snapshot, Vers
  <2> QED
    BY <2>1 DEF Queued
<1>2. pend \in [Creds -> Pending]
  BY TypeParts DEF RestOK, Pending
<1>3. CASE pend' = [pend EXCEPT ![k].queue = Append(@, event)] /\ UNCHANGED loop
  <2>1. pend[k] \in Pending
    BY <1>2
  <2> HIDE DEF event
  <2>2. Append(pend[k].queue, event) \in Seq(Queued)
    BY <1>1, <2>1 DEF Pending
  <2>3. pend' \in [Creds -> Pending]
    BY <1>2, <1>3, <2>1, <2>2 DEF Pending
  <2>4. RestOK'
    BY <2>3, TypeParts DEF RestOK, Broadcast, Pending
  <2> QED
    BY <1>3, <2>4, ServerStep DEF Broadcast
<1>4. CASE loop' = next /\ UNCHANGED pend
  <2>1. \A c \in left : c \in Conns /\ conn[c].cred = k /\ conn[c].rec # None
    BY ReceiversLinked
  <2>2. RestOK'
    BY <1>4, TypeParts DEF RestOK, Broadcast
  <2> HIDE DEF event, left
  <2>3. next \in EventLoop /\ next.queue # <<>>
    BY <1>1, <2>1 DEF EventLoop
  <2>4. UNCHANGED <<conn, registry, tasks>>
    BY DEF Broadcast
  <2>5. LoopOK' /\ LoopLinked'
    BY <1>4, <2>1, <2>3, <2>4 DEF LoopOK, LoopLinked
  <2> QED
    BY <2>2, <2>4, <2>5, ServerStep
<1> QED
  BY <1>3, <1>4 DEF Broadcast

LEMMA SendLoopType == ASSUME TypeInv, SendLoopStep PROVE TypeInv'
<1> DEFINE event == Head(loop.queue)
           rest == Tail(loop.queue)
<1>1. /\ loop \in EventLoop /\ loop # None /\ loop.queue # <<>>
      /\ \A c \in loop.left : conn[c].cred \in Creds /\ conn[c].rec # None
  BY TypeParts DEF SendLoopStep, LoopOK, LoopLinked, ShutdownLoop
<1>2. /\ loop.cred \in Creds /\ loop.queue \in Seq(Queued) /\ loop.left \subseteq Conns
      /\ loop.kind = "events"
  BY <1>1 DEF EventLoop
<1>3. event \in Queued /\ rest \in Seq(Queued)
  BY <1>1, <1>2
<1>4. UNCHANGED <<store, server, registry, pend, invGen, tasks, resume>>
  BY DEF SendLoopStep
<1>5. CASE loop.left = {} /\ UNCHANGED <<conn, replay, wire>>
           /\ loop' = IF rest = <<>> THEN None
                      ELSE [loop EXCEPT !.queue = rest,
                                        !.left = Receivers(conn, loop.cred, Head(rest).ev)]
  <2> DEFINE left == Receivers(conn, loop.cred, Head(rest).ev)
             next == [loop EXCEPT !.queue = rest, !.left = left]
  <2>1. \A c \in left : c \in Conns /\ conn[c].cred = loop.cred /\ conn[c].rec # None
    BY ReceiversLinked
  <2>2. loop' = IF rest = <<>> THEN None ELSE next
    BY <1>5
  <2> HIDE DEF left, rest
  <2>3. next \in EventLoop /\ next.queue = rest /\ next.left = left
    BY <1>1, <1>3, <2>1 DEF EventLoop
  <2>4. LoopOK' /\ LoopLinked'
    BY <1>2, <1>5, <2>1, <2>2, <2>3 DEF LoopOK, LoopLinked
  <2>5. RestOK'
    BY <1>4, <1>5, TypeParts DEF RestOK
  <2> QED
    BY <1>4, <1>5, <2>4, <2>5, ServerStep
<1>6. ASSUME NEW c \in loop.left, loop' = [loop EXCEPT !.left = @ \ {c}],
             SendSequenced(c, conn[c], <<>>, event.ev, conn[c].rec.ver, event.bver)
      PROVE  TypeInv'
  <2>1. /\ c \in Conns /\ conn[c] \in Conn /\ Live(conn[c]) /\ Keeps(conn[c], conn[c])
        /\ conn[c].cred \in Creds /\ conn[c].rec # None
    BY <1>1, <1>2, TypeParts DEF Keeps
  <2>2. event.ev \in Events \cup Signals /\ event.bver \in Nat
    BY <1>3 DEF Queued
  <2>3. conn[c].rec.ver \in Nat
    BY <2>1, BoundAssumption DEF Conn, MaybeSnapshot, Snapshot, Vers
  <2>4. <<>> \in Seq(Frame)
    OBVIOUS
  <2> HIDE DEF event, rest
  <2>5. ConnStep
    BY <1>6, <2>1, <2>2, <2>3, <2>4, SendSequencedStep
  <2>6. LoopOK' /\ loop' \in EventLoop /\ loop'.left \subseteq loop.left
        /\ loop'.queue = loop.queue
    BY <1>1, <1>6 DEF LoopOK, EventLoop
  <2>7. LoopLinked'
    BY <1>1, <1>2, <2>5, <2>6 DEF LoopLinked, ConnStep, Keeps
  <2>8. resume' \in [Conns -> [from : Nat \cup {None}, upto : Nat, lost : BOOLEAN] \cup {None}]
    BY <1>4, TypeParts DEF RestOK
  <2> QED
    BY <1>4, <1>6, <2>1, <2>2, <2>3, <2>4, <2>6, <2>7, <2>8, SendStep
<1> QED
  BY <1>5, <1>6 DEF SendLoopStep

LEMMA ShutdownLoopType == ASSUME TypeInv, ShutdownLoopStep PROVE TypeInv'
<1>1. /\ loop \in ShutdownLoop /\ loop # None
      /\ \A c \in loop.left : conn[c].cred \in Creds
  BY TypeParts DEF ShutdownLoopStep, LoopOK, LoopLinked, EventLoop
<1>2. loop.left \subseteq Conns
  BY <1>1 DEF ShutdownLoop
<1>3. UNCHANGED <<store, server, registry, pend, invGen, tasks, resume>>
  BY DEF ShutdownLoopStep
<1>4. CASE loop' = None /\ UNCHANGED <<conn, replay, wire>>
  <2>1. RestOK' /\ LoopOK' /\ LoopLinked'
    BY <1>3, <1>4, TypeParts DEF RestOK, LoopOK, LoopLinked
  <2> QED
    BY <1>3, <1>4, <2>1, ServerStep
<1>5. ASSUME NEW c \in loop.left, loop' = [loop EXCEPT !.left = @ \ {c}]
      PROVE  /\ LoopOK' /\ c \in Conns /\ conn[c] \in Conn /\ Live(conn[c])
             /\ conn[c].cred \in Creds
             /\ ConnStep => LoopLinked'
  <2>1. loop' \in ShutdownLoop /\ loop'.left \subseteq loop.left /\ loop'.kind = "shutdown"
    BY <1>1, <1>5 DEF ShutdownLoop
  <2> QED
    BY <1>1, <1>2, <2>1, TypeParts DEF LoopOK, LoopLinked, ConnStep, Keeps
<1>6. ASSUME NEW c \in loop.left, loop' = [loop EXCEPT !.left = @ \ {c}],
             UNCHANGED <<conn, replay, wire>>
      PROVE  TypeInv'
  <2>1. ConnStep /\ RestOK'
    BY <1>3, <1>6, TypeParts, StutterStep DEF RestOK
  <2> QED
    BY <1>3, <1>5, <1>6, <2>1, ServerStep
<1>7. ASSUME NEW c \in loop.left, loop' = [loop EXCEPT !.left = @ \ {c}],
             conn[c].phase = "active",
             SendSequenced(c, [conn[c] EXCEPT !.phase = transition(@, "draining")], <<>>,
                           "shutdown", 0, 0)
      PROVE  TypeInv'
  <2> DEFINE d == [conn[c] EXCEPT !.phase = transition(@, "draining")]
  <2>1. c \in Conns /\ conn[c] \in Conn /\ Live(conn[c]) /\ conn[c].cred \in Creds
    BY <1>5, <1>7
  <2>2. d \in Conn /\ Keeps(conn[c], d) /\ d.cred \in Creds
    BY <1>7, <2>1 DEF Conn, Keeps, Live, transition, Phases
  <2>3. SendSequenced(c, d, <<>>, "shutdown", 0, 0)
    BY <1>7
  <2>4. <<>> \in Seq(Frame) /\ "shutdown" \in Events \cup Signals
    BY DEF Signals
  <2>5. resume' \in [Conns -> [from : Nat \cup {None}, upto : Nat, lost : BOOLEAN] \cup {None}]
    BY <1>3, TypeParts DEF RestOK
  <2> HIDE DEF d
  <2>6. ConnStep
    BY <2>1, <2>2, <2>3, <2>4, SendSequencedStep
  <2>7. LoopOK' /\ LoopLinked'
    BY <1>5, <1>7, <2>6
  <2> QED
    BY <1>3, <2>1, <2>2, <2>3, <2>4, <2>5, <2>7, SendStep
<1> QED
  BY <1>4, <1>6, <1>7 DEF ShutdownLoopStep

\* A response leaves the credential alone.
LEMMA RespondKeeps ==
  ASSUME NEW d \in Conn, Live(d), NEW r \in Reqs
  PROVE  /\ Respond(d, r) \in Conn /\ Keeps(d, Respond(d, r))
         /\ Respond(d, r).resp = IF d.sock = "open" THEN Append(d.resp, r) ELSE d.resp
         /\ Respond(d, r).inflight = d.inflight /\ Respond(d, r).asked = d.asked
         /\ Respond(d, r).phase = d.phase
<1> DEFINE j == sendJson(d)
           w == IF d.sock = "open" THEN Append(d.resp, r) ELSE d.resp
<1>1. j \in Conn /\ Keeps(d, j) /\ Same(d, j)
  BY SendJsonSame, SameKeeps
<1>2. Respond(d, r) = [j EXCEPT !.resp = w]
  BY <1>1 DEF Respond, Same, Alike
<1>3. w \in Seq(Reqs)
  <2>1. d.resp \in Seq(Reqs)
    BY DEF Conn
  <2> QED
    BY <2>1
<1> HIDE DEF j, w
<1>4. [j EXCEPT !.resp = w] \in Conn /\ [j EXCEPT !.resp = w].resp = w
  BY <1>1, <1>3 DEF Conn
<1>5. Keeps(d, [j EXCEPT !.resp = w])
  BY <1>1, <1>4 DEF Keeps, Live, Conn
<1>6. /\ [j EXCEPT !.resp = w].inflight = d.inflight /\ [j EXCEPT !.resp = w].asked = d.asked
      /\ [j EXCEPT !.resp = w].phase = d.phase
  BY <1>1 DEF Same, Alike, Conn
<1> QED
  BY <1>2, <1>4, <1>5, <1>6 DEF w

LEMMA AnswerKeeps ==
  ASSUME NEW d \in Conn, Live(d), NEW r \in Reqs
  PROVE  Answer(d, r) \in Conn /\ Keeps(d, Answer(d, r))
<1> DEFINE e == DeleteInflight(d, r)
<1>1. e \in Conn /\ Live(e) /\ Keeps(d, e)
  BY DEF Conn, Live, Keeps, DeleteInflight
<1>2. Keeps(d, d)
  BY DEF Keeps
<1>3. Answer(d, r) = IF r \in d.inflight THEN Respond(e, r) ELSE d
  BY DEF Answer
<1> HIDE DEF e
<1> QED
  BY <1>1, <1>2, <1>3, RespondKeeps, KeepsTransitive

LEMMA RequestType ==
  ASSUME TypeInv, NEW c \in Conns, NEW r \in Reqs, NEW kind \in ReqKinds, Request(c, r, kind)
  PROVE  TypeInv'
<1> DEFINE e == [conn[c] EXCEPT !.asked = @ \cup {r}]
<1>1. conn[c] \in Conn /\ Live(conn[c]) /\ conn[c].cred \in Creds
  BY TypeParts DEF Request, Live
<1>2. e \in Conn /\ Keeps(conn[c], e) /\ e.cred = conn[c].cred
  BY <1>1 DEF Conn, Keeps, Live
<1>3. conn' = [conn EXCEPT ![c] = e]
  BY TypeParts DEF Request
<1>4. PICK snap \in Lookup(conn[c].cred) :
        tasks' = tasks \cup {[kind |-> "request", conn |-> c, req |-> r, of |-> kind,
                              snap |-> snap]}
  BY DEF Request
<1>5. snap \in MaybeSnapshot
  BY <1>1, LookupType
<1>6. [kind |-> "request", conn |-> c, req |-> r, of |-> kind, snap |-> snap] \in Task
  BY <1>5 DEF Task
<1> HIDE DEF e
<1>7. conn'[c].cred \in Creds
  BY <1>1, <1>2, <1>3, TypeParts
<1>8. \A t \in tasks' :
        t \in tasks \/ (t \in Task /\ (t.kind \in CarriedKinds => conn'[t.conn].cred \in Creds))
  BY <1>4, <1>6, <1>7
<1> QED
  BY <1>2, <1>3, <1>8, TaskStep DEF Request

LEMMA RequestRefusedType == ASSUME TypeInv, NEW t \in tasks, RequestRefused(t) PROVE TypeInv'
<1> DEFINE c == t.conn
           d == AdoptSnapshot(conn[c], t.snap)
<1>1. /\ c \in Conns /\ conn[c] \in Conn /\ Live(conn[c]) /\ t.snap \in MaybeSnapshot
  BY TaskOut, TaskFields DEF RequestRefused, CarriedKinds
<1>2. d \in Conn /\ Keeps(conn[c], d)
  BY <1>1, AdoptKeeps
<1>3. conn' = [conn EXCEPT ![c] = d] /\ \A u \in tasks' : u \in tasks
  BY DEF RequestRefused
<1> HIDE DEF c, d
<1> QED
  BY <1>1, <1>2, <1>3, TaskStep DEF RequestRefused

LEMMA RequestMalformedType ==
  ASSUME TypeInv, NEW t \in tasks, RequestMalformed(t) PROVE TypeInv'
<1> DEFINE c == t.conn
           d == AdoptSnapshot(conn[c], t.snap)
<1>1. /\ c \in Conns /\ conn[c] \in Conn /\ Live(conn[c]) /\ t.snap \in MaybeSnapshot
      /\ t.req \in Reqs
  BY TaskOut, TaskFields DEF RequestMalformed, CarriedKinds
<1>2. d \in Conn /\ Keeps(conn[c], d) /\ Live(d)
  BY <1>1, AdoptKeeps DEF Keeps
<1>3. /\ conn' = [conn EXCEPT ![c] = Respond(d, t.req)] \/ conn' = [conn EXCEPT ![c] = Close(d)]
      /\ \A u \in tasks' : u \in tasks
  BY DEF RequestMalformed
<1> HIDE DEF c, d
<1>4. /\ Respond(d, t.req) \in Conn /\ Keeps(conn[c], Respond(d, t.req))
      /\ Close(d) \in Conn /\ Keeps(conn[c], Close(d))
  BY <1>1, <1>2, RespondKeeps, CloseSame, SameKeeps, KeepsTransitive
<1> QED
  BY <1>1, <1>3, <1>4, TaskStep DEF RequestMalformed

LEMMA RequestRoutedType == ASSUME TypeInv, NEW t \in tasks, RequestRouted(t) PROVE TypeInv'
<1> DEFINE c == t.conn
           d == AdoptSnapshot(conn[c], t.snap)
           e == SetInflight(d, t.req)
           u == [kind |-> "handler", conn |-> c, req |-> t.req, of |-> t.of]
<1>1. /\ c \in Conns /\ conn[c] \in Conn /\ Live(conn[c]) /\ t.snap \in MaybeSnapshot
      /\ t.req \in Reqs /\ t.of \in ReqKinds /\ conn[c].cred \in Creds
  BY TaskOut, TaskFields DEF RequestRouted, CarriedKinds
<1>2. d \in Conn /\ Keeps(conn[c], d)
  BY <1>1, AdoptKeeps
<1>3. conn' = [conn EXCEPT ![c] = e] /\ tasks' = (tasks \ {t}) \cup {u}
  BY DEF RequestRouted
<1>4. u \in Task /\ u.conn = c
  BY <1>1 DEF Task
<1> HIDE DEF c, d, u
<1>5. e \in Conn /\ Keeps(conn[c], e) /\ e.cred \in Creds
  BY <1>1, <1>2 DEF Conn, Keeps, Live, SetInflight
<1> HIDE DEF e
<1>6. conn'[c].cred \in Creds
  BY <1>1, <1>3, <1>5, TypeParts
<1>7. \A v \in tasks' :
        v \in tasks \/ (v \in Task /\ (v.kind \in CarriedKinds => conn'[v.conn].cred \in Creds))
  BY <1>3, <1>4, <1>6
<1> QED
  BY <1>1, <1>3, <1>5, <1>7, TaskStep DEF RequestRouted

LEMMA HandlerDoneType == ASSUME TypeInv, NEW t \in tasks, HandlerDone(t) PROVE TypeInv'
<1> DEFINE c == t.conn
           d == Answer(conn[c], t.req)
<1>1. /\ c \in Conns /\ conn[c] \in Conn /\ Live(conn[c]) /\ t.req \in Reqs
      /\ conn[c].cred \in Creds
  BY TaskOut, TaskFields DEF HandlerDone, CarriedKinds
<1>2. CASE conn' = [conn EXCEPT ![c] = d] /\ tasks' = tasks \ {t}
  <2>1. d \in Conn /\ Keeps(conn[c], d)
    BY <1>1, AnswerKeeps
  <2> HIDE DEF c, d
  <2> QED
    BY <1>1, <1>2, <2>1, TaskStep DEF HandlerDone
<1>3. ASSUME NEW snap \in Lookup(conn[c].cred), UNCHANGED conn,
             tasks' = (tasks \ {t}) \cup {[kind |-> "refresh", conn |-> c, req |-> t.req,
                                           snap |-> snap]}
      PROVE  TypeInv'
  <2> DEFINE u == [kind |-> "refresh", conn |-> c, req |-> t.req, snap |-> snap]
  <2>1. snap \in MaybeSnapshot
    BY <1>1, LookupType
  <2>2. u \in Task /\ u.conn = c
    BY <1>1, <2>1 DEF Task
  <2>3. tasks' = (tasks \ {t}) \cup {u}
    BY <1>3
  <2> HIDE DEF u
  <2>4. \A v \in tasks' :
          v \in tasks \/ (v \in Task /\ (v.kind \in CarriedKinds => conn'[v.conn].cred \in Creds))
    BY <1>1, <1>3, <2>2, <2>3
  <2>5. conn' = [conn EXCEPT ![c] = conn[c]] /\ Keeps(conn[c], conn[c])
    BY <1>1, <1>3, TypeParts DEF Keeps
  <2> HIDE DEF c
  <2> QED
    BY <1>1, <2>4, <2>5, TaskStep DEF HandlerDone
<1> QED
  BY <1>2, <1>3 DEF HandlerDone

LEMMA RefreshedType == ASSUME TypeInv, NEW t \in tasks, Refreshed(t) PROVE TypeInv'
<1> DEFINE c == t.conn
           d == IF t.snap = None THEN conn[c] ELSE [conn[c] EXCEPT !.rec = t.snap]
           e == Answer(d, t.req)
<1>1. /\ c \in Conns /\ conn[c] \in Conn /\ Live(conn[c]) /\ t.req \in Reqs
      /\ t.snap \in MaybeSnapshot
  BY TaskOut, TaskFields DEF Refreshed, CarriedKinds
<1>2. d \in Conn /\ Live(d) /\ Keeps(conn[c], d)
  BY <1>1 DEF Conn, Live, Keeps
<1>3. conn' = [conn EXCEPT ![c] = e] /\ tasks' = tasks \ {t}
  BY DEF Refreshed
<1> HIDE DEF c, d
<1>4. e \in Conn /\ Keeps(conn[c], e)
  BY <1>1, <1>2, AnswerKeeps, KeepsTransitive
<1> HIDE DEF e
<1> QED
  BY <1>1, <1>3, <1>4, TaskStep DEF Refreshed

LEMMA RequestTimeoutType ==
  ASSUME TypeInv, NEW c \in Conns, NEW r \in Reqs, RequestTimeout(c, r) PROVE TypeInv'
<1> DEFINE d == DeleteInflight(conn[c], r)
           e == Respond(d, r)
<1>1. d \in Conn /\ Live(d) /\ Keeps(conn[c], d)
  BY TypeParts DEF Conn, Live, Keeps, DeleteInflight
<1>2. conn' = [conn EXCEPT ![c] = e]
  BY DEF RequestTimeout
<1> HIDE DEF d
<1>3. e \in Conn /\ Keeps(conn[c], e)
  BY <1>1, RespondKeeps, KeepsTransitive
<1> HIDE DEF e
<1> QED
  BY <1>2, <1>3, QuietConnStep DEF RequestTimeout

LEMMA StartStopType == ASSUME TypeInv, Start \/ Stop PROVE TypeInv'
<1>1. CASE Start
  <2>1. RestOK' /\ UNCHANGED <<conn, registry, tasks, loop>>
    BY <1>1, TypeParts DEF RestOK, Start
  <2> QED
    BY <2>1, ServerStep
<1>2. CASE Stop
  <2>1. RestOK' /\ UNCHANGED <<conn, registry>>
    BY <1>2, TypeParts DEF RestOK, Stop
  <2>2. loop' = [kind |-> "shutdown", left |-> registry]
    BY <1>2 DEF Stop
  <2>3. LoopOK' /\ LoopLinked'
    BY <2>1, <2>2, TypeParts DEF LoopOK, LoopLinked, ShutdownLoop
  <2> DEFINE u == [kind |-> "drain", expired |-> FALSE]
  <2>4. u \in Task /\ u.kind = "drain"
    BY DEF Task
  <2>5. tasks' = tasks \cup {u}
    BY <1>2 DEF Stop
  <2> HIDE DEF u
  <2>6. \A t \in tasks' : t \in tasks \/ (t \in Task /\ t.kind \notin CarriedKinds)
    BY <2>4, <2>5 DEF CarriedKinds
  <2> QED
    BY <2>1, <2>3, <2>6, ServerStep
<1> QED
  BY <1>1, <1>2

LEMMA DrainDeadlineType == ASSUME TypeInv, NEW t \in tasks, DrainDeadline(t) PROVE TypeInv'
<1> DEFINE u == [t EXCEPT !.expired = TRUE]
<1>1. t \in [kind : {"drain"}, expired : BOOLEAN]
  BY TaskOut, TaskFields DEF DrainDeadline
<1>2. u \in Task /\ u.kind \notin CarriedKinds
  BY <1>1 DEF Task, CarriedKinds
<1>3. RestOK' /\ UNCHANGED <<conn, registry, loop>> /\ tasks' = (tasks \ {t}) \cup {u}
  BY TypeParts DEF RestOK, DrainDeadline
<1> HIDE DEF u
<1> QED
  BY <1>2, <1>3, ServerStep

LEMMA DrainDoneType == ASSUME TypeInv, NEW t \in tasks, DrainDone(t) PROVE TypeInv'
<1> DEFINE u == [kind |-> "stopping", left |-> registry]
<1>1. u \in Task /\ u.kind \notin CarriedKinds
  BY TypeParts DEF Task, CarriedKinds
<1>2. /\ conn' = [c \in Conns |-> CloseIf(c \in registry, conn[c])]
      /\ tasks' = (tasks \ {t}) \cup {u}
      /\ UNCHANGED <<store, server, registry, replay, pend, invGen, loop, wire, resume>>
  BY DEF DrainDone
<1> HIDE DEF u
<1>3. \A c \in Conns : /\ CloseIf(c \in registry, conn[c]) \in Conn
                       /\ Keeps(conn[c], CloseIf(c \in registry, conn[c]))
  <2> SUFFICES ASSUME NEW c \in Conns
               PROVE  /\ CloseIf(c \in registry, conn[c]) \in Conn
                      /\ Keeps(conn[c], CloseIf(c \in registry, conn[c]))
    OBVIOUS
  <2>1. conn[c] \in Conn /\ Live(conn[c]) /\ (c \in registry) \in BOOLEAN
    BY TypeParts
  <2> QED
    BY <2>1, CloseIfSame, SameKeeps
<1>4. ConnStep
  BY <1>2, <1>3 DEF ConnStep
<1>5. /\ RestOK' /\ registry' \subseteq Conns /\ UNCHANGED loop
      /\ \A c1 \in registry' : c1 \in registry
  BY <1>2, TypeParts DEF RestOK
<1> QED
  BY <1>1, <1>2, <1>4, <1>5, Assemble

LEMMA FinishStopType == ASSUME TypeInv, NEW t \in tasks, FinishStop(t) PROVE TypeInv'
<1>1. /\ conn' = [c \in Conns |-> IF c \in t.left THEN cleanupConnection(conn[c]) ELSE conn[c]]
      /\ registry' = registry \ t.left /\ tasks' = tasks \ {t}
      /\ replay' = [k \in Creds |-> FreshReplay] /\ server' = "stopped"
      /\ UNCHANGED <<store, pend, invGen, loop, wire, resume>>
  BY DEF FinishStop
<1>2. ASSUME NEW d \in Conn, Live(d)
      PROVE  /\ cleanupConnection(d) \in Conn /\ Keeps(d, cleanupConnection(d))
             /\ Keeps(d, d)
  BY <1>2 DEF Conn, Keeps, Live, Phases, cleanupConnection
<1>3. \A c \in Conns : conn'[c] \in Conn /\ Keeps(conn[c], conn'[c])
  BY <1>1, <1>2, TypeParts
<1>4. ConnStep
  BY <1>1, <1>3 DEF ConnStep
<1>5. FreshReplay \in Replay
  BY DEF FreshReplay, Replay
<1>6. RestOK'
  BY <1>1, <1>5, TypeParts DEF RestOK, Replay
<1>7. registry' \subseteq Conns /\ UNCHANGED loop /\ \A c1 \in registry' : c1 \in registry
  BY <1>1, TypeParts
<1> QED
  BY <1>1, <1>4, <1>6, <1>7, Assemble

\* What a harness claims to have seen is a number or nothing.
LEMMA LastSeenType ==
  ASSUME TypeInv, NEW k \in Creds, NEW last \in LastSeen(k)
  PROVE  last \in Nat \cup {None}
<1>1. ASSUME NEW c \in Conns, NEW i \in DOMAIN wire[c] PROVE wire[c][i].seq \in Nat
  <2>1. wire[c] \in Seq(Frame)
    BY TypeParts DEF RestOK
  <2>2. wire[c][i] \in Frame
    BY <2>1, ElementOfSeq
  <2> QED
    BY <2>2 DEF Frame
<1> QED
  BY <1>1 DEF LastSeen

LEMMA TypeStutter == ASSUME TypeInv, UNCHANGED vars PROVE TypeInv'
BY ServerStep, TypeParts DEF vars, RestOK

LEMMA TypeStep == TypeInv /\ Counted /\ [Next]_vars => TypeInv'
<1> SUFFICES ASSUME TypeInv, Counted, [Next]_vars PROVE TypeInv'
  OBVIOUS
<1>1. ASSUME NEW c \in Conns, SocketStep(c) PROVE TypeInv'
  BY <1>1, OpenType, CloseEventType, AuthTimeoutType, RejectedFrameType, BlockDrainType,
     HeartbeatTickType, AuthFrameType, LastSeenType, RequestTimeoutType, RequestType
  DEF SocketStep
<1>2. ASSUME NEW k \in Creds, CredStep(k) PROVE TypeInv'
  BY <1>2, MutateType, BroadcastType DEF CredStep
<1>3. ASSUME NEW t \in tasks, Resumes(t) \/ HandlerDone(t) PROVE TypeInv'
  BY <1>3, AuthRefusedType, AuthAcceptedType, FingerprintedType, HeartbeatLookedUpType,
     InvalidatedType, RequestRefusedType, RequestMalformedType, RequestRoutedType,
     RefreshedType, DrainDeadlineType, DrainDoneType, FinishStopType, HandlerDoneType
  DEF Resumes
<1> QED
  BY <1>1, <1>2, <1>3, SendLoopType, ShutdownLoopType, StartStopType, TypeStutter DEF Next

-----------------------------------------------------------------------------
(* Invalidations: references and generations.                                *)

\* The lookup that may write the cache found the stored record or failed.
Current ==
  \A t \in tasks : t.kind = "invalidate" /\ Wins(t) => t.snap \in {store[t.cred], None}

SnapInv == Counted /\ Current

\* Steps that neither start nor finish an invalidation.
LEMMA OtherLookups ==
  ASSUME SnapInv, UNCHANGED <<store, invGen>>,
         \A k \in Creds : pend'[k].refs = pend[k].refs /\ pend'[k].gen = pend[k].gen,
         \A t : t.kind = "invalidate" => (t \in tasks' <=> t \in tasks),
         TypeInv
  PROVE  SnapInv'
<1>1. \A k \in Creds : Lookups(k)' = Lookups(k)
  BY DEF Lookups
<1>2. Counted'
  BY <1>1 DEF SnapInv, Counted
<1>3. Current'
  <2> SUFFICES ASSUME NEW t \in tasks', t.kind = "invalidate", Wins(t)'
               PROVE  t.snap \in {store[t.cred], None}
    BY DEF Current
  <2>1. t \in tasks /\ t.cred \in Creds
    BY TaskOut, TaskFields
  <2>2. Wins(t)
    BY <2>1 DEF Wins
  <2> QED
    BY <2>1, <2>2 DEF SnapInv, Current
<1> QED
  BY <1>2, <1>3 DEF SnapInv

\* A change of the credential takes the generation over.
LEMMA MutateSnap == ASSUME TypeInv, SnapInv, NEW k \in Creds, Mutate(k) PROVE SnapInv'
<1>1. PICK status \in Statuses :
        LET fresh == [ver |-> store[k].ver + 1, status |-> status]
        IN  /\ store' = [store EXCEPT ![k] = fresh]
            /\ invGen' = invGen + 1
            /\ pend' = [pend EXCEPT ![k] = Generation(@, invGen + 1)]
            /\ \E snap \in (IF MayFail THEN {fresh, None} ELSE {fresh}) :
                 tasks' = tasks \cup {[kind |-> "invalidate", cred |-> k, gen |-> invGen + 1,
                                       snap |-> snap]}
  BY DEF Mutate, Statuses
<1> DEFINE fresh == [ver |-> store[k].ver + 1, status |-> status]
           g == invGen + 1
<1>2. store \in [Creds -> Snapshot] /\ pend \in [Creds -> Pending] /\ invGen \in Nat
  BY TypeParts DEF RestOK, Pending
<1>3. PICK snap \in {fresh, None} :
        tasks' = tasks \cup {[kind |-> "invalidate", cred |-> k, gen |-> g, snap |-> snap]}
  BY <1>1
<1> DEFINE u == [kind |-> "invalidate", cred |-> k, gen |-> g, snap |-> snap]
<1>4. store'[k] = fresh /\ \A j \in Creds : j # k => store'[j] = store[j]
  BY <1>1, <1>2
<1>5. /\ pend'[k].gen = g /\ pend'[k].refs = pend[k].refs + 1
      /\ \A j \in Creds : j # k => pend'[j] = pend[j]
  BY <1>1, <1>2 DEF Generation, Pending
<1>6. u.kind = "invalidate" /\ u.cred = k /\ u.gen = g /\ u.snap = snap /\ tasks' = tasks \cup {u}
  BY <1>3
<1>7. invGen' = g /\ g = invGen + 1
  BY <1>1
<1> HIDE DEF u, g, fresh
<1>8. \A t \in tasks : t.kind = "invalidate" => t.cred \in Creds /\ t.gen \in Nat /\ t.gen <= invGen
  <2> SUFFICES ASSUME NEW t \in tasks, t.kind = "invalidate"
               PROVE  t.cred \in Creds /\ t.gen \in Nat /\ t.gen <= invGen
    OBVIOUS
  <2>1. t.cred \in Creds /\ t.gen \in Nat
    BY TaskOut, TaskFields
  <2> QED
    BY <2>1 DEF SnapInv, Counted, Lookups
<1>9. u \notin tasks
  BY <1>2, <1>6, <1>7, <1>8
<1>10. Lookups(k)' = Lookups(k) \cup {u} /\ u \notin Lookups(k)
  BY <1>6, <1>9 DEF Lookups
<1>11. \A j \in Creds : j # k => Lookups(j)' = Lookups(j)
  BY <1>6 DEF Lookups
<1>12. Counted'
  <2> SUFFICES ASSUME NEW j \in Creds
               PROVE  /\ IsFiniteSet(Lookups(j)') /\ pend'[j].refs = Cardinality(Lookups(j)')
                      /\ \A t \in Lookups(j)' : t.gen <= invGen'
    BY DEF Counted
  <2>1. /\ IsFiniteSet(Lookups(j)) /\ pend[j].refs = Cardinality(Lookups(j))
        /\ \A t \in Lookups(j) : t.gen \in Nat /\ t.gen <= invGen
    BY <1>8 DEF SnapInv, Counted, Lookups
  <2>2. \A t \in Lookups(j)' : t.gen <= invGen'
    BY <1>2, <1>6, <1>7, <1>10, <1>11, <2>1
  <2>3. IsFiniteSet(Lookups(j)') /\ pend'[j].refs = Cardinality(Lookups(j)')
    <3>1. CASE j = k
      <4>1. /\ IsFiniteSet(Lookups(k) \cup {u})
            /\ Cardinality(Lookups(k) \cup {u}) = Cardinality(Lookups(k)) + 1
        BY <2>1, <3>1, <1>10, FS_AddElement
      <4> QED
        BY <3>1, <4>1, <2>1, <1>5, <1>10
    <3>2. CASE j # k
      BY <3>2, <1>5, <1>11, <2>1
    <3> QED
      BY <3>1, <3>2
  <2> QED
    BY <2>2, <2>3
<1>13. Current'
  <2> SUFFICES ASSUME NEW t \in tasks', t.kind = "invalidate", Wins(t)'
               PROVE  t.snap \in {store'[t.cred], None}
    BY DEF Current
  <2>1. pend'[t.cred].gen = t.gen
    BY DEF Wins
  <2>2. CASE t = u
    BY <2>2, <1>4, <1>6
  <2>3. CASE t \in tasks
    <3>1. t.cred \in Creds /\ t.gen \in Nat /\ t.gen <= invGen
      BY <2>3, <1>8
    <3>2. t.cred # k
      BY <1>2, <1>5, <1>7, <2>1, <3>1
    <3>3. Wins(t)
      BY <1>5, <2>1, <3>1, <3>2 DEF Wins
    <3> QED
      BY <2>3, <3>1, <3>2, <3>3, <1>4 DEF SnapInv, Current
  <2> QED
    BY <1>6, <2>2, <2>3
<1> QED
  BY <1>12, <1>13 DEF SnapInv

\* A lookup that resumes gives its reference back; the last one clears the entry.
LEMMA InvalidatedSnap ==
  ASSUME TypeInv, SnapInv, NEW t \in tasks, Invalidated(t) PROVE SnapInv'
<1> DEFINE k == t.cred
<1>1. k \in Creds /\ pend[k] \in Pending /\ pend[k].refs > 0 /\ t.kind = "invalidate"
  BY LookupHoldsReference DEF Invalidated, SnapInv
<1>2. /\ tasks' = tasks \ {t} /\ pend' = [pend EXCEPT ![k] = Release(pend[k], t)]
      /\ UNCHANGED <<store, invGen>>
  BY DEF Invalidated
<1>3. pend \in [Creds -> Pending]
  BY TypeParts DEF RestOK, Pending
<1>4. /\ pend'[k].refs = pend[k].refs - 1
      /\ pend'[k].gen = pend[k].gen \/ pend'[k].refs = 0
      /\ \A j \in Creds : j # k => pend'[j] = pend[j]
  BY <1>1, <1>2, <1>3 DEF Release, Pending, NoPending
<1>5. t \in Lookups(k) /\ Lookups(k)' = Lookups(k) \ {t}
  BY <1>1, <1>2 DEF Lookups
<1>6. \A j \in Creds : j # k => Lookups(j)' = Lookups(j)
  BY <1>2 DEF Lookups
<1>7. Counted'
  <2> SUFFICES ASSUME NEW j \in Creds
               PROVE  /\ IsFiniteSet(Lookups(j)') /\ pend'[j].refs = Cardinality(Lookups(j)')
                      /\ \A v \in Lookups(j)' : v.gen <= invGen'
    BY DEF Counted
  <2>1. /\ IsFiniteSet(Lookups(j)) /\ pend[j].refs = Cardinality(Lookups(j))
        /\ \A v \in Lookups(j) : v.gen <= invGen
    BY DEF SnapInv, Counted
  <2>2. CASE j = k
    <3>1. /\ IsFiniteSet(Lookups(k) \ {t})
          /\ Cardinality(Lookups(k) \ {t}) = Cardinality(Lookups(k)) - 1
      BY <2>1, <2>2, <1>5, FS_RemoveElement
    <3> QED
      BY <1>2, <1>4, <1>5, <2>1, <2>2, <3>1
  <2>3. CASE j # k
    BY <1>2, <1>4, <1>6, <2>1, <2>3
  <2> QED
    BY <2>2, <2>3
<1>8. Current'
  <2> SUFFICES ASSUME NEW v \in tasks', v.kind = "invalidate", Wins(v)'
               PROVE  v.snap \in {store'[v.cred], None}
    BY DEF Current
  <2>1. v \in tasks /\ v # t /\ v.cred \in Creds /\ pend'[v.cred].gen = v.gen
    BY <1>2, TaskOut, TaskFields DEF Wins
  <2>2. pend'[v.cred].gen = pend[v.cred].gen
    <3>1. CASE v.cred = k
      <4>1. v \in Lookups(k)'
        BY <1>2, <2>1, <3>1 DEF Lookups
      <4>2. Cardinality(Lookups(k)') # 0
        BY <1>1, <1>7, <4>1, FS_EmptySet DEF Counted
      <4>3. pend'[k].refs # 0
        BY <1>1, <1>7, <4>2 DEF Counted
      <4> QED
        BY <1>4, <3>1, <4>3
    <3>2. CASE v.cred # k
      BY <1>4, <2>1, <3>2
    <3> QED
      BY <3>1, <3>2
  <2>3. Wins(v)
    BY <2>1, <2>2 DEF Wins
  <2> QED
    BY <1>2, <2>1, <2>3 DEF SnapInv, Current
<1> QED
  BY <1>7, <1>8 DEF SnapInv

\* Every other step leaves the invalidations that are out alone.
LEMMA OtherStep ==
  ASSUME TypeInv, UNCHANGED <<store, invGen, pend>>,
         \A t \in tasks \cup tasks' : t.kind = "invalidate" => t \in tasks /\ t \in tasks',
         SnapInv
  PROVE  SnapInv'
<1>1. \A t : t.kind = "invalidate" => (t \in tasks' <=> t \in tasks)
  OBVIOUS
<1> QED
  BY <1>1, OtherLookups

LEMMA SocketSnap ==
  ASSUME TypeInv, SnapInv, NEW c \in Conns, SocketStep(c) PROVE SnapInv'
<1>1. CASE Open(c) \/ CloseEvent(c) \/ AuthTimeout(c) \/ RejectedFrame(c) \/ Block(c) \/ Drain(c)
           \/ \E r \in Reqs : RequestTimeout(c, r)
  <2>1. UNCHANGED <<store, invGen, pend, tasks>>
    BY <1>1 DEF Open, CloseEvent, AuthTimeout, RejectedFrame, Block, Drain, RequestTimeout
  <2> QED
    BY <2>1, OtherStep
<1>2. CASE HeartbeatTick(c)
  <2>1. UNCHANGED <<store, invGen, pend>>
    BY <1>2 DEF HeartbeatTick
  <2>2. \A t \in tasks \cup tasks' : t.kind = "invalidate" => t \in tasks /\ t \in tasks'
    BY <1>2 DEF HeartbeatTick
  <2> QED
    BY <2>1, <2>2, OtherStep
<1>3. ASSUME NEW k, NEW last, AuthFrame(c, k, last) PROVE SnapInv'
  <2>1. UNCHANGED <<store, invGen, pend>>
    BY <1>3 DEF AuthFrame
  <2>2. \A t \in tasks \cup tasks' : t.kind = "invalidate" => t \in tasks /\ t \in tasks'
    BY <1>3 DEF AuthFrame
  <2> QED
    BY <2>1, <2>2, OtherStep
<1>4. ASSUME NEW r, NEW kind, Request(c, r, kind) PROVE SnapInv'
  <2>1. UNCHANGED <<store, invGen, pend>>
    BY <1>4 DEF Request
  <2>2. \A t \in tasks \cup tasks' : t.kind = "invalidate" => t \in tasks /\ t \in tasks'
    BY <1>4 DEF Request
  <2> QED
    BY <2>1, <2>2, OtherStep
<1> QED
  BY <1>1, <1>2, <1>3, <1>4 DEF SocketStep

LEMMA BroadcastSnap ==
  ASSUME TypeInv, SnapInv, NEW k \in Creds, NEW ev \in Events, Broadcast(k, ev) PROVE SnapInv'
<1>1. pend \in [Creds -> Pending]
  BY TypeParts DEF RestOK, Pending
<1>2. \A j \in Creds : pend'[j].refs = pend[j].refs /\ pend'[j].gen = pend[j].gen
  BY <1>1 DEF Broadcast, Pending
<1>3. UNCHANGED <<store, invGen, tasks>>
  BY DEF Broadcast
<1> QED
  BY <1>2, <1>3, OtherLookups

LEMMA ResumesSnap ==
  ASSUME TypeInv, SnapInv, NEW t \in tasks, Resumes(t) \/ HandlerDone(t) PROVE SnapInv'
<1>1. CASE Invalidated(t)
  BY <1>1, InvalidatedSnap
<1>2. CASE ~Invalidated(t)
  <2>1. UNCHANGED <<store, invGen, pend>>
    BY <1>2 DEF Resumes, AuthRefused, AuthAccepted, Fingerprinted, HeartbeatLookedUp,
       RequestRefused, RequestMalformed, RequestRouted, Refreshed, DrainDeadline, DrainDone,
       FinishStop, HandlerDone
  <2>2. CASE \/ AuthRefused(t) \/ Fingerprinted(t) \/ HeartbeatLookedUp(t) \/ RequestRefused(t)
             \/ RequestMalformed(t) \/ Refreshed(t) \/ FinishStop(t)
    <3>1. tasks' = tasks \ {t} /\ t.kind # "invalidate"
      BY <2>2 DEF AuthRefused, Fingerprinted, HeartbeatLookedUp, RequestRefused,
         RequestMalformed, Refreshed, FinishStop
    <3> QED
      BY <2>1, <3>1, OtherStep
  <2>3. CASE \/ AuthAccepted(t) \/ RequestRouted(t)
             \/ DrainDeadline(t) \/ DrainDone(t) \/ HandlerDone(t)
    <3>1. t.kind # "invalidate"
      BY <2>3 DEF AuthAccepted, RequestRouted, DrainDeadline, DrainDone, HandlerDone
    <3>2. \E u : u.kind # "invalidate" /\ (tasks' = (tasks \ {t}) \cup {u} \/ tasks' = tasks \ {t})
      <4>1. CASE AuthAccepted(t)
        <5> DEFINE c == t.conn
                   r == replay[t.cred]
                   lost == t.last # None /\ NeedsRecovery(r, t.last)
                   owed == IF t.last = None \/ lost THEN <<>> ELSE ItemsSince(r, t.last)
                   u == [kind |-> "fingerprint", conn |-> c, n |-> t.n, last |-> t.last,
                         upto |-> r.nextSeq - 1, lost |-> lost, owed |-> owed]
        <5>1. tasks' = (tasks \ {t}) \cup {u}
          BY <4>1 DEF AuthAccepted
        <5>2. u.kind = "fingerprint"
          OBVIOUS
        <5> HIDE DEF u
        <5> QED
          BY <5>1, <5>2
      <4>2. CASE RequestRouted(t)
        BY <4>2 DEF RequestRouted
      <4>3. CASE DrainDeadline(t)
        <5>1. t \in [kind : {"drain"}, expired : BOOLEAN]
          BY <4>3, TaskOut, TaskFields DEF DrainDeadline
        <5>2. [t EXCEPT !.expired = TRUE].kind # "invalidate"
          BY <5>1
        <5> QED
          BY <4>3, <5>2 DEF DrainDeadline
      <4>4. CASE DrainDone(t)
        BY <4>4 DEF DrainDone
      <4>5. CASE HandlerDone(t)
        <5>1. CASE tasks' = tasks \ {t}
          BY <5>1, <3>1
        <5>2. CASE \E snap \in Lookup(conn[t.conn].cred) :
                     tasks' = (tasks \ {t}) \cup {[kind |-> "refresh", conn |-> t.conn,
                                                   req |-> t.req, snap |-> snap]}
          BY <5>2
        <5> QED
          BY <4>5, <5>1, <5>2 DEF HandlerDone
      <4> QED
        BY <2>3, <4>1, <4>2, <4>3, <4>4, <4>5
    <3> QED
      BY <2>1, <3>1, <3>2, OtherStep
  <2> QED
    BY <1>2, <2>2, <2>3 DEF Resumes
<1> QED
  BY <1>1, <1>2

LEMMA SnapStep == TypeInv /\ SnapInv /\ [Next]_vars => SnapInv'
<1> SUFFICES ASSUME TypeInv, SnapInv, [Next]_vars PROVE SnapInv'
  OBVIOUS
<1>1. ASSUME NEW k \in Creds, CredStep(k) PROVE SnapInv'
  BY <1>1, MutateSnap, BroadcastSnap DEF CredStep
<1>2. CASE SendLoopStep \/ ShutdownLoopStep \/ Start \/ UNCHANGED vars
  <2>1. UNCHANGED <<store, invGen, pend, tasks>>
    BY <1>2 DEF SendLoopStep, ShutdownLoopStep, Start, vars
  <2> QED
    BY <2>1, OtherStep
<1>3. CASE Stop
  <2>1. UNCHANGED <<store, invGen, pend>>
    BY <1>3 DEF Stop
  <2>2. \A t \in tasks \cup tasks' : t.kind = "invalidate" => t \in tasks /\ t \in tasks'
    BY <1>3 DEF Stop
  <2> QED
    BY <2>1, <2>2, OtherStep
<1> QED
  BY <1>1, <1>2, <1>3, SocketSnap, ResumesSnap DEF Next

LEMMA SnapInit == Init => SnapInv
<1> SUFFICES ASSUME Init PROVE SnapInv
  OBVIOUS
<1>1. \A k \in Creds : Lookups(k) = {}
  BY DEF Init, Lookups
<1>2. IsFiniteSet({}) /\ Cardinality({}) = 0
  BY FS_EmptySet
<1> QED
  BY <1>1, <1>2 DEF Init, SnapInv, Counted, Current, NoPending

\* Every piece of transport state has its shape, and whatever acts for a
\* credential is linked to one (server.ts).
THEOREM TypesHold == Spec => [](TypeInv /\ SnapInv)
<1>1. Init => TypeInv /\ SnapInv
  BY TypeInit, SnapInit
<1>2. TypeInv /\ SnapInv /\ [Next]_vars => (TypeInv /\ SnapInv)'
  BY TypeStep, SnapStep DEF SnapInv
<1> QED
  BY <1>1, <1>2, PTL DEF Spec

\* The lookup of an invalidation that is allowed to write the cache holds the
\* stored record, however the lookups of overlapping changes resolve
\* (invalidateCredentialSnapshots of server.ts).
THEOREM LatestIsCurrent == Spec => []LatestInvalidationIsCurrent
<1>1. SnapInv => LatestInvalidationIsCurrent
  BY DEF SnapInv, Current, LatestInvalidationIsCurrent
<1> QED
  BY <1>1, TypesHold, PTL

\* The queue behind an invalidation is released by its last lookup and by no
\* other: the references are the lookups still out (server.ts).
THEOREM ReferencesCounted == Spec => []RefsCountTasks
<1>1. SnapInv => RefsCountTasks
  BY DEF SnapInv, Counted, Lookups, RefsCountTasks
<1> QED
  BY <1>1, TypesHold, PTL

-----------------------------------------------------------------------------
(* What a step does to sockets, frames and authentications: most steps are   *)
(* quiet, a few number a frame, and three belong to one authentication.      *)

Shift(d, e) ==
  /\ d.phase = "closed" => e.phase = "closed"
  /\ e.phase = "none" => d.phase = "none"
  /\ e.sock = "open" => d.sock = "open" \/ d.phase = "none"
  /\ e.cred = d.cred

ConnShift == \A c \in Conns : Shift(conn[c], conn'[c])

AuthKinds == {"auth", "fingerprint"}
NoNewAuth == \A t \in tasks' : t.kind \in AuthKinds => t \in tasks
SameAuths == \A c \in Conns : conn'[c].auths = conn[c].auths

QuietStep == ConnShift /\ NoNewAuth /\ SameAuths /\ UNCHANGED <<replay, wire, resume>>

\* Connection c sends "before" and one frame numbered for its credential.
Numbers(c, before) ==
  \E ev \in Events \cup Signals, pver \in Nat, bver \in Nat :
    LET k == conn[c].cred
        frame == [seq |-> replay[k].nextSeq, ev |-> ev, pver |-> pver, bver |-> bver]
    IN  \/ /\ replay' = [replay EXCEPT ![k] = sequenceEvent(@, ev, pver, bver)]
           /\ OnWire(c, Append(before, frame))
        \/ UNCHANGED replay /\ OnWire(c, before)

SendingStep ==
  /\ ConnShift /\ NoNewAuth /\ SameAuths /\ UNCHANGED resume
  /\ \E c \in Conns : conn[c].cred \in Creds /\ Numbers(c, <<>>)

LEMMA SameShift == ASSUME NEW d, NEW e, Alike(d, e) PROVE Shift(d, e) /\ e.auths = d.auths
BY DEF Alike, Shift

LEMMA ShiftTransitive ==
  ASSUME NEW d, NEW e, NEW f, Shift(d, e), Alike(e, f) PROVE Shift(d, f) /\ f.auths = e.auths
BY DEF Shift, Alike

LEMMA UpdateShift ==
  ASSUME conn \in [Conns -> Conn], NEW c \in Conns, NEW e, Shift(conn[c], e),
         e.auths = conn[c].auths, conn' = [conn EXCEPT ![c] = e]
  PROVE  ConnShift /\ SameAuths
BY DEF ConnShift, SameAuths, Shift

LEMMA StutterShift ==
  ASSUME UNCHANGED conn PROVE ConnShift /\ SameAuths
BY DEF ConnShift, SameAuths, Shift

\* sendSequenced numbers a frame for the credential of its connection.
LEMMA SendSequencedNumbers ==
  ASSUME TypeInv, NEW c \in Conns, NEW d \in Conn, Shift(conn[c], d), d.auths = conn[c].auths,
         NEW before, NEW ev \in Events \cup Signals, NEW pver \in Nat, NEW bver \in Nat,
         SendSequenced(c, d, before, ev, pver, bver)
  PROVE  ConnShift /\ SameAuths /\ Numbers(c, before)
<1> DEFINE e == CheckBackpressure(sendJson(d))
<1>1. e \in Conn /\ Alike(d, e)
  BY SendCheckSame DEF Same
<1>2. conn' = [conn EXCEPT ![c] = e]
  BY DEF SendSequenced
<1> HIDE DEF e
<1>3. ConnShift /\ SameAuths
  <2>1. Shift(conn[c], e) /\ e.auths = conn[c].auths
    BY <1>1, ShiftTransitive
  <2>2. conn \in [Conns -> Conn]
    BY TypeParts
  <2> QED
    BY <1>2, <2>1, <2>2, UpdateShift
<1>4. d.cred = conn[c].cred
  BY DEF Shift
<1>5. Numbers(c, before)
  BY <1>4 DEF SendSequenced, Numbers
<1> QED
  BY <1>3, <1>5

\* A step that only moves one connection.
LEMMA OneShift ==
  ASSUME TypeInv, NEW c \in Conns, NEW e, Shift(conn[c], e), e.auths = conn[c].auths,
         conn' = [conn EXCEPT ![c] = e], NoNewAuth, UNCHANGED <<replay, wire, resume>>
  PROVE  QuietStep
<1>1. conn \in [Conns -> Conn]
  BY TypeParts
<1> QED
  BY <1>1, UpdateShift DEF QuietStep

LEMMA RespondShift ==
  ASSUME NEW d \in Conn, NEW r \in Reqs
  PROVE  Shift(d, Respond(d, r)) /\ Respond(d, r).auths = d.auths
<1> DEFINE j == sendJson(d)
           w == IF d.sock = "open" THEN Append(d.resp, r) ELSE d.resp
           e == [j EXCEPT !.resp = w]
<1>1. j \in Conn /\ Alike(d, j)
  BY SendJsonSame DEF Same
<1>2. Respond(d, r) = e
  BY <1>1 DEF Respond, Alike
<1> HIDE DEF j, w
<1>3. /\ e.phase = j.phase /\ e.cred = j.cred /\ e.auths = j.auths /\ e.sock = j.sock
  BY <1>1 DEF Conn
<1> QED
  BY <1>1, <1>2, <1>3 DEF Alike, Shift

LEMMA AnswerShift ==
  ASSUME NEW d \in Conn, NEW r \in Reqs
  PROVE  Shift(d, Answer(d, r)) /\ Answer(d, r).auths = d.auths
<1> DEFINE e == DeleteInflight(d, r)
<1>1. e \in Conn /\ Shift(d, e) /\ e.auths = d.auths
  BY DEF Conn, Shift, DeleteInflight
<1>2. Answer(d, r) = IF r \in d.inflight THEN Respond(e, r) ELSE d
  BY DEF Answer
<1> HIDE DEF e
<1>3. Shift(d, d)
  BY DEF Shift
<1>4. Shift(e, Respond(e, r)) /\ Respond(e, r).auths = e.auths
  BY <1>1, RespondShift
<1>5. Shift(d, Respond(e, r))
  BY <1>1, <1>4 DEF Shift
<1> QED
  BY <1>1, <1>2, <1>3, <1>4, <1>5

LEMMA SocketQuiet ==
  ASSUME TypeInv, NEW c \in Conns,
         \/ Open(c) \/ CloseEvent(c) \/ AuthTimeout(c) \/ RejectedFrame(c)
         \/ Block(c) \/ Drain(c) \/ HeartbeatTick(c)
         \/ \E r \in Reqs : RequestTimeout(c, r) \/ \E kind \in ReqKinds : Request(c, r, kind)
  PROVE  QuietStep
<1>0. conn \in [Conns -> Conn] /\ conn[c] \in Conn
  BY TypeParts
<1>1. CASE Open(c)
  <2> DEFINE e == IF server = "draining"
                  THEN [conn[c] EXCEPT !.phase = "authenticating", !.sock = "closing"]
                  ELSE [conn[c] EXCEPT !.phase = "authenticating", !.sock = "open",
                                       !.authTimer = TRUE]
  <2>1. Shift(conn[c], e) /\ e.auths = conn[c].auths
    BY <1>0, <1>1 DEF Open, Shift, Conn
  <2>2. conn' = [conn EXCEPT ![c] = e] /\ UNCHANGED <<replay, wire, resume, tasks>>
    BY <1>1 DEF Open
  <2> HIDE DEF e
  <2> QED
    BY <2>1, <2>2, OneShift DEF NoNewAuth
<1>2. CASE CloseEvent(c)
  <2> DEFINE e == cleanupConnection(conn[c])
  <2>1. Shift(conn[c], e) /\ e.auths = conn[c].auths
    BY <1>0 DEF cleanupConnection, Shift, Conn
  <2>2. conn' = [conn EXCEPT ![c] = e] /\ UNCHANGED <<replay, wire, resume, tasks>>
    BY <1>2 DEF CloseEvent
  <2> HIDE DEF e
  <2> QED
    BY <2>1, <2>2, OneShift DEF NoNewAuth
<1>3. CASE AuthTimeout(c) \/ RejectedFrame(c)
  <2> DEFINE d == [conn[c] EXCEPT !.authTimer = FALSE]
  <2>1. d \in Conn /\ Shift(conn[c], d) /\ d.auths = conn[c].auths
    BY <1>0 DEF Conn, Shift
  <2>2. /\ \/ conn' = [conn EXCEPT ![c] = Close(sendJson(d))] \/ conn' = [conn EXCEPT ![c] = d]
           \/ conn' = [conn EXCEPT ![c] = Close(conn[c])]
        /\ UNCHANGED <<replay, wire, resume, tasks>>
    BY <1>3 DEF AuthTimeout, RejectedFrame
  <2> HIDE DEF d
  <2>3. Shift(conn[c], Close(sendJson(d))) /\ Close(sendJson(d)).auths = conn[c].auths
    BY <2>1, CloseSendSame, ShiftTransitive DEF Same
  <2>4. Shift(conn[c], Close(conn[c])) /\ Close(conn[c]).auths = conn[c].auths
    BY <1>0, CloseSame, SameShift DEF Same
  <2>5. NoNewAuth
    BY <2>2 DEF NoNewAuth
  <2> QED
    BY <2>1, <2>2, <2>3, <2>4, <2>5, OneShift
<1>4. CASE Block(c) \/ Drain(c)
  <2> DEFINE d == [conn[c] EXCEPT !.blocked = TRUE]
             e == [conn[c] EXCEPT !.blocked = FALSE, !.depth = 0, !.notified = FALSE]
  <2>1. /\ Shift(conn[c], d) /\ d.auths = conn[c].auths
        /\ Shift(conn[c], e) /\ e.auths = conn[c].auths
    BY <1>0 DEF Conn, Shift
  <2>2. /\ conn' = [conn EXCEPT ![c] = d] \/ conn' = [conn EXCEPT ![c] = e]
        /\ UNCHANGED <<replay, wire, resume, tasks>>
    BY <1>0, <1>4 DEF Block, Drain
  <2> HIDE DEF d, e
  <2> QED
    BY <2>1, <2>2, OneShift DEF NoNewAuth
<1>5. CASE HeartbeatTick(c)
  <2>1. UNCHANGED <<replay, wire, resume>> /\ NoNewAuth
    BY <1>5 DEF HeartbeatTick, NoNewAuth, AuthKinds
  <2>2. conn' = [conn EXCEPT ![c] = Close(conn[c])] \/ UNCHANGED conn
    BY <1>5 DEF HeartbeatTick
  <2>3. Shift(conn[c], Close(conn[c])) /\ Close(conn[c]).auths = conn[c].auths
    BY <1>0, CloseSame, SameShift DEF Same
  <2> QED
    BY <2>1, <2>2, <2>3, OneShift, StutterShift DEF QuietStep
<1>6. ASSUME NEW r \in Reqs, RequestTimeout(c, r) PROVE QuietStep
  <2> DEFINE d == DeleteInflight(conn[c], r)
             e == Respond(d, r)
  <2>1. d \in Conn /\ Shift(conn[c], d) /\ d.auths = conn[c].auths
    BY <1>0 DEF Conn, Shift, DeleteInflight
  <2>2. conn' = [conn EXCEPT ![c] = e] /\ UNCHANGED <<replay, wire, resume, tasks>>
    BY <1>6 DEF RequestTimeout
  <2> HIDE DEF d
  <2>3. Shift(d, e) /\ e.auths = d.auths
    BY <2>1, RespondShift
  <2>4. Shift(conn[c], e) /\ e.auths = conn[c].auths
    BY <2>1, <2>3 DEF Shift
  <2> HIDE DEF e
  <2> QED
    BY <2>2, <2>4, OneShift DEF NoNewAuth
<1>7. ASSUME NEW r \in Reqs, NEW kind \in ReqKinds, Request(c, r, kind) PROVE QuietStep
  <2> DEFINE e == [conn[c] EXCEPT !.asked = @ \cup {r}]
  <2>1. Shift(conn[c], e) /\ e.auths = conn[c].auths
    BY <1>0 DEF Conn, Shift
  <2>2. conn' = [conn EXCEPT ![c] = e] /\ UNCHANGED <<replay, wire, resume>>
    BY <1>0, <1>7 DEF Request
  <2>3. NoNewAuth
    BY <1>7 DEF Request, NoNewAuth, AuthKinds
  <2> HIDE DEF e
  <2> QED
    BY <2>1, <2>2, <2>3, OneShift
<1> QED
  BY <1>1, <1>2, <1>3, <1>4, <1>5, <1>6, <1>7

LEMMA RequestQuiet ==
  ASSUME TypeInv, NEW t \in tasks,
         \/ AuthRefused(t) \/ RequestRefused(t) \/ RequestMalformed(t) \/ RequestRouted(t)
         \/ HandlerDone(t) \/ Refreshed(t)
  PROVE  QuietStep
<1> DEFINE c == t.conn
<1>0. c \in Conns /\ conn[c] \in Conn /\ conn \in [Conns -> Conn] /\ t \in Task
  BY TaskOut, TypeParts DEF CarriedKinds, AuthRefused, RequestRefused, RequestMalformed,
     RequestRouted, HandlerDone, Refreshed
<1>1. CASE AuthRefused(t)
  <2> DEFINE e == Close(sendJson(conn[c]))
  <2>1. Shift(conn[c], e) /\ e.auths = conn[c].auths
    BY <1>0, CloseSendSame, SameShift DEF Same
  <2>2. conn' = [conn EXCEPT ![c] = e] /\ UNCHANGED <<replay, wire, resume>> /\ NoNewAuth
    BY <1>1 DEF AuthRefused, NoNewAuth
  <2> HIDE DEF e, c
  <2> QED
    BY <1>0, <2>1, <2>2, OneShift
<1>2. CASE RequestRefused(t)
  <2> DEFINE e == AdoptSnapshot(conn[c], t.snap)
  <2>0. t.snap \in MaybeSnapshot
    BY <1>0, <1>2, TaskFields DEF RequestRefused
  <2>1. Shift(conn[c], e) /\ e.auths = conn[c].auths
    BY <1>0, <2>0, AdoptAlike, SameShift
  <2>2. conn' = [conn EXCEPT ![c] = e] /\ UNCHANGED <<replay, wire, resume>> /\ NoNewAuth
    BY <1>2 DEF RequestRefused, NoNewAuth
  <2> HIDE DEF e, c
  <2> QED
    BY <1>0, <2>1, <2>2, OneShift
<1>3. CASE RequestMalformed(t)
  <2> DEFINE d == AdoptSnapshot(conn[c], t.snap)
  <2>0. t.snap \in MaybeSnapshot /\ t.req \in Reqs
    BY <1>0, <1>3, TaskFields DEF RequestMalformed
  <2>1. d \in Conn /\ Shift(conn[c], d) /\ d.auths = conn[c].auths
    BY <1>0, <2>0, AdoptAlike, SameShift
  <2>2. /\ conn' = [conn EXCEPT ![c] = Respond(d, t.req)] \/ conn' = [conn EXCEPT ![c] = Close(d)]
        /\ UNCHANGED <<replay, wire, resume>> /\ NoNewAuth
    BY <1>3 DEF RequestMalformed, NoNewAuth
  <2> HIDE DEF d, c
  <2>3. /\ Shift(conn[c], Close(d)) /\ Close(d).auths = conn[c].auths
        /\ Shift(conn[c], Respond(d, t.req)) /\ Respond(d, t.req).auths = conn[c].auths
    <3>1. Shift(d, Respond(d, t.req)) /\ Respond(d, t.req).auths = d.auths
      BY <2>0, <2>1, RespondShift
    <3>2. Shift(conn[c], Close(d)) /\ Close(d).auths = d.auths
      BY <2>1, CloseSame, ShiftTransitive DEF Same
    <3> QED
      BY <2>1, <3>1, <3>2 DEF Shift
  <2> QED
    BY <1>0, <2>2, <2>3, OneShift
<1>4. CASE RequestRouted(t)
  <2> DEFINE d == AdoptSnapshot(conn[c], t.snap)
             e == SetInflight(d, t.req)
  <2>0. t.snap \in MaybeSnapshot /\ t.req \in Reqs
    BY <1>0, <1>4, TaskFields DEF RequestRouted
  <2>1. d \in Conn /\ Shift(conn[c], d) /\ d.auths = conn[c].auths
    BY <1>0, <2>0, AdoptAlike, SameShift
  <2>2. conn' = [conn EXCEPT ![c] = e] /\ UNCHANGED <<replay, wire, resume>>
    BY <1>4 DEF RequestRouted
  <2>3. NoNewAuth
    BY <1>4 DEF RequestRouted, NoNewAuth, AuthKinds
  <2> HIDE DEF d, c
  <2>4. Shift(conn[c], e) /\ e.auths = conn[c].auths
    BY <2>1 DEF Shift, SetInflight, Conn
  <2> HIDE DEF e
  <2> QED
    BY <1>0, <2>2, <2>3, <2>4, OneShift
<1>5. CASE HandlerDone(t)
  <2> DEFINE e == Answer(conn[c], t.req)
  <2>0. t.req \in Reqs
    BY <1>0, <1>5, TaskFields DEF HandlerDone
  <2>1. Shift(conn[c], e) /\ e.auths = conn[c].auths
    BY <1>0, <2>0, AnswerShift
  <2>2. conn' = [conn EXCEPT ![c] = e] \/ UNCHANGED conn
    BY <1>5 DEF HandlerDone
  <2>3. NoNewAuth /\ UNCHANGED <<replay, wire, resume>>
    BY <1>5 DEF HandlerDone, NoNewAuth, AuthKinds
  <2> HIDE DEF e, c
  <2> QED
    BY <1>0, <2>1, <2>2, <2>3, OneShift, StutterShift DEF QuietStep
<1>6. CASE Refreshed(t)
  <2> DEFINE d == IF t.snap = None THEN conn[c] ELSE [conn[c] EXCEPT !.rec = t.snap]
             e == Answer(d, t.req)
  <2>0. t.req \in Reqs /\ t.snap \in MaybeSnapshot
    BY <1>0, <1>6, TaskFields DEF Refreshed
  <2>1. d \in Conn /\ Shift(conn[c], d) /\ d.auths = conn[c].auths
    BY <1>0, <2>0 DEF Conn, Shift
  <2>2. conn' = [conn EXCEPT ![c] = e] /\ UNCHANGED <<replay, wire, resume>> /\ NoNewAuth
    BY <1>6 DEF Refreshed, NoNewAuth
  <2> HIDE DEF d, c
  <2>3. Shift(d, e) /\ e.auths = d.auths
    BY <2>0, <2>1, AnswerShift
  <2>4. Shift(conn[c], e) /\ e.auths = conn[c].auths
    BY <2>1, <2>3 DEF Shift
  <2> HIDE DEF e
  <2> QED
    BY <1>0, <2>2, <2>4, OneShift
<1> QED
  BY <1>1, <1>2, <1>3, <1>4, <1>5, <1>6

LEMMA HeartbeatMoves ==
  ASSUME TypeInv, NEW t \in tasks, HeartbeatLookedUp(t) PROVE QuietStep \/ SendingStep
<1> DEFINE c == t.conn
           d == AdoptSnapshot(conn[c], t.snap)
<1>1. /\ c \in Conns /\ conn[c] \in Conn /\ conn[c].cred \in Creds /\ t.snap \in MaybeSnapshot
      /\ conn \in [Conns -> Conn]
  BY TaskOut, TaskFields, TypeParts DEF HeartbeatLookedUp, CarriedKinds
<1>2. d \in Conn /\ Shift(conn[c], d) /\ d.auths = conn[c].auths
  BY <1>1, AdoptAlike, SameShift
<1>3. NoNewAuth /\ UNCHANGED resume
  BY DEF HeartbeatLookedUp, NoNewAuth
<1>4. CASE Healthy(t.snap)
  <2>1. SendSequenced(c, d, <<>>, "heartbeat", t.snap.ver, t.snap.ver)
    BY <1>4 DEF HeartbeatLookedUp
  <2>2. t.snap.ver \in Nat /\ "heartbeat" \in Events \cup Signals
    BY <1>1, <1>4, BoundAssumption DEF MaybeSnapshot, Snapshot, Vers, Healthy, Signals
  <2> HIDE DEF c, d
  <2>3. ConnShift /\ SameAuths /\ Numbers(c, <<>>)
    BY <1>1, <1>2, <2>1, <2>2, SendSequencedNumbers
  <2> QED
    BY <1>1, <1>3, <2>3 DEF SendingStep
<1>5. CASE ~Healthy(t.snap)
  <2>1. conn' = [conn EXCEPT ![c] = d] /\ UNCHANGED <<replay, wire>>
    BY <1>5 DEF HeartbeatLookedUp
  <2> HIDE DEF c, d
  <2> QED
    BY <1>1, <1>2, <1>3, <2>1, OneShift
<1> QED
  BY <1>4, <1>5

LEMMA LoopMoves ==
  ASSUME TypeInv, SendLoopStep \/ ShutdownLoopStep PROVE QuietStep \/ SendingStep
<1>0. conn \in [Conns -> Conn]
  BY TypeParts
<1>1. /\ loop # None /\ loop.left \subseteq Conns /\ \A c \in loop.left : conn[c].cred \in Creds
      /\ UNCHANGED <<resume, tasks>> /\ NoNewAuth
  BY TypeParts DEF SendLoopStep, ShutdownLoopStep, LoopOK, LoopLinked, EventLoop, ShutdownLoop,
     NoNewAuth
<1>2. CASE UNCHANGED <<conn, replay, wire>>
  BY <1>1, <1>2, StutterShift DEF QuietStep
<1>3. ASSUME SendLoopStep, NEW c \in loop.left,
             SendSequenced(c, conn[c], <<>>, Head(loop.queue).ev, conn[c].rec.ver,
                           Head(loop.queue).bver)
      PROVE  SendingStep
  <2>1. /\ loop.queue \in Seq(Queued) /\ loop.queue # <<>>
        /\ conn[c].rec # None /\ c \in Conns /\ conn[c] \in Conn
    BY <1>1, <1>3, TypeParts DEF SendLoopStep, LoopOK, LoopLinked, EventLoop, ShutdownLoop
  <2>2. Head(loop.queue) \in Queued
    BY <2>1
  <2>3. Head(loop.queue).ev \in Events \cup Signals /\ Head(loop.queue).bver \in Nat
    BY <2>2 DEF Queued
  <2>4. conn[c].rec.ver \in Nat
    BY <2>1, BoundAssumption DEF Conn, MaybeSnapshot, Snapshot, Vers
  <2>5. Shift(conn[c], conn[c])
    BY DEF Shift
  <2>6. ConnShift /\ SameAuths /\ Numbers(c, <<>>)
    BY <1>3, <2>1, <2>3, <2>4, <2>5, SendSequencedNumbers
  <2> QED
    BY <1>1, <2>1, <2>6 DEF SendingStep
<1>4. ASSUME NEW c \in loop.left, conn[c].phase = "active",
             SendSequenced(c, [conn[c] EXCEPT !.phase = transition(@, "draining")], <<>>,
                           "shutdown", 0, 0)
      PROVE  SendingStep
  <2> DEFINE d == [conn[c] EXCEPT !.phase = transition(@, "draining")]
  <2>1. c \in Conns /\ conn[c] \in Conn
    BY <1>1, TypeParts
  <2>2. d \in Conn /\ Shift(conn[c], d) /\ d.auths = conn[c].auths
    BY <1>4, <2>1 DEF Conn, Shift, transition, Phases, VALID_TRANSITIONS
  <2>3. SendSequenced(c, d, <<>>, "shutdown", 0, 0) /\ "shutdown" \in Events \cup Signals
    BY <1>4 DEF Signals
  <2> HIDE DEF d
  <2>4. ConnShift /\ SameAuths /\ Numbers(c, <<>>)
    BY <2>1, <2>2, <2>3, SendSequencedNumbers
  <2> QED
    BY <1>1, <2>1, <2>4 DEF SendingStep
<1>5. CASE SendLoopStep
  BY <1>2, <1>3, <1>5 DEF SendLoopStep
<1>6. CASE ShutdownLoopStep
  BY <1>2, <1>4, <1>6 DEF ShutdownLoopStep
<1> QED
  BY <1>5, <1>6

LEMMA InvalidatedQuiet ==
  ASSUME TypeInv, Counted, NEW t \in tasks, Invalidated(t) PROVE QuietStep
<1> DEFINE adopted == [c \in Conns |->
             IF Wins(t) /\ c \in getByCredentialId(t.cred) /\ conn[c].phase = "active"
             THEN AdoptSnapshot(conn[c], t.snap) ELSE conn[c]]
<1>1. conn' = adopted /\ UNCHANGED <<replay, wire, resume>> /\ NoNewAuth
  BY DEF Invalidated, NoNewAuth
<1>2. t.snap \in MaybeSnapshot
  BY LookupHoldsReference DEF Invalidated
<1>3. \A c \in Conns : Shift(conn[c], adopted[c]) /\ adopted[c].auths = conn[c].auths
  <2> SUFFICES ASSUME NEW c \in Conns
               PROVE  Shift(conn[c], adopted[c]) /\ adopted[c].auths = conn[c].auths
    OBVIOUS
  <2>1. conn[c] \in Conn
    BY TypeParts
  <2>2. adopted[c] = AdoptSnapshot(conn[c], t.snap) \/ adopted[c] = conn[c]
    OBVIOUS
  <2>3. Shift(conn[c], conn[c])
    BY DEF Shift
  <2> QED
    BY <1>2, <2>1, <2>2, <2>3, AdoptAlike, SameShift
<1> QED
  BY <1>1, <1>3 DEF QuietStep, ConnShift, SameAuths

LEMMA DrainQuiet ==
  ASSUME TypeInv, NEW t \in tasks, DrainDeadline(t) \/ DrainDone(t) PROVE QuietStep
<1>1. CASE DrainDeadline(t)
  <2>1. t \in [kind : {"drain"}, expired : BOOLEAN]
    BY <1>1, TaskOut, TaskFields DEF DrainDeadline
  <2>2. [t EXCEPT !.expired = TRUE].kind = "drain"
    BY <2>1
  <2>3. NoNewAuth
    BY <1>1, <2>2 DEF DrainDeadline, NoNewAuth, AuthKinds
  <2> QED
    BY <1>1, <2>3, StutterShift DEF DrainDeadline, QuietStep
<1>2. CASE DrainDone(t)
  <2>1. conn' = [c \in Conns |-> CloseIf(c \in registry, conn[c])]
        /\ UNCHANGED <<replay, wire, resume>>
    BY <1>2 DEF DrainDone
  <2>2. NoNewAuth
    BY <1>2 DEF DrainDone, NoNewAuth, AuthKinds
  <2>3. \A c \in Conns : Shift(conn[c], conn'[c]) /\ conn'[c].auths = conn[c].auths
    <3> SUFFICES ASSUME NEW c \in Conns
                 PROVE  Shift(conn[c], conn'[c]) /\ conn'[c].auths = conn[c].auths
      OBVIOUS
    <3>1. conn[c] \in Conn /\ (c \in registry) \in BOOLEAN
      BY TypeParts
    <3>2. Alike(conn[c], CloseIf(c \in registry, conn[c]))
      BY <3>1, CloseIfSame DEF Same
    <3> QED
      BY <2>1, <3>2, SameShift
  <2> QED
    BY <2>1, <2>2, <2>3 DEF QuietStep, ConnShift, SameAuths
<1> QED
  BY <1>1, <1>2

LEMMA ServerQuiet ==
  ASSUME \/ Start \/ Stop \/ UNCHANGED vars
         \/ \E k \in Creds : Mutate(k) \/ \E ev \in Events : Broadcast(k, ev)
  PROVE  QuietStep
<1>1. UNCHANGED <<conn, replay, wire, resume>>
  BY DEF Start, Stop, Mutate, Broadcast, vars
<1>3. NoNewAuth
  <2>1. ASSUME NEW k \in Creds, Mutate(k) PROVE NoNewAuth
    BY <2>1 DEF Mutate, NoNewAuth, AuthKinds
  <2>2. ASSUME NEW k \in Creds, NEW ev \in Events, Broadcast(k, ev) PROVE NoNewAuth
    BY <2>2 DEF Broadcast, NoNewAuth
  <2>3. CASE Start \/ Stop \/ UNCHANGED vars
    BY <2>3 DEF Start, Stop, vars, NoNewAuth, AuthKinds
  <2> QED
    BY <2>1, <2>2, <2>3
<1> QED
  BY <1>1, <1>3, StutterShift DEF QuietStep

\* After stop() has finished nothing is left to run.
Halted == server = "stopped" => loop = None

AuthStep ==
  \/ \E c \in Conns, k \in Creds : \E last \in LastSeen(k) : AuthFrame(c, k, last)
  \/ \E t \in tasks : AuthAccepted(t)
  \/ \E t \in tasks : Fingerprinted(t)

LEMMA StepKinds ==
  ASSUME TypeInv, Counted, Halted, Next
  PROVE  /\ server # "stopped"
         /\ \/ QuietStep \/ SendingStep \/ AuthStep
            \/ \E t \in tasks : FinishStop(t) /\ loop = None
<1>1. ASSUME NEW c \in Conns, SocketStep(c) PROVE QuietStep \/ AuthStep
  BY <1>1, SocketQuiet DEF SocketStep, AuthStep
<1>2. ASSUME NEW k \in Creds, CredStep(k) PROVE QuietStep
  BY <1>2, ServerQuiet DEF CredStep
<1>3. ASSUME NEW t \in tasks, Ready(t), Resumes(t) \/ HandlerDone(t)
      PROVE  \/ QuietStep \/ SendingStep \/ AuthStep
             \/ FinishStop(t) /\ loop = None
  BY <1>3, RequestQuiet, HeartbeatMoves, InvalidatedQuiet, DrainQuiet
  DEF Resumes, AuthStep, Ready, Running
<1>4. server # "stopped"
  BY DEF Next, Halted, SendLoopStep, ShutdownLoopStep, Idle, Ready, Running
<1> QED
  BY <1>1, <1>2, <1>3, <1>4, LoopMoves, ServerQuiet DEF Next

LEMMA HaltedStep ==
  ASSUME TypeInv, Counted, Halted, [Next]_vars PROVE Halted'
<1>1. CASE UNCHANGED vars
  BY <1>1 DEF vars, Halted
<1>2. CASE Next
  <2>1. server # "stopped"
    BY <1>2, StepKinds
  <2>2. ASSUME server' = "stopped" PROVE \E t \in tasks : FinishStop(t) /\ loop = None
    <3>1. \A t \in tasks : Ready(t) /\ FinishStop(t) => loop = None
      BY DEF Ready, Running
    <3>2. ASSUME NEW c \in Conns, SocketStep(c) PROVE FALSE
      <4>1. UNCHANGED server
        BY <3>2 DEF SocketStep, Open, CloseEvent, AuthTimeout, RejectedFrame, Block, Drain,
           HeartbeatTick, AuthFrame, RequestTimeout, Request
      <4> QED
        BY <2>1, <2>2, <4>1
    <3>3. ASSUME NEW k \in Creds, CredStep(k) PROVE FALSE
      <4>1. UNCHANGED server
        BY <3>3 DEF CredStep, Mutate, Broadcast
      <4> QED
        BY <2>1, <2>2, <4>1
    <3>4. ~SendLoopStep /\ ~ShutdownLoopStep /\ ~Start /\ ~Stop
      BY <2>1, <2>2 DEF SendLoopStep, ShutdownLoopStep, Start, Stop
    <3>5. ASSUME NEW t \in tasks, Resumes(t) \/ HandlerDone(t) PROVE FinishStop(t)
      <4>1. UNCHANGED server \/ FinishStop(t)
        BY <3>5 DEF Resumes, AuthRefused, AuthAccepted, Fingerprinted, HeartbeatLookedUp,
           Invalidated, RequestRefused, RequestMalformed, RequestRouted, Refreshed,
           DrainDeadline, DrainDone, HandlerDone
      <4> QED
        BY <2>1, <2>2, <4>1
    <3> QED
      BY <1>2, <3>1, <3>2, <3>3, <3>4, <3>5 DEF Next
  <2> QED
    BY <2>2 DEF Halted, FinishStop
<1> QED
  BY <1>1, <1>2

-----------------------------------------------------------------------------
(* The replay buffer is the window of the last frames.                       *)

Window(r) ==
  LET n == r.nextSeq - 1
  IN  /\ Len(r.buf) = IF n < Cap THEN n ELSE Cap
      /\ \A i \in 1..Len(r.buf) : r.buf[i].seq = n - Len(r.buf) + i

LEMMA SequenceWindow ==
  ASSUME NEW r \in Replay, Window(r), NEW ev \in Events \cup Signals,
         NEW pver \in Nat, NEW bver \in Nat
  PROVE  Window(sequenceEvent(r, ev, pver, bver))
<1> DEFINE f == [seq |-> r.nextSeq, ev |-> ev, pver |-> pver, bver |-> bver]
           s == sequenceEvent(r, ev, pver, bver)
           b == Push(r.buf, f)
<1>1. f \in Frame /\ f.seq = r.nextSeq
  BY SequenceType
<1>2. s.nextSeq = r.nextSeq + 1 /\ s.buf = b
  BY DEF sequenceEvent
<1>3. r.buf \in Seq(Frame) /\ Len(r.buf) \in Nat /\ r.nextSeq \in Nat \ {0}
  BY DEF Replay
<1>4. Len(r.buf) <= Cap
  BY <1>3, CapAssumption DEF Window
<1> HIDE DEF f, s, b
<1>5. /\ Len(b) = IF Len(r.buf) < Cap THEN Len(r.buf) + 1 ELSE Cap
      /\ \A i \in 1..Len(b) :
           b[i] = IF i = Len(b) THEN f
                  ELSE IF Len(r.buf) < Cap THEN r.buf[i] ELSE r.buf[i + 1]
  BY <1>1, <1>3, <1>4, PushBuf DEF b
<1>6. Len(b) = IF r.nextSeq < Cap THEN r.nextSeq ELSE Cap
  BY <1>3, <1>5, CapAssumption DEF Window
<1>7. ASSUME NEW i \in 1..Len(b) PROVE b[i].seq = r.nextSeq - Len(b) + i
  <2>0. Len(b) \in Nat /\ i \in Nat
    BY <1>3, <1>6, CapAssumption
  <2>1. CASE i = Len(b)
    <3>1. b[i] = f
      BY <1>5, <2>1
    <3>2. b[i].seq = r.nextSeq
      BY <1>1, <3>1
    <3> QED
      BY <1>3, <2>0, <2>1, <3>2
  <2>2. CASE i # Len(b) /\ Len(r.buf) < Cap
    <3>1. b[i] = r.buf[i] /\ i \in 1..Len(r.buf) /\ Len(b) = Len(r.buf) + 1
      BY <1>3, <1>5, <2>2, CapAssumption
    <3>2. r.buf[i].seq = r.nextSeq - 1 - Len(r.buf) + i
      BY <3>1 DEF Window
    <3> QED
      BY <1>3, <3>1, <3>2
  <2>3. CASE i # Len(b) /\ ~(Len(r.buf) < Cap)
    <3>1. b[i] = r.buf[i + 1] /\ i + 1 \in 1..Len(r.buf) /\ Len(b) = Len(r.buf)
      BY <1>3, <1>4, <1>5, <2>3, CapAssumption
    <3>2. r.buf[i + 1].seq = r.nextSeq - 1 - Len(r.buf) + (i + 1)
      BY <3>1 DEF Window
    <3>3. b[i].seq = r.nextSeq - 1 - Len(r.buf) + (i + 1)
      BY <3>1, <3>2
    <3>4. r.nextSeq - 1 - Len(r.buf) + (i + 1) = r.nextSeq - Len(r.buf) + i
      BY <1>3, <2>0
    <3>5. Len(b) = Len(r.buf)
      BY <3>1
    <3> QED
      BY <3>3, <3>4, <3>5
  <2> QED
    BY <2>1, <2>2, <2>3
<1>8. Window(s)
  BY <1>2, <1>3, <1>6, <1>7, CapAssumption DEF Window
<1> QED
  BY <1>8 DEF s

LEMMA NumbersWindow ==
  ASSUME TypeInv, ReplayWindow, NEW c \in Conns, conn[c].cred \in Creds, NEW before,
         Numbers(c, before)
  PROVE  ReplayWindow'
<1>1. replay \in [Creds -> Replay] /\ \A k \in Creds : replay[k] \in Replay /\ Window(replay[k])
  BY TypeParts DEF RestOK, Replay, ReplayWindow, Window
<1>2. UNCHANGED replay \/ \E ev \in Events \cup Signals, pver \in Nat, bver \in Nat :
        replay' = [replay EXCEPT ![conn[c].cred] = sequenceEvent(@, ev, pver, bver)]
  BY DEF Numbers
<1>3. \A k \in Creds : Window(replay'[k])
  BY <1>1, <1>2, SequenceWindow
<1> QED
  BY <1>3 DEF ReplayWindow, Window

LEMMA FingerprintedNumbers ==
  ASSUME TypeInv, NEW t \in tasks, Fingerprinted(t)
  PROVE  /\ t.conn \in Conns /\ conn[t.conn].cred \in Creds
         /\ ConnShift /\ SameAuths /\ tasks' = tasks \ {t}
         /\ resume' = [resume EXCEPT ![t.conn] = [from |-> t.last, upto |-> t.upto,
                                                 lost |-> t.lost]]
         /\ \/ t.lost /\ Numbers(t.conn, <<Signal("authenticated")>>)
            \/ ~t.lost /\ OnWire(t.conn, <<Signal("authenticated")>> \o t.owed) /\ UNCHANGED replay
<1> DEFINE c == t.conn
           j == sendJson(conn[c])
           d == [j EXCEPT !.hb = TRUE, !.strayHb = @ \/ conn[c].hb]
           hello == <<Signal("authenticated")>>
<1>1. /\ c \in Conns /\ conn[c] \in Conn /\ conn[c].cred \in Creds
      /\ t.lost \in BOOLEAN /\ t.owed \in Seq(Frame) /\ conn \in [Conns -> Conn]
  BY TaskOut, TaskFields, TypeParts DEF Fingerprinted, CarriedKinds
<1>2. j \in Conn /\ Alike(conn[c], j)
  BY <1>1, SendJsonSame DEF Same
<1>3. conn[c].hb \in BOOLEAN
  BY <1>1 DEF Conn
<1>4. d \in Conn /\ Alike(j, d)
  <2> HIDE DEF j, c
  <2> QED
    BY <1>2, <1>3 DEF Conn, Alike
<1>5. Shift(conn[c], d) /\ d.auths = conn[c].auths
  BY <1>2, <1>4, SameShift, ShiftTransitive
<1>6. CASE t.lost
  <2>1. SendSequenced(c, d, hello, "recovery", 0, 0) /\ "recovery" \in Events \cup Signals
    BY <1>6 DEF Fingerprinted, Signals
  <2> HIDE DEF c, d, hello
  <2>2. ConnShift /\ SameAuths /\ Numbers(c, hello)
    BY <1>1, <1>4, <1>5, <2>1, SendSequencedNumbers
  <2> QED
    BY <1>1, <1>6, <2>2 DEF Fingerprinted, c, hello
<1>7. CASE ~t.lost
  <2> DEFINE e == SendMany(d, Len(t.owed))
  <2>1. conn' = [conn EXCEPT ![c] = e]
    BY <1>7 DEF Fingerprinted
  <2>2. OnWire(c, hello \o t.owed) /\ UNCHANGED replay
    BY <1>7 DEF Fingerprinted
  <2> HIDE DEF d, hello
  <2>3. e \in Conn /\ Alike(d, e)
    BY <1>1, <1>4, SendManySame DEF Same
  <2>4. Shift(conn[c], e) /\ e.auths = conn[c].auths
    BY <1>5, <2>3, ShiftTransitive
  <2> HIDE DEF e
  <2>5. ConnShift /\ SameAuths
    BY <1>1, <2>1, <2>4, UpdateShift
  <2> QED
    BY <1>1, <1>7, <2>2, <2>5 DEF Fingerprinted, hello
<1> QED
  BY <1>1, <1>6, <1>7

-----------------------------------------------------------------------------
(* What a resuming harness is owed, and that it gets it once.                *)

\* Nothing was promised or sent on a socket before a credential was accepted.
OpenInv ==
  /\ \A c \in Conns : conn[c].phase = "none" => conn[c].cred = None
  /\ \A c \in Conns : conn[c].cred = None => resume[c] = None /\ wire[c] = <<>>
  /\ \A t \in tasks : t.kind = "auth" => conn[t.conn].phase # "none"

\* The frames a suspended authentication holds are the ones it promised.
OwedInv ==
  \A t \in tasks :
    t.kind = "fingerprint" /\ t.last # None /\ ~t.lost
    => (t.last + 1)..t.upto \subseteq Seqs(t.owed)

ResumeInv == Halted /\ ReplayWindow /\ OpenInv /\ OwedInv /\ ResumeComplete

\* With one auth frame per socket a connection has at most one authentication
\* under way, and none once it resumed.
OneAuth ==
  /\ \A t, u \in tasks :
       t.kind \in AuthKinds /\ u.kind \in AuthKinds /\ t.conn = u.conn => t = u
  /\ \A t \in tasks :
       t.kind \in AuthKinds => conn[t.conn].auths > 0 /\ resume[t.conn] = None
  /\ \A t \in tasks : t.kind = "auth" => conn[t.conn].cred = None
  /\ \A c \in Conns : conn[c].cred # None => conn[c].auths > 0

Distinct(frames) ==
  \A i, j \in DOMAIN frames : frames[i].seq = frames[j].seq /\ frames[i].seq > 0 => i = j

\* Live frames are numbered after everything that was sent or is owed.
Numbered ==
  server # "stopped" =>
    /\ \A c \in Conns : conn[c].cred \in Creds =>
         \A i \in DOMAIN wire[c] : wire[c][i].seq < replay[conn[c].cred].nextSeq
    /\ \A t \in tasks : t.kind = "fingerprint" =>
         /\ t.upto < replay[conn[t.conn].cred].nextSeq
         /\ Distinct(t.owed) /\ \A i \in DOMAIN t.owed : t.owed[i].seq <= t.upto
         /\ \A i \in DOMAIN wire[t.conn] : wire[t.conn][i].seq = 0 \/ wire[t.conn][i].seq > t.upto

OnceInv == OneAuth /\ Numbered /\ NoDuplicateOnWire

LEMMA ConcatSeqs ==
  ASSUME NEW s \in Seq(Frame), NEW f \in Seq(Frame)
  PROVE  Seqs(s) \subseteq Seqs(s \o f) /\ Seqs(f) \subseteq Seqs(s \o f)
<1>1. /\ Len(s \o f) = Len(s) + Len(f) /\ Len(s) \in Nat /\ Len(f) \in Nat
      /\ \A i \in 1..Len(s) : (s \o f)[i] = s[i]
      /\ \A i \in 1..Len(f) : (s \o f)[Len(s) + i] = f[i]
  BY ConcatProperties
<1>2. DOMAIN s = 1..Len(s) /\ DOMAIN f = 1..Len(f) /\ DOMAIN (s \o f) = 1..Len(s \o f)
  BY ConcatProperties
<1>3. ASSUME NEW i \in 1..Len(s) PROVE s[i].seq \in Seqs(s \o f)
  <2>1. i \in 1..Len(s \o f) /\ (s \o f)[i] = s[i]
    BY <1>1
  <2> QED
    BY <2>1, <1>2 DEF Seqs
<1>4. ASSUME NEW i \in 1..Len(f) PROVE f[i].seq \in Seqs(s \o f)
  <2>1. Len(s) + i \in 1..Len(s \o f) /\ (s \o f)[Len(s) + i] = f[i]
    BY <1>1
  <2> QED
    BY <2>1, <1>2 DEF Seqs
<1> QED
  BY <1>2, <1>3, <1>4 DEF Seqs

\* What is sent is added to the wire of one connection.
LEMMA OnWireFacts ==
  ASSUME TypeInv, NEW c \in Conns, NEW fr \in Seq(Frame), OnWire(c, fr)
  PROVE  /\ wire'[c] = IF conn[c].sock = "open" THEN wire[c] \o fr ELSE wire[c]
         /\ \A b \in Conns : b # c => wire'[b] = wire[b]
         /\ \A b \in Conns : Seqs(wire[b]) \subseteq Seqs(wire'[b])
         /\ conn[c].sock = "open" => Seqs(fr) \subseteq Seqs(wire'[c])
<1>1. wire \in [Conns -> Seq(Frame)] /\ wire[c] \in Seq(Frame)
  BY TypeParts DEF RestOK
<1>2. /\ wire'[c] = IF conn[c].sock = "open" THEN wire[c] \o fr ELSE wire[c]
      /\ \A b \in Conns : b # c => wire'[b] = wire[b]
  BY <1>1 DEF OnWire
<1>3. Seqs(wire[c]) \subseteq Seqs(wire[c] \o fr) /\ Seqs(fr) \subseteq Seqs(wire[c] \o fr)
  BY <1>1, ConcatSeqs
<1>4. \A b \in Conns : Seqs(wire[b]) \subseteq Seqs(wire'[b])
  <2> SUFFICES ASSUME NEW b \in Conns PROVE Seqs(wire[b]) \subseteq Seqs(wire'[b])
    OBVIOUS
  <2>1. CASE b = c
    BY <1>2, <1>3, <2>1
  <2>2. CASE b # c
    BY <1>2, <2>2
  <2> QED
    BY <2>1, <2>2
<1> QED
  BY <1>2, <1>3, <1>4

\* A numbered frame takes the next number of the credential.
LEMMA NumbersWire ==
  ASSUME TypeInv, NEW c \in Conns, conn[c].cred \in Creds, NEW before \in Seq(Frame),
         Numbers(c, before)
  PROVE  \E fr \in Seq(Frame) :
           /\ OnWire(c, fr)
           /\ \/ fr = before /\ UNCHANGED replay
              \/ /\ \E f \in Frame : fr = Append(before, f) /\ f.seq = replay[conn[c].cred].nextSeq
                 /\ replay'[conn[c].cred].nextSeq = replay[conn[c].cred].nextSeq + 1
                 /\ \A k \in Creds : k # conn[c].cred => replay'[k] = replay[k]
<1> DEFINE k == conn[c].cred
<1>1. replay \in [Creds -> Replay] /\ replay[k] \in Replay
  BY TypeParts DEF RestOK, Replay
<1>2. PICK ev \in Events \cup Signals, pver \in Nat, bver \in Nat :
        \/ /\ replay' = [replay EXCEPT ![k] = sequenceEvent(@, ev, pver, bver)]
           /\ OnWire(c, Append(before, [seq |-> replay[k].nextSeq, ev |-> ev, pver |-> pver,
                                        bver |-> bver]))
        \/ UNCHANGED replay /\ OnWire(c, before)
  BY DEF Numbers
<1> DEFINE f == [seq |-> replay[k].nextSeq, ev |-> ev, pver |-> pver, bver |-> bver]
<1>3. f \in Frame /\ f.seq = replay[k].nextSeq
  BY <1>1, SequenceType
<1>4. sequenceEvent(replay[k], ev, pver, bver).nextSeq = replay[k].nextSeq + 1
  BY DEF sequenceEvent
<1>5. \/ /\ replay' = [replay EXCEPT ![k] = sequenceEvent(replay[k], ev, pver, bver)]
         /\ OnWire(c, Append(before, f))
      \/ UNCHANGED replay /\ OnWire(c, before)
  BY <1>2
<1> HIDE DEF f
<1>6. Append(before, f) \in Seq(Frame)
  BY <1>3
<1>7. CASE /\ replay' = [replay EXCEPT ![k] = sequenceEvent(replay[k], ev, pver, bver)]
           /\ OnWire(c, Append(before, f))
  <2>1. /\ replay'[k].nextSeq = replay[k].nextSeq + 1
        /\ \A j \in Creds : j # k => replay'[j] = replay[j]
    BY <1>1, <1>4, <1>7
  <2> QED
    BY <1>3, <1>6, <1>7, <2>1
<1>8. CASE UNCHANGED replay /\ OnWire(c, before)
  BY <1>8
<1> QED
  BY <1>5, <1>7, <1>8

\* An authentication that is accepted is owed every frame after the last one
\* seen, when its recovery test says that none is gone.
LEMMA OwedComplete ==
  ASSUME NEW r \in Replay, Window(r), NEW last \in Nat, ~NeedsRecovery(r, last)
  PROVE  (last + 1)..(r.nextSeq - 1) \subseteq Seqs(ItemsSince(r, last))
<1> DEFINE n == r.nextSeq - 1
           items == ItemsSince(r, last)
           L == Len(r.buf)
<1>1. r.nextSeq \in Nat \ {0} /\ r.buf \in Seq(Frame) /\ L \in Nat /\ n \in Nat
  BY DEF Replay
<1>2. /\ L = IF n < Cap THEN n ELSE Cap
      /\ \A i \in 1..L : r.buf[i].seq = n - L + i
  BY DEF Window
<1>3. /\ items \in Seq(Frame)
      /\ items = <<>> => \A i \in 1..L : r.buf[i].seq <= last
      /\ items # <<>> =>
           \E m \in 1..L :
             /\ r.buf[m].seq > last
             /\ \A j \in 1..L : r.buf[j].seq > last => m <= j
             /\ Len(items) = L - m + 1
             /\ \A i \in 1..(L - m + 1) : items[i] = r.buf[m + i - 1]
  BY ItemsSinceBuf
<1> SUFFICES ASSUME NEW s \in (last + 1)..n PROVE s \in Seqs(items)
  OBVIOUS
<1> HIDE DEF items, L, n
<1>4. L > 0 /\ n >= L /\ s \in Nat /\ s > last /\ s <= n
  BY <1>1, <1>2, CapAssumption
<1>5. r.buf # <<>> /\ r.buf[1].seq = n - L + 1
  <2>1. r.buf # <<>>
    BY <1>1, <1>4 DEF L
  <2> QED
    BY <1>2, <1>1, <1>4, <2>1
<1>6. n - L + 1 <= last + 1
  <2>1. ~(r.buf[1].seq > last + 1)
    BY <1>5 DEF NeedsRecovery
  <2> QED
    BY <1>1, <1>5, <2>1
<1> DEFINE i == s - (n - L)
<1>7. i \in 1..L /\ n - L + i = s
  BY <1>1, <1>4, <1>6
<1>8. r.buf[i].seq = s
  BY <1>2, <1>7
<1>9. ~(r.buf[i].seq <= last)
  BY <1>4, <1>8
<1> HIDE DEF i
<1>10. items # <<>>
  BY <1>3, <1>7, <1>9
<1>11. PICK m \in 1..L :
         /\ \A j \in 1..L : r.buf[j].seq > last => m <= j
         /\ Len(items) = L - m + 1
         /\ \A j \in 1..(L - m + 1) : items[j] = r.buf[m + j - 1]
  BY <1>3, <1>10
<1>12. r.buf[i].seq > last
  BY <1>4, <1>8
<1>13. m <= i
  BY <1>7, <1>11, <1>12
<1> DEFINE j == i - m + 1
<1>14. j \in 1..(L - m + 1) /\ m + j - 1 = i
  BY <1>1, <1>7, <1>13
<1>15. items[j] = r.buf[i]
  BY <1>11, <1>14
<1>16. DOMAIN items = 1..Len(items)
  BY <1>3
<1> QED
  BY <1>8, <1>11, <1>14, <1>15, <1>16 DEF Seqs

\* Steps that only add to the wires keep what was promised.
LEMMA PromisesKept ==
  ASSUME TypeInv, ResumeInv, ConnShift, NoNewAuth, UNCHANGED resume,
         \A c \in Conns : Seqs(wire[c]) \subseteq Seqs(wire'[c]),
         \A c \in Conns : conn[c].cred = None => wire'[c] = wire[c]
  PROVE  OpenInv' /\ OwedInv' /\ ResumeComplete'
<1>1. OpenInv'
  <2>1. \A c \in Conns : conn'[c].phase = "none" => conn'[c].cred = None
    BY DEF ResumeInv, OpenInv, ConnShift, Shift
  <2>2. \A c \in Conns : conn'[c].cred = None => resume'[c] = None /\ wire'[c] = <<>>
    BY DEF ResumeInv, OpenInv, ConnShift, Shift
  <2>3. ASSUME NEW t \in tasks', t.kind = "auth" PROVE conn'[t.conn].phase # "none"
    <3>1. t \in tasks
      BY <2>3 DEF NoNewAuth, AuthKinds
    <3>2. t.conn \in Conns /\ conn[t.conn].phase # "none"
      BY <2>3, <3>1, TaskOut DEF ResumeInv, OpenInv
    <3> QED
      BY <3>2 DEF ConnShift, Shift
  <2> QED
    BY <2>1, <2>2, <2>3 DEF OpenInv
<1>2. OwedInv'
  <2> SUFFICES ASSUME NEW t \in tasks', t.kind = "fingerprint", t.last # None, ~t.lost
               PROVE  (t.last + 1)..t.upto \subseteq Seqs(t.owed)
    BY DEF OwedInv
  <2>1. t \in tasks
    BY DEF NoNewAuth, AuthKinds
  <2> QED
    BY <2>1 DEF ResumeInv, OwedInv
<1>3. ResumeComplete'
  <2> SUFFICES ASSUME NEW c \in Conns, resume[c] # None, conn'[c].sock = "open",
                      resume[c].from # None, ~resume[c].lost
               PROVE  (resume[c].from + 1)..resume[c].upto \subseteq Seqs(wire'[c])
    BY DEF ResumeComplete
  <2>1. conn[c].sock = "open"
    <3>1. conn[c].phase # "none"
      BY DEF ResumeInv, OpenInv
    <3> QED
      BY <3>1 DEF ConnShift, Shift
  <2>2. (resume[c].from + 1)..resume[c].upto \subseteq Seqs(wire[c])
    BY <2>1 DEF ResumeInv, ResumeComplete
  <2> QED
    BY <2>2
<1> QED
  BY <1>1, <1>2, <1>3

LEMMA QuietResume ==
   ASSUME TypeInv, ResumeInv, QuietStep
   PROVE  (ReplayWindow /\ OpenInv /\ OwedInv /\ ResumeComplete)'
<1>1. OpenInv' /\ OwedInv' /\ ResumeComplete'
  BY PromisesKept DEF QuietStep
<1>2. ReplayWindow'
  BY DEF QuietStep, ResumeInv, ReplayWindow
<1> QED
  BY <1>1, <1>2

LEMMA SendingResume ==
   ASSUME TypeInv, ResumeInv, SendingStep
   PROVE  (ReplayWindow /\ OpenInv /\ OwedInv /\ ResumeComplete)'
<1>1. PICK c \in Conns : conn[c].cred \in Creds /\ Numbers(c, <<>>)
  BY DEF SendingStep
<1>2. <<>> \in Seq(Frame)
  OBVIOUS
<1>3. PICK fr \in Seq(Frame) : OnWire(c, fr)
  BY <1>1, <1>2, NumbersWire
<1>4. /\ \A b \in Conns : b # c => wire'[b] = wire[b]
      /\ \A b \in Conns : Seqs(wire[b]) \subseteq Seqs(wire'[b])
  BY <1>3, OnWireFacts
<1>5. \A b \in Conns : conn[b].cred = None => wire'[b] = wire[b]
  BY <1>1, <1>4, NoneAssumption
<1>6. OpenInv' /\ OwedInv' /\ ResumeComplete'
  BY <1>4, <1>5, PromisesKept DEF SendingStep
<1>7. ReplayWindow'
  BY <1>1, <1>2, NumbersWindow DEF ResumeInv
<1> QED
  BY <1>6, <1>7

LEMMA AuthFrameResume ==
  ASSUME TypeInv, ResumeInv, NEW c \in Conns, NEW k, NEW last, AuthFrame(c, k, last)
  PROVE  (ReplayWindow /\ OpenInv /\ OwedInv /\ ResumeComplete)'
<1> DEFINE e == [conn[c] EXCEPT !.authTimer = FALSE, !.auths = @ + 1]
<1>0. conn \in [Conns -> Conn] /\ conn[c] \in Conn
  BY TypeParts
<1>1. conn' = [conn EXCEPT ![c] = e] /\ UNCHANGED <<replay, wire, resume>>
  BY <1>0 DEF AuthFrame
<1>2. /\ e.phase = conn[c].phase /\ e.sock = conn[c].sock /\ e.cred = conn[c].cred
  BY <1>0 DEF Conn
<1> HIDE DEF e
<1>3. \A b \in Conns : /\ conn'[b].phase = conn[b].phase /\ conn'[b].sock = conn[b].sock
                       /\ conn'[b].cred = conn[b].cred
  BY <1>0, <1>1, <1>2
<1>4. \A t \in tasks' : t \in tasks \/ (t.kind = "auth" /\ t.conn = c)
  BY DEF AuthFrame
<1>5. conn[c].phase = "authenticating"
  BY DEF AuthFrame
<1>6. ReplayWindow'
  BY <1>1 DEF ResumeInv, ReplayWindow
<1>7. OpenInv'
  <2>1. ASSUME NEW t \in tasks', t.kind = "auth" PROVE conn'[t.conn].phase # "none"
    <3>1. CASE t \in tasks
      <4>1. t.conn \in Conns /\ conn[t.conn].phase # "none"
        BY <2>1, <3>1, TaskOut DEF ResumeInv, OpenInv
      <4> QED
        BY <1>3, <4>1
    <3>2. CASE t.conn = c
      BY <1>3, <1>5, <3>2
    <3> QED
      BY <1>4, <2>1, <3>1, <3>2
  <2> QED
    BY <1>1, <1>3, <2>1 DEF ResumeInv, OpenInv
<1>8. OwedInv'
  BY <1>4 DEF ResumeInv, OwedInv
<1>9. ResumeComplete'
  BY <1>1, <1>3 DEF ResumeInv, ResumeComplete
<1> QED
  BY <1>6, <1>7, <1>8, <1>9

\* The facts about an accepted authentication that the invariants need.
LEMMA AuthAcceptedFacts ==
  ASSUME TypeInv, NEW t \in tasks, AuthAccepted(t)
  PROVE  LET c == t.conn
             r == replay[t.cred]
             lost == t.last # None /\ NeedsRecovery(r, t.last)
             owed == IF t.last = None \/ lost THEN <<>> ELSE ItemsSince(r, t.last)
         IN  /\ t.kind = "auth" /\ c \in Conns /\ conn[c] \in Conn
             /\ t.cred \in Creds /\ t.last \in Nat \cup {None} /\ r \in Replay
             /\ r.nextSeq \in Nat \ {0}
             /\ \E u : /\ tasks' = (tasks \ {t}) \cup {u} /\ u.kind = "fingerprint" /\ u.conn = c
                       /\ u.last = t.last /\ u.upto = r.nextSeq - 1 /\ u.lost = lost
                       /\ u.owed = owed
             /\ \A b \in Conns : b # c => conn'[b] = conn[b]
             /\ conn'[c].cred = t.cred /\ conn'[c].sock = conn[c].sock
             /\ conn'[c].auths = conn[c].auths
             /\ conn'[c].phase = transition(conn[c].phase, "active")
             /\ UNCHANGED <<server, replay, wire, resume>>
<1> DEFINE c == t.conn
           r == replay[t.cred]
           lost == t.last # None /\ NeedsRecovery(r, t.last)
           owed == IF t.last = None \/ lost THEN <<>> ELSE ItemsSince(r, t.last)
           u == [kind |-> "fingerprint", conn |-> c, n |-> t.n, last |-> t.last,
                 upto |-> r.nextSeq - 1, lost |-> lost, owed |-> owed]
           e == [conn[c] EXCEPT !.rec = t.snap, !.cred = t.cred,
                                !.phase = transition(@, "active")]
<1>1. /\ c \in Conns /\ conn[c] \in Conn /\ t.kind = "auth" /\ conn \in [Conns -> Conn]
      /\ t.cred \in Creds /\ t.last \in Nat \cup {None}
  BY TaskOut, TaskFields, TypeParts DEF AuthAccepted
<1>2. r \in Replay /\ r.nextSeq \in Nat \ {0}
  BY <1>1, TypeParts DEF RestOK, Replay
<1>3. /\ conn' = [conn EXCEPT ![c] = e] /\ tasks' = (tasks \ {t}) \cup {u}
      /\ UNCHANGED <<server, replay, wire, resume>>
  BY <1>1 DEF AuthAccepted
<1>4. /\ e.cred = t.cred /\ e.sock = conn[c].sock /\ e.auths = conn[c].auths
      /\ e.phase = transition(conn[c].phase, "active")
  BY <1>1 DEF Conn
<1>5. /\ u.kind = "fingerprint" /\ u.conn = c /\ u.last = t.last
      /\ u.upto = r.nextSeq - 1 /\ u.lost = lost /\ u.owed = owed
  OBVIOUS
<1> HIDE DEF e, u
<1>6. conn'[c] = e /\ \A b \in Conns : b # c => conn'[b] = conn[b]
  BY <1>1, <1>3
<1> QED
  BY <1>1, <1>2, <1>3, <1>4, <1>5, <1>6

LEMMA AuthAcceptedResume ==
  ASSUME TypeInv, ResumeInv, NEW t \in tasks, AuthAccepted(t)
  PROVE  (ReplayWindow /\ OpenInv /\ OwedInv /\ ResumeComplete)'
<1> DEFINE c == t.conn
           r == replay[t.cred]
           lost == t.last # None /\ NeedsRecovery(r, t.last)
           owed == IF t.last = None \/ lost THEN <<>> ELSE ItemsSince(r, t.last)
<1>1. /\ t.kind = "auth" /\ c \in Conns /\ conn[c] \in Conn
      /\ t.cred \in Creds /\ t.last \in Nat \cup {None} /\ r \in Replay /\ r.nextSeq \in Nat \ {0}
      /\ \A b \in Conns : b # c => conn'[b] = conn[b]
      /\ conn'[c].cred = t.cred /\ conn'[c].sock = conn[c].sock
      /\ conn'[c].phase = transition(conn[c].phase, "active")
      /\ UNCHANGED <<replay, wire, resume>>
  BY AuthAcceptedFacts
<1>2. PICK u : /\ tasks' = (tasks \ {t}) \cup {u} /\ u.kind = "fingerprint" /\ u.conn = c
               /\ u.last = t.last /\ u.upto = r.nextSeq - 1 /\ u.lost = lost /\ u.owed = owed
  BY AuthAcceptedFacts
<1>3. ReplayWindow'
  BY <1>1 DEF ResumeInv, ReplayWindow
<1>4. conn[c].phase # "none" /\ conn'[c].phase # "none"
  BY <1>1 DEF ResumeInv, OpenInv, transition
<1>5. OpenInv'
  <2>1. ASSUME NEW v \in tasks', v.kind = "auth" PROVE conn'[v.conn].phase # "none"
    <3>1. v \in tasks /\ v.conn \in Conns
      BY <1>2, <2>1, TaskOut
    <3> QED
      BY <1>1, <1>4, <2>1, <3>1 DEF ResumeInv, OpenInv
  <2>2. \A b \in Conns : conn'[b].phase = "none" => conn'[b].cred = None
    BY <1>1, <1>4 DEF ResumeInv, OpenInv
  <2>3. \A b \in Conns : conn'[b].cred = None => resume'[b] = None /\ wire'[b] = <<>>
    BY <1>1, NoneAssumption DEF ResumeInv, OpenInv
  <2> QED
    BY <2>1, <2>2, <2>3 DEF OpenInv
<1>6. OwedInv'
  <2> SUFFICES ASSUME NEW v \in tasks', v.kind = "fingerprint", v.last # None, ~v.lost
               PROVE  (v.last + 1)..v.upto \subseteq Seqs(v.owed)
    BY DEF OwedInv
  <2>1. CASE v \in tasks
    BY <2>1 DEF ResumeInv, OwedInv
  <2>2. CASE v = u
    <3>1. t.last \in Nat /\ ~NeedsRecovery(r, t.last) /\ v.owed = ItemsSince(r, t.last)
      BY <1>1, <1>2, <2>2
    <3>2. Window(r)
      BY <1>1 DEF ResumeInv, ReplayWindow, Window
    <3>3. (t.last + 1)..(r.nextSeq - 1) \subseteq Seqs(ItemsSince(r, t.last))
      BY <1>1, <3>1, <3>2, OwedComplete
    <3> QED
      BY <1>2, <2>2, <3>1, <3>3
  <2> QED
    BY <1>2, <2>1, <2>2
<1>7. ResumeComplete'
  <2>1. \A b \in Conns : conn'[b].sock = conn[b].sock
    BY <1>1
  <2> QED
    BY <1>1, <2>1 DEF ResumeInv, ResumeComplete
<1> QED
  BY <1>3, <1>5, <1>6, <1>7

LEMMA FingerprintedResume ==
  ASSUME TypeInv, ResumeInv, NEW t \in tasks, Fingerprinted(t)
  PROVE  (ReplayWindow /\ OpenInv /\ OwedInv /\ ResumeComplete)'
<1> DEFINE c == t.conn
           hello == <<Signal("authenticated")>>
           res == [from |-> t.last, upto |-> t.upto, lost |-> t.lost]
<1>1. /\ c \in Conns /\ conn[c].cred \in Creds /\ ConnShift /\ SameAuths /\ tasks' = tasks \ {t}
      /\ resume' = [resume EXCEPT ![c] = res]
      /\ \/ t.lost /\ Numbers(c, hello)
         \/ ~t.lost /\ OnWire(c, hello \o t.owed) /\ UNCHANGED replay
  BY FingerprintedNumbers
<1>2. t.kind = "fingerprint" /\ t.owed \in Seq(Frame) /\ hello \in Seq(Frame)
  BY TaskOut, TaskFields, HelloType DEF Fingerprinted
<1> HIDE DEF hello
<1>3. \E fr \in Seq(Frame) : /\ OnWire(c, fr)
                             /\ ~t.lost => Seqs(t.owed) \subseteq Seqs(fr)
  <2>1. CASE t.lost
    BY <1>1, <1>2, <2>1, NumbersWire
  <2>2. CASE ~t.lost
    <3>1. hello \o t.owed \in Seq(Frame) /\ Seqs(t.owed) \subseteq Seqs(hello \o t.owed)
      BY <1>2, ConcatSeqs
    <3> QED
      BY <1>1, <2>2, <3>1
  <2> QED
    BY <2>1, <2>2
<1>4. PICK fr \in Seq(Frame) : OnWire(c, fr) /\ (~t.lost => Seqs(t.owed) \subseteq Seqs(fr))
  BY <1>3
<1>5. /\ \A b \in Conns : b # c => wire'[b] = wire[b]
      /\ \A b \in Conns : Seqs(wire[b]) \subseteq Seqs(wire'[b])
      /\ conn[c].sock = "open" => Seqs(fr) \subseteq Seqs(wire'[c])
  BY <1>1, <1>4, OnWireFacts
<1>6. ReplayWindow'
  <2>1. CASE UNCHANGED replay
    BY <2>1 DEF ResumeInv, ReplayWindow
  <2>2. CASE Numbers(c, hello)
    BY <1>1, <2>2, NumbersWindow DEF ResumeInv
  <2> QED
    BY <1>1, <2>1, <2>2
<1>7. resume'[c] = res /\ \A b \in Conns : b # c => resume'[b] = resume[b]
  BY <1>1, TypeParts DEF RestOK
<1>8. conn[c].phase # "none"
  BY <1>1, NoneAssumption DEF ResumeInv, OpenInv
<1>9. OpenInv'
  <2>1. \A b \in Conns : conn'[b].phase = "none" => conn'[b].cred = None
    BY <1>1 DEF ResumeInv, OpenInv, ConnShift, Shift
  <2>2. \A b \in Conns : conn'[b].cred = None => resume'[b] = None /\ wire'[b] = <<>>
    <3>1. \A b \in Conns : conn'[b].cred = None => b # c /\ conn[b].cred = None
      BY <1>1, NoneAssumption DEF ConnShift, Shift
    <3> QED
      BY <1>5, <1>7, <3>1 DEF ResumeInv, OpenInv
  <2>3. ASSUME NEW v \in tasks', v.kind = "auth" PROVE conn'[v.conn].phase # "none"
    <3>1. v \in tasks /\ v.conn \in Conns /\ conn[v.conn].phase # "none"
      BY <1>1, <2>3, TaskOut DEF ResumeInv, OpenInv
    <3> QED
      BY <1>1, <3>1 DEF ConnShift, Shift
  <2> QED
    BY <2>1, <2>2, <2>3 DEF OpenInv
<1>10. OwedInv'
  BY <1>1 DEF ResumeInv, OwedInv
<1>11. ResumeComplete'
  <2> SUFFICES ASSUME NEW b \in Conns, resume'[b] # None, conn'[b].sock = "open",
                      resume'[b].from # None, ~resume'[b].lost
               PROVE  (resume'[b].from + 1)..resume'[b].upto \subseteq Seqs(wire'[b])
    BY DEF ResumeComplete
  <2>1. CASE b = c
    <3>1. t.last # None /\ ~t.lost /\ resume'[b].from = t.last /\ resume'[b].upto = t.upto
      BY <1>7, <2>1
    <3>2. conn[c].sock = "open"
      BY <1>1, <1>8, <2>1 DEF ConnShift, Shift
    <3>3. (t.last + 1)..t.upto \subseteq Seqs(t.owed)
      BY <1>2, <3>1 DEF ResumeInv, OwedInv
    <3> QED
      BY <1>4, <1>5, <2>1, <3>1, <3>2, <3>3
  <2>2. CASE b # c
    <3>1. resume[b] # None /\ resume[b].from # None /\ ~resume[b].lost /\ resume'[b] = resume[b]
      BY <1>7, <2>2
    <3>2. conn[b].phase # "none"
      BY <3>1 DEF ResumeInv, OpenInv
    <3>3. conn[b].sock = "open"
      BY <1>1, <3>2 DEF ConnShift, Shift
    <3> QED
      BY <1>5, <2>2, <3>1, <3>3 DEF ResumeInv, ResumeComplete
  <2> QED
    BY <2>1, <2>2
<1> QED
  BY <1>6, <1>9, <1>10, <1>11

LEMMA FinishStopFacts ==
  ASSUME TypeInv, NEW t \in tasks, FinishStop(t)
  PROVE  /\ ConnShift /\ SameAuths /\ tasks' = tasks \ {t} /\ UNCHANGED <<wire, resume>>
         /\ replay' = [k \in Creds |-> FreshReplay] /\ server' = "stopped"
<1>1. conn' = [c \in Conns |-> IF c \in t.left THEN cleanupConnection(conn[c]) ELSE conn[c]]
  BY DEF FinishStop
<1>2. ASSUME NEW d \in Conn PROVE /\ Shift(d, cleanupConnection(d)) /\ Shift(d, d)
                                  /\ cleanupConnection(d).auths = d.auths
  BY DEF Conn, Shift, cleanupConnection
<1>3. ConnShift /\ SameAuths
  BY <1>1, <1>2, TypeParts DEF ConnShift, SameAuths
<1> QED
  BY <1>3 DEF FinishStop

LEMMA FinishStopResume ==
  ASSUME TypeInv, ResumeInv, NEW t \in tasks, FinishStop(t)
  PROVE  (ReplayWindow /\ OpenInv /\ OwedInv /\ ResumeComplete)'
<1>1. /\ ConnShift /\ tasks' = tasks \ {t} /\ UNCHANGED <<wire, resume>>
      /\ replay' = [k \in Creds |-> FreshReplay]
  BY FinishStopFacts
<1>2. OpenInv' /\ OwedInv' /\ ResumeComplete'
  BY <1>1, PromisesKept DEF NoNewAuth
<1>3. ReplayWindow'
  BY <1>1, CapAssumption DEF ReplayWindow, FreshReplay
<1> QED
  BY <1>2, <1>3

LEMMA ResumeStep == TypeInv /\ SnapInv /\ ResumeInv /\ [Next]_vars => ResumeInv'
<1> SUFFICES ASSUME TypeInv, SnapInv, ResumeInv, [Next]_vars PROVE ResumeInv'
  OBVIOUS
<1>0. Counted /\ Halted
  BY DEF SnapInv, ResumeInv
<1>1. Halted'
  BY <1>0, HaltedStep
<1>2. (ReplayWindow /\ OpenInv /\ OwedInv /\ ResumeComplete)'
  <2>1. CASE UNCHANGED vars
    <3>1. QuietStep
      BY <2>1, ServerQuiet
    <3> QED
      BY <3>1, QuietResume
  <2>2. CASE Next
    <3>1. QuietStep \/ SendingStep \/ AuthStep \/ \E t \in tasks : FinishStop(t)
      BY <1>0, <2>2, StepKinds
    <3>2. CASE AuthStep
      BY <3>2, AuthFrameResume, AuthAcceptedResume, FingerprintedResume DEF AuthStep
    <3> QED
      BY <3>1, <3>2, QuietResume, SendingResume, FinishStopResume
  <2> QED
    BY <2>1, <2>2
<1> QED
  BY <1>1, <1>2 DEF ResumeInv

LEMMA ResumeInit == Init => ResumeInv
<1> SUFFICES ASSUME Init PROVE ResumeInv
  OBVIOUS
<1>1. Halted /\ OpenInv /\ OwedInv /\ ResumeComplete
  BY DEF Init, Halted, OpenInv, OwedInv, ResumeComplete, createConnectionState
<1>2. ReplayWindow
  BY CapAssumption DEF Init, ReplayWindow, FreshReplay
<1> QED
  BY <1>1, <1>2 DEF ResumeInv

\* A harness that resumes and is not told to resync has every frame it missed,
\* whatever was numbered, evicted or sent by other connections while its
\* authentication was suspended (handleAuthFrame of server.ts).
THEOREM ResumesComplete == Spec => [](ReplayWindow /\ ResumeComplete)
<1>1. ResumeInv => ReplayWindow /\ ResumeComplete
  BY DEF ResumeInv
<1>2. Spec => []ResumeInv
  BY ResumeInit, ResumeStep, TypesHold, PTL DEF Spec
<1> QED
  BY <1>1, <1>2, PTL

\* What a step does to the replay buffer of one credential.
LEMMA NumbersLogged ==
  ASSUME TypeInv, NEW k \in Creds, NEW c \in Conns, conn[c].cred \in Creds, NEW before,
         Numbers(c, before)
  PROVE  Log(k)!LogNext \/ UNCHANGED replay[k].buf
<1>1. CASE UNCHANGED replay
  BY <1>1
<1>2. ASSUME NEW ev \in Events \cup Signals, NEW pver \in Nat, NEW bver \in Nat,
             replay' = [replay EXCEPT ![conn[c].cred] = sequenceEvent(@, ev, pver, bver)]
      PROVE  Log(k)!LogNext \/ UNCHANGED replay[k].buf
  <2>1. replay \in [Creds -> Replay] /\ replay[k] \in Replay
    BY TypeParts DEF RestOK, Replay
  <2>2. CASE k # conn[c].cred
    <3>1. replay'[k] = replay[k]
      BY <1>2, <2>1, <2>2
    <3> QED
      BY <3>1
  <2>3. CASE k = conn[c].cred
    <3> DEFINE f == [seq |-> replay[k].nextSeq, ev |-> ev, pver |-> pver, bver |-> bver]
    <3>1. f \in Frame
      BY <2>1, SequenceType
    <3>2. replay'[k].buf = Push(replay[k].buf, f)
      BY <1>2, <2>1, <2>3 DEF sequenceEvent
    <3> HIDE DEF f
    <3> QED
      BY <3>1, <3>2 DEF Log!LogNext, Log!LogPush, Log!Slide, Push
  <2> QED
    BY <2>2, <2>3
<1> QED
  BY <1>1, <1>2 DEF Numbers

LEMMA StepLogged ==
  ASSUME TypeInv, Counted, Halted, Next, NEW k \in Creds
  PROVE  Log(k)!LogNext \/ UNCHANGED replay[k].buf
<1>1. QuietStep \/ SendingStep \/ AuthStep \/ \E t \in tasks : FinishStop(t)
  BY StepKinds
<1>2. CASE QuietStep
  BY <1>2 DEF QuietStep
<1>3. CASE SendingStep
  BY <1>3, NumbersLogged DEF SendingStep
<1>4. CASE AuthStep
  <2>1. ASSUME NEW t \in tasks, Fingerprinted(t)
        PROVE  Log(k)!LogNext \/ UNCHANGED replay[k].buf
    <3>1. UNCHANGED replay \/ Numbers(t.conn, <<Signal("authenticated")>>)
      BY <2>1, FingerprintedNumbers
    <3>2. t.conn \in Conns /\ conn[t.conn].cred \in Creds
      BY <2>1, FingerprintedNumbers
    <3>3. CASE UNCHANGED replay
      BY <3>3
    <3> QED
      BY <3>1, <3>2, <3>3, NumbersLogged
  <2>2. ASSUME NEW c, NEW cred, NEW last, AuthFrame(c, cred, last) PROVE UNCHANGED replay
    BY <2>2 DEF AuthFrame
  <2>3. ASSUME NEW t, AuthAccepted(t) PROVE UNCHANGED replay
    BY <2>3 DEF AuthAccepted
  <2> QED
    BY <1>4, <2>1, <2>2, <2>3 DEF AuthStep
<1>5. ASSUME NEW t \in tasks, FinishStop(t)
      PROVE  Log(k)!LogNext \/ UNCHANGED replay[k].buf
  <2>1. replay'[k].buf = <<>>
    BY <1>5, FinishStopFacts DEF FreshReplay
  <2> QED
    BY <2>1 DEF Log!LogNext, Log!LogClear
<1> QED
  BY <1>1, <1>2, <1>3, <1>4, <1>5

\* The replay buffer of every credential is a window of the last Cap frames
\* numbered for it, whichever connection, heartbeat, recovery or shutdown notice
\* numbers them, and only stop() empties it (sendSequenced and stop of
\* server.ts): the contract the circular buffer implements.
THEOREM ReplaysAreLogs ==
  ASSUME NEW k \in Creds
  PROVE  Spec => Log(k)!LogSpec
<1>1. Init => Log(k)!LogInit
  BY DEF Init, Log!LogInit, FreshReplay
<1>2. TypeInv /\ SnapInv /\ ResumeInv /\ [Next]_vars => [Log(k)!LogNext]_(replay[k].buf)
  <2> SUFFICES ASSUME TypeInv, SnapInv, ResumeInv, [Next]_vars
               PROVE  Log(k)!LogNext \/ UNCHANGED replay[k].buf
    OBVIOUS
  <2>1. CASE UNCHANGED vars
    BY <2>1 DEF vars
  <2>2. CASE Next
    BY <2>2, StepLogged DEF SnapInv, ResumeInv
  <2> QED
    BY <2>1, <2>2
<1>3. Spec => []ResumeInv
  BY ResumeInit, ResumeStep, TypesHold, PTL DEF Spec
<1> QED
  BY <1>1, <1>2, <1>3, TypesHold, PTL DEF Spec, Log!LogSpec

\* A closed connection stays closed, whatever resumes after the close
\* (connection-state.ts).
THEOREM ClosedStaysClosed == Spec => NoResurrection
<1> DEFINE Stays == \A c \in Conns : conn[c].phase = "closed" => conn'[c].phase = "closed"
<1>1. ASSUME TypeInv, SnapInv, ResumeInv, [Next]_vars PROVE Stays
  <2>0. Counted /\ Halted
    BY <1>1 DEF SnapInv, ResumeInv
  <2>1. ConnShift => Stays
    BY DEF ConnShift, Shift
  <2>2. CASE UNCHANGED vars
    BY <2>2 DEF vars
  <2>3. CASE Next
    <3>1. QuietStep \/ SendingStep \/ AuthStep \/ \E t \in tasks : FinishStop(t)
      BY <1>1, <2>0, <2>3, StepKinds
    <3>2. ASSUME NEW c \in Conns, NEW k, NEW last, AuthFrame(c, k, last) PROVE Stays
      BY <1>1, <3>2, TypeParts DEF AuthFrame, Conn
    <3>3. ASSUME NEW t \in tasks, AuthAccepted(t) PROVE Stays
      <4>1. /\ t.conn \in Conns /\ \A b \in Conns : b # t.conn => conn'[b] = conn[b]
            /\ conn'[t.conn].phase = transition(conn[t.conn].phase, "active")
        BY <1>1, <3>3, AuthAcceptedFacts
      <4> QED
        BY <4>1 DEF transition, VALID_TRANSITIONS
    <3>4. ASSUME NEW t \in tasks, Fingerprinted(t) \/ FinishStop(t) PROVE Stays
      BY <1>1, <2>1, <3>4, FingerprintedNumbers, FinishStopFacts
    <3> QED
      BY <2>1, <3>1, <3>2, <3>3, <3>4 DEF QuietStep, SendingStep, AuthStep
  <2> QED
    BY <1>1, <2>2, <2>3
<1>2. TypeInv /\ SnapInv /\ ResumeInv /\ [Next]_vars => [Stays]_vars
  BY <1>1
<1>3. Spec => []ResumeInv
  BY ResumeInit, ResumeStep, TypesHold, PTL DEF Spec
<1> QED
  BY <1>2, <1>3, TypesHold, PTL DEF Spec, NoResurrection

-----------------------------------------------------------------------------
(* No frame twice, with one auth frame per socket.                           *)

\* A wire or buffer holds frames, numbered by naturals.
LEMMA FrameSeq ==
  ASSUME NEW s \in Seq(Frame)
  PROVE  DOMAIN s = 1..Len(s) /\ Len(s) \in Nat /\ \A i \in DOMAIN s : s[i].seq \in Nat
<1>1. DOMAIN s = 1..Len(s) /\ Len(s) \in Nat
  OBVIOUS
<1>2. \A i \in DOMAIN s : s[i] \in Frame
  BY <1>1
<1> QED
  BY <1>1, <1>2 DEF Frame

\* Where the frames of a concatenation come from.
LEMMA ConcatFrames ==
  ASSUME NEW s \in Seq(Frame), NEW f \in Seq(Frame), NEW i \in DOMAIN (s \o f)
  PROVE  \/ i \in DOMAIN s /\ (s \o f)[i] = s[i]
         \/ i > Len(s) /\ i - Len(s) \in DOMAIN f /\ (s \o f)[i] = f[i - Len(s)]
<1>1. /\ Len(s \o f) = Len(s) + Len(f) /\ Len(s) \in Nat /\ Len(f) \in Nat
      /\ \A j \in 1..Len(s) : (s \o f)[j] = s[j]
      /\ \A j \in 1..Len(f) : (s \o f)[Len(s) + j] = f[j]
  BY ConcatProperties
<1>2. DOMAIN s = 1..Len(s) /\ DOMAIN f = 1..Len(f) /\ DOMAIN (s \o f) = 1..Len(s \o f)
  BY ConcatProperties
<1>3. i \in Nat /\ i >= 1 /\ i <= Len(s) + Len(f)
  BY <1>1, <1>2
<1>4. CASE i <= Len(s)
  BY <1>1, <1>2, <1>3, <1>4
<1>5. CASE i > Len(s)
  <2> DEFINE j == i - Len(s)
  <2>1. j \in 1..Len(f) /\ Len(s) + j = i
    BY <1>1, <1>3, <1>5
  <2>2. (s \o f)[i] = f[j]
    BY <1>1, <2>1
  <2> QED
    BY <1>2, <1>5, <2>1, <2>2
<1> QED
  BY <1>1, <1>3, <1>4, <1>5

LEMMA DistinctConcat ==
  ASSUME NEW s \in Seq(Frame), NEW f \in Seq(Frame), Distinct(s), Distinct(f),
         \A i \in DOMAIN f : f[i].seq = 0 \/ \A j \in DOMAIN s : s[j].seq # f[i].seq
  PROVE  Distinct(s \o f)
<1> SUFFICES ASSUME NEW i \in DOMAIN (s \o f), NEW j \in DOMAIN (s \o f),
                    (s \o f)[i].seq = (s \o f)[j].seq, (s \o f)[i].seq > 0
             PROVE  i = j
  BY DEF Distinct
<1>0. DOMAIN (s \o f) \subseteq Nat /\ Len(s) \in Nat
  BY ConcatProperties
<1>1. \/ i \in DOMAIN s /\ (s \o f)[i] = s[i]
      \/ i > Len(s) /\ i - Len(s) \in DOMAIN f /\ (s \o f)[i] = f[i - Len(s)]
  BY ConcatFrames
<1>2. \/ j \in DOMAIN s /\ (s \o f)[j] = s[j]
      \/ j > Len(s) /\ j - Len(s) \in DOMAIN f /\ (s \o f)[j] = f[j - Len(s)]
  BY ConcatFrames
<1>3. CASE i \in DOMAIN s /\ (s \o f)[i] = s[i] /\ j \in DOMAIN s /\ (s \o f)[j] = s[j]
  BY <1>3 DEF Distinct
<1>4. CASE /\ i - Len(s) \in DOMAIN f /\ (s \o f)[i] = f[i - Len(s)]
           /\ j - Len(s) \in DOMAIN f /\ (s \o f)[j] = f[j - Len(s)]
  <2>1. i - Len(s) = j - Len(s)
    BY <1>4 DEF Distinct
  <2> QED
    BY <1>0, <2>1
<1>5. CASE /\ i - Len(s) \in DOMAIN f /\ (s \o f)[i] = f[i - Len(s)]
           /\ j \in DOMAIN s /\ (s \o f)[j] = s[j]
  <2>1. (s \o f)[i].seq # 0
    OBVIOUS
  <2> QED
    BY <1>5, <2>1
<1>6. CASE /\ j - Len(s) \in DOMAIN f /\ (s \o f)[j] = f[j - Len(s)]
           /\ i \in DOMAIN s /\ (s \o f)[i] = s[i]
  <2>1. (s \o f)[j].seq # 0
    OBVIOUS
  <2> QED
    BY <1>6, <2>1
<1> QED
  BY <1>1, <1>2, <1>3, <1>4, <1>5, <1>6

\* What is replayed is a part of the buffer: no number twice, none to come.
LEMMA OwedOnce ==
  ASSUME NEW r \in Replay, Window(r), NEW last \in Nat
  PROVE  LET items == ItemsSince(r, last)
         IN  /\ items \in Seq(Frame) /\ Distinct(items)
             /\ \A i \in DOMAIN items : items[i].seq <= r.nextSeq - 1
<1> DEFINE n == r.nextSeq - 1
           items == ItemsSince(r, last)
           L == Len(r.buf)
<1>1. r.nextSeq \in Nat \ {0} /\ r.buf \in Seq(Frame) /\ L \in Nat /\ n \in Nat
  BY DEF Replay
<1>2. \A i \in 1..L : r.buf[i].seq = n - L + i
  BY DEF Window
<1>3. /\ items \in Seq(Frame)
      /\ items # <<>> =>
           \E m \in 1..L :
             /\ Len(items) = L - m + 1
             /\ \A i \in 1..(L - m + 1) : items[i] = r.buf[m + i - 1]
  BY ItemsSinceBuf
<1> HIDE DEF items, L, n
<1>4. CASE items = <<>>
  BY <1>3, <1>4 DEF Distinct, items
<1>5. CASE items # <<>>
  <2>1. PICK m \in 1..L : /\ Len(items) = L - m + 1
                          /\ \A i \in 1..(L - m + 1) : items[i] = r.buf[m + i - 1]
    BY <1>3, <1>5
  <2>2. ASSUME NEW i \in DOMAIN items
        PROVE  i \in Nat /\ items[i].seq = n - L + (m + i - 1) /\ items[i].seq <= n
    <3>1. i \in 1..(L - m + 1)
      BY <1>3, <2>1
    <3>2. m + i - 1 \in 1..L /\ i \in Nat
      BY <1>1, <3>1
    <3>3. items[i].seq = n - L + (m + i - 1)
      BY <1>2, <2>1, <3>1, <3>2
    <3> QED
      BY <1>1, <3>1, <3>2, <3>3
  <2>3. Distinct(items)
    <3> SUFFICES ASSUME NEW i \in DOMAIN items, NEW j \in DOMAIN items,
                        items[i].seq = items[j].seq
                 PROVE  i = j
      BY DEF Distinct
    <3>1. n - L + (m + i - 1) = n - L + (m + j - 1) /\ i \in Nat /\ j \in Nat
      BY <2>2
    <3> QED
      BY <1>1, <3>1
  <2> QED
    BY <1>3, <2>2, <2>3 DEF items, n
<1> QED
  BY <1>4, <1>5

\* A wire that grows by frames that are new to it, and are numbered before the
\* next number of the credential.
LEMMA WireGrows ==
  ASSUME TypeInv, server # "stopped", Numbered, NoDuplicateOnWire, ConnShift,
         NEW c \in Conns, conn[c].cred \in Creds, NEW fr \in Seq(Frame), OnWire(c, fr),
         \A k \in Creds : /\ replay'[k].nextSeq \in Nat
                          /\ replay[k].nextSeq <= replay'[k].nextSeq,
         \A t \in tasks' : t.kind = "fingerprint" => t \in tasks,
         Distinct(fr),
         \A i \in DOMAIN fr : fr[i].seq < replay'[conn[c].cred].nextSeq,
         \A i \in DOMAIN fr : fr[i].seq = 0 \/ \A j \in DOMAIN wire[c] : wire[c][j].seq # fr[i].seq,
         \A t \in tasks' : t.kind = "fingerprint" /\ t.conn = c =>
           \A i \in DOMAIN fr : fr[i].seq = 0 \/ fr[i].seq > t.upto
  PROVE  Numbered' /\ NoDuplicateOnWire'
<1>1. /\ wire'[c] = IF conn[c].sock = "open" THEN wire[c] \o fr ELSE wire[c]
      /\ \A b \in Conns : b # c => wire'[b] = wire[b]
  BY OnWireFacts
<1>2. \A b \in Conns : wire[b] \in Seq(Frame) /\ Distinct(wire[b])
  BY TypeParts DEF RestOK, NoDuplicateOnWire, Distinct
<1>3. \A b \in Conns : Distinct(wire'[b])
  BY <1>1, <1>2, DistinctConcat
<1>4. \A b \in Conns : conn'[b].cred = conn[b].cred
  BY DEF ConnShift, Shift
<1>5. \A b \in Conns : \A i \in DOMAIN wire'[b] :
        \/ i \in DOMAIN wire[b] /\ wire'[b][i] = wire[b][i]
        \/ b = c /\ \E j \in DOMAIN fr : wire'[b][i] = fr[j]
  <2> SUFFICES ASSUME NEW i \in DOMAIN wire'[c]
               PROVE  \/ i \in DOMAIN wire[c] /\ wire'[c][i] = wire[c][i]
                      \/ \E j \in DOMAIN fr : wire'[c][i] = fr[j]
    BY <1>1
  <2>1. CASE conn[c].sock = "open"
    <3>1. wire'[c] = wire[c] \o fr
      BY <1>1, <2>1
    <3> QED
      BY <1>2, <3>1, ConcatFrames
  <2>2. CASE conn[c].sock # "open"
    BY <1>1, <2>2
  <2> QED
    BY <2>1, <2>2
<1>6. \A k \in Creds : replay[k].nextSeq \in Nat
  BY TypeParts DEF RestOK
<1>7. ASSUME NEW b \in Conns, conn[b].cred \in Creds, NEW i \in DOMAIN wire'[b]
      PROVE  wire'[b][i].seq < replay'[conn[b].cred].nextSeq
  <2>1. CASE i \in DOMAIN wire[b] /\ wire'[b][i] = wire[b][i]
    <3>1. wire[b][i].seq < replay[conn[b].cred].nextSeq /\ wire[b][i].seq \in Nat
      BY <1>2, <1>7, <2>1, FrameSeq DEF Numbered
    <3> QED
      BY <1>6, <1>7, <2>1, <3>1
  <2>2. CASE b = c /\ \E j \in DOMAIN fr : wire'[b][i] = fr[j]
    BY <2>2
  <2> QED
    BY <1>5, <2>1, <2>2
<1>8. ASSUME NEW t \in tasks', t.kind = "fingerprint"
      PROVE  /\ t.upto < replay'[conn'[t.conn].cred].nextSeq
             /\ Distinct(t.owed) /\ \A i \in DOMAIN t.owed : t.owed[i].seq <= t.upto
             /\ \A i \in DOMAIN wire'[t.conn] :
                  wire'[t.conn][i].seq = 0 \/ wire'[t.conn][i].seq > t.upto
  <2>1. t \in tasks
    BY <1>8
  <2>2. t.conn \in Conns /\ conn[t.conn].cred \in Creds /\ t.upto \in Nat
    BY <1>8, <2>1, TaskOut, TaskFields DEF CarriedKinds
  <2>3. /\ t.upto < replay[conn[t.conn].cred].nextSeq
        /\ Distinct(t.owed) /\ \A i \in DOMAIN t.owed : t.owed[i].seq <= t.upto
        /\ \A i \in DOMAIN wire[t.conn] : wire[t.conn][i].seq = 0 \/ wire[t.conn][i].seq > t.upto
    BY <1>8, <2>1 DEF Numbered
  <2>4. t.upto < replay'[conn'[t.conn].cred].nextSeq
    BY <1>4, <1>6, <2>2, <2>3
  <2>5. ASSUME NEW i \in DOMAIN wire'[t.conn]
        PROVE  wire'[t.conn][i].seq = 0 \/ wire'[t.conn][i].seq > t.upto
    BY <1>5, <1>8, <2>2, <2>3
  <2> QED
    BY <2>3, <2>4, <2>5
<1>9. Numbered'
  BY <1>4, <1>7, <1>8 DEF Numbered
<1> QED
  BY <1>3, <1>9 DEF NoDuplicateOnWire, Distinct

\* A step that starts no authentication and leaves the promises alone.
LEMMA OneAuthKept ==
  ASSUME TypeInv, OneAuth, ConnShift, NoNewAuth, SameAuths, UNCHANGED resume
  PROVE  OneAuth'
<1>1. \A t \in tasks' : t.kind \in AuthKinds => t \in tasks /\ t.conn \in Conns
  BY TaskOut DEF NoNewAuth, AuthKinds, CarriedKinds
<1>2. \A c \in Conns : conn'[c].cred = conn[c].cred /\ conn'[c].auths = conn[c].auths
  BY DEF ConnShift, Shift, SameAuths
<1>3. \A t, u \in tasks' :
        t.kind \in AuthKinds /\ u.kind \in AuthKinds /\ t.conn = u.conn => t = u
  BY <1>1 DEF OneAuth
<1>4. \A t \in tasks' : t.kind \in AuthKinds => conn'[t.conn].auths > 0 /\ resume'[t.conn] = None
  BY <1>1, <1>2 DEF OneAuth
<1>5. \A t \in tasks' : t.kind = "auth" => conn'[t.conn].cred = None
  BY <1>1, <1>2 DEF OneAuth, AuthKinds
<1> QED
  BY <1>2, <1>3, <1>4, <1>5 DEF OneAuth

LEMMA QuietOnce ==
  ASSUME TypeInv, OnceInv, server # "stopped", QuietStep
  PROVE  OnceInv'
<1>1. OneAuth'
  BY OneAuthKept DEF QuietStep, OnceInv
<1>2. NoDuplicateOnWire'
  BY DEF QuietStep, OnceInv, NoDuplicateOnWire
<1>3. \A c \in Conns : conn'[c].cred = conn[c].cred
  BY DEF QuietStep, ConnShift, Shift
<1>4. \A t \in tasks' : t.kind = "fingerprint" => t \in tasks /\ t.conn \in Conns
  BY TaskOut DEF QuietStep, NoNewAuth, AuthKinds, CarriedKinds
<1>5. Numbered'
  BY <1>3, <1>4 DEF QuietStep, OnceInv, Numbered
<1> QED
  BY <1>1, <1>2, <1>5 DEF OnceInv

\* One frame, alone or after the greeting, takes a number nobody has seen.
LEMMA NumbersOnce ==
  ASSUME TypeInv, OnceInv, server # "stopped", ConnShift, NEW c \in Conns,
         conn[c].cred \in Creds, NEW before \in Seq(Frame), Numbers(c, before),
         \A i \in DOMAIN before : before[i].seq = 0,
         \A t \in tasks' : t.kind = "fingerprint" => t \in tasks
  PROVE  Numbered' /\ NoDuplicateOnWire'
<1> DEFINE k == conn[c].cred
           next == replay[k].nextSeq
<1>1. PICK fr \in Seq(Frame) :
        /\ OnWire(c, fr)
        /\ \/ fr = before /\ UNCHANGED replay
           \/ /\ \E f \in Frame : fr = Append(before, f) /\ f.seq = next
              /\ replay'[k].nextSeq = next + 1
              /\ \A j \in Creds : j # k => replay'[j] = replay[j]
  BY NumbersWire
<1>2. \A j \in Creds : replay[j].nextSeq \in Nat \ {0}
  BY TypeParts DEF RestOK
<1>3. \A j \in Creds : replay'[j].nextSeq \in Nat /\ replay[j].nextSeq <= replay'[j].nextSeq
  BY <1>1, <1>2
<1>4. \A i \in DOMAIN fr : fr[i].seq = 0 \/ (fr[i].seq = next /\ replay'[k].nextSeq = next + 1)
  <2>1. CASE fr = before
    BY <2>1
  <2>2. CASE \E f \in Frame :
                fr = Append(before, f) /\ f.seq = next /\ replay'[k].nextSeq = next + 1
    <3>1. PICK f \in Frame : fr = Append(before, f) /\ f.seq = next /\ replay'[k].nextSeq = next + 1
      BY <2>2
    <3>2. /\ DOMAIN fr = 1..(Len(before) + 1) /\ DOMAIN before = 1..Len(before)
          /\ Len(before) \in Nat /\ fr[Len(before) + 1] = f
          /\ \A i \in 1..Len(before) : fr[i] = before[i]
      BY <3>1, AppendProperties
    <3>3. ASSUME NEW i \in DOMAIN fr PROVE i \in DOMAIN before \/ i = Len(before) + 1
      BY <3>2
    <3> QED
      BY <3>1, <3>2, <3>3
  <2> QED
    BY <1>1, <2>1, <2>2
<1>5. Distinct(fr)
  <2>1. CASE fr = before
    BY <2>1 DEF Distinct
  <2>2. CASE \E f \in Frame : fr = Append(before, f) /\ f.seq = next
    <3>1. PICK f \in Frame : fr = Append(before, f) /\ f.seq = next
      BY <2>2
    <3>2. /\ DOMAIN fr = 1..(Len(before) + 1) /\ DOMAIN before = 1..Len(before)
          /\ Len(before) \in Nat
          /\ \A i \in 1..Len(before) : fr[i] = before[i]
      BY <3>1, AppendProperties
    <3>3. \A i \in DOMAIN fr : i = Len(before) + 1 \/ fr[i].seq = 0
      BY <3>2
    <3> QED
      BY <3>3 DEF Distinct
  <2> QED
    BY <1>1, <2>1, <2>2
<1>6. \A i \in DOMAIN fr : fr[i].seq < replay'[k].nextSeq
  <2>1. \A j \in Creds : 0 < replay'[j].nextSeq
    BY <1>2, <1>3
  <2> QED
    BY <1>2, <1>4, <2>1
<1>7. ASSUME NEW i \in DOMAIN fr, fr[i].seq # 0, NEW j \in DOMAIN wire[c]
      PROVE  wire[c][j].seq # fr[i].seq
  <2>1. wire[c][j].seq < next /\ wire[c][j].seq \in Nat
    BY FrameSeq, TypeParts DEF OnceInv, Numbered, RestOK
  <2> QED
    BY <1>2, <1>4, <1>7, <2>1
<1>8. ASSUME NEW t \in tasks', t.kind = "fingerprint", t.conn = c,
             NEW i \in DOMAIN fr, fr[i].seq # 0
      PROVE  fr[i].seq > t.upto
  <2>1. t \in tasks /\ t.upto \in Nat
    BY <1>8, TaskOut, TaskFields
  <2>2. t.upto < next
    BY <1>8, <2>1 DEF OnceInv, Numbered
  <2> QED
    BY <1>2, <1>4, <1>8, <2>1, <2>2
<1> QED
  BY <1>1, <1>3, <1>5, <1>6, <1>7, <1>8, WireGrows DEF OnceInv

LEMMA SendingOnce ==
  ASSUME TypeInv, OnceInv, server # "stopped", SendingStep
  PROVE  OnceInv'
<1>1. PICK c \in Conns : conn[c].cred \in Creds /\ Numbers(c, <<>>)
  BY DEF SendingStep
<1>2. <<>> \in Seq(Frame) /\ \A i \in DOMAIN <<>> : <<>>[i].seq = 0
  OBVIOUS
<1>3. \A t \in tasks' : t.kind = "fingerprint" => t \in tasks
  BY DEF SendingStep, NoNewAuth, AuthKinds
<1>4. Numbered' /\ NoDuplicateOnWire'
  BY <1>1, <1>2, <1>3, NumbersOnce DEF SendingStep
<1>5. OneAuth'
  BY OneAuthKept DEF SendingStep, OnceInv
<1> QED
  BY <1>4, <1>5 DEF OnceInv

\* The one auth frame of a socket.
LEMMA AuthFrameOnce ==
  ASSUME MaxAuth <= 1, TypeInv, ResumeInv, OnceInv, server # "stopped",
         NEW c \in Conns, NEW k, NEW last, AuthFrame(c, k, last)
  PROVE  OnceInv'
<1> DEFINE e == [conn[c] EXCEPT !.authTimer = FALSE, !.auths = @ + 1]
<1>0. conn \in [Conns -> Conn] /\ conn[c] \in Conn /\ conn[c].auths \in Nat
  BY TypeParts DEF Conn
<1>1. conn' = [conn EXCEPT ![c] = e] /\ UNCHANGED <<server, replay, wire, resume>>
  BY <1>0 DEF AuthFrame
<1>2. e.cred = conn[c].cred /\ e.auths = conn[c].auths + 1
  BY <1>0 DEF Conn
<1> HIDE DEF e
<1>3. /\ \A b \in Conns : conn'[b].cred = conn[b].cred
      /\ \A b \in Conns : b # c => conn'[b] = conn[b]
      /\ conn'[c].auths = conn[c].auths + 1
  BY <1>0, <1>1, <1>2
<1>4. PICK snap : tasks' = tasks \cup {[kind |-> "auth", conn |-> c, n |-> conn[c].auths,
                                        cred |-> k, last |-> last, snap |-> snap]}
  BY DEF AuthFrame
<1> DEFINE u == [kind |-> "auth", conn |-> c, n |-> conn[c].auths, cred |-> k, last |-> last,
                 snap |-> snap]
<1>5. u.kind = "auth" /\ u.conn = c
  OBVIOUS
<1>6. tasks' = tasks \cup {u}
  BY <1>4
<1> HIDE DEF u
<1>7. conn[c].auths = 0
  BY <1>0, BoundAssumption DEF AuthFrame
<1>8. conn[c].cred = None /\ resume[c] = None /\ \A t \in tasks : t.kind \in AuthKinds => t.conn # c
  BY <1>7 DEF OnceInv, OneAuth, ResumeInv, OpenInv
<1>9. \A t \in tasks : t.kind \in AuthKinds => t.conn \in Conns
  BY TaskOut DEF AuthKinds, CarriedKinds
<1>10. OneAuth'
  <2>1. \A t, v \in tasks' :
          t.kind \in AuthKinds /\ v.kind \in AuthKinds /\ t.conn = v.conn => t = v
    BY <1>5, <1>6, <1>8 DEF OnceInv, OneAuth
  <2>2. ASSUME NEW t \in tasks', t.kind \in AuthKinds
        PROVE  conn'[t.conn].auths > 0 /\ resume'[t.conn] = None
    <3>1. CASE t = u
      BY <1>1, <1>3, <1>5, <1>7, <1>8, <3>1
    <3>2. CASE t \in tasks
      BY <1>1, <1>3, <1>8, <1>9, <2>2, <3>2 DEF OnceInv, OneAuth
    <3> QED
      BY <1>6, <3>1, <3>2
  <2>3. \A t \in tasks' : t.kind = "auth" => conn'[t.conn].cred = None
    BY <1>3, <1>5, <1>6, <1>8, <1>9 DEF OnceInv, OneAuth, AuthKinds
  <2>4. \A b \in Conns : conn'[b].cred # None => conn'[b].auths > 0
    BY <1>3, <1>8 DEF OnceInv, OneAuth
  <2> QED
    BY <2>1, <2>2, <2>3, <2>4 DEF OneAuth
<1>11. \A t \in tasks' : t.kind = "fingerprint" => t \in tasks /\ t.conn \in Conns
  BY <1>5, <1>6, <1>9 DEF AuthKinds
<1>12. Numbered'
  BY <1>1, <1>3, <1>11 DEF OnceInv, Numbered
<1>13. NoDuplicateOnWire'
  BY <1>1 DEF OnceInv, NoDuplicateOnWire
<1> QED
  BY <1>10, <1>12, <1>13 DEF OnceInv

LEMMA AuthAcceptedOnce ==
  ASSUME TypeInv, ResumeInv, OnceInv, server # "stopped", NEW t \in tasks, AuthAccepted(t)
  PROVE  OnceInv'
<1> DEFINE c == t.conn
           r == replay[t.cred]
           lost == t.last # None /\ NeedsRecovery(r, t.last)
           owed == IF t.last = None \/ lost THEN <<>> ELSE ItemsSince(r, t.last)
<1>1. /\ t.kind = "auth" /\ c \in Conns
      /\ t.cred \in Creds /\ t.last \in Nat \cup {None} /\ r \in Replay /\ r.nextSeq \in Nat \ {0}
      /\ \A b \in Conns : b # c => conn'[b] = conn[b]
      /\ conn'[c].cred = t.cred /\ conn'[c].auths = conn[c].auths
      /\ UNCHANGED <<server, replay, wire, resume>>
  BY AuthAcceptedFacts
<1>2. PICK u : /\ tasks' = (tasks \ {t}) \cup {u} /\ u.kind = "fingerprint" /\ u.conn = c
               /\ u.upto = r.nextSeq - 1 /\ u.owed = owed
  BY AuthAcceptedFacts
<1>3. Distinct(owed) /\ \A i \in DOMAIN owed : owed[i].seq <= r.nextSeq - 1
  <2>1. Window(r)
    BY <1>1 DEF ResumeInv, ReplayWindow, Window
  <2>2. CASE owed = <<>>
    BY <2>2 DEF Distinct
  <2>3. CASE owed # <<>>
    <3>1. t.last \in Nat /\ owed = ItemsSince(r, t.last)
      BY <1>1, <2>3
    <3> QED
      BY <1>1, <2>1, <3>1, OwedOnce
  <2> QED
    BY <2>2, <2>3
<1> HIDE DEF owed
<1>4. /\ conn[c].cred = None /\ conn[c].auths > 0 /\ resume[c] = None /\ wire[c] = <<>>
      /\ \A v \in tasks : v.kind \in AuthKinds /\ v # t => v.conn # c
  BY <1>1 DEF OnceInv, OneAuth, AuthKinds, ResumeInv, OpenInv
<1>5. \A v \in tasks' : v = u \/ (v \in tasks /\ v # t)
  BY <1>2
<1>6. \A v \in tasks : v.kind \in AuthKinds => v.conn \in Conns
  BY TaskOut DEF AuthKinds, CarriedKinds
<1>7. OneAuth'
  <2>1. \A v, w \in tasks' :
          v.kind \in AuthKinds /\ w.kind \in AuthKinds /\ v.conn = w.conn => v = w
    BY <1>2, <1>4, <1>5 DEF OnceInv, OneAuth
  <2>2. ASSUME NEW v \in tasks', v.kind \in AuthKinds
        PROVE  conn'[v.conn].auths > 0 /\ resume'[v.conn] = None
    <3>1. CASE v = u
      BY <1>1, <1>2, <1>4, <3>1
    <3>2. CASE v \in tasks /\ v # t
      BY <1>1, <1>4, <1>6, <2>2, <3>2 DEF OnceInv, OneAuth
    <3> QED
      BY <1>5, <3>1, <3>2
  <2>3. ASSUME NEW v \in tasks', v.kind = "auth" PROVE conn'[v.conn].cred = None
    <3>1. v \in tasks /\ v # t /\ v.conn # c /\ v.conn \in Conns
      BY <1>2, <1>4, <1>5, <1>6, <2>3 DEF AuthKinds
    <3> QED
      BY <1>1, <2>3, <3>1 DEF OnceInv, OneAuth
  <2>4. \A b \in Conns : conn'[b].cred # None => conn'[b].auths > 0
    BY <1>1, <1>4 DEF OnceInv, OneAuth
  <2> QED
    BY <2>1, <2>2, <2>3, <2>4 DEF OneAuth
<1>8. Numbered'
  <2>1. ASSUME NEW b \in Conns, conn'[b].cred \in Creds, NEW i \in DOMAIN wire'[b]
        PROVE  wire'[b][i].seq < replay'[conn'[b].cred].nextSeq
    <3>1. b # c
      BY <1>1, <1>4, <2>1
    <3> QED
      BY <1>1, <2>1, <3>1 DEF OnceInv, Numbered
  <2>2. ASSUME NEW v \in tasks', v.kind = "fingerprint"
        PROVE  /\ v.upto < replay'[conn'[v.conn].cred].nextSeq
               /\ Distinct(v.owed) /\ \A i \in DOMAIN v.owed : v.owed[i].seq <= v.upto
               /\ \A i \in DOMAIN wire'[v.conn] :
                    wire'[v.conn][i].seq = 0 \/ wire'[v.conn][i].seq > v.upto
    <3>1. CASE v = u
      <4>1. v.upto < replay'[conn'[v.conn].cred].nextSeq
        BY <1>1, <1>2, <3>1
      <4>2. Distinct(v.owed) /\ \A i \in DOMAIN v.owed : v.owed[i].seq <= v.upto
        BY <1>2, <1>3, <3>1
      <4>3. wire'[v.conn] = <<>>
        BY <1>1, <1>2, <1>4, <3>1
      <4> QED
        BY <4>1, <4>2, <4>3
    <3>2. CASE v \in tasks /\ v # t
      <4>1. v.conn # c /\ v.conn \in Conns
        BY <1>4, <1>6, <2>2, <3>2 DEF AuthKinds
      <4> QED
        BY <1>1, <2>2, <3>2, <4>1 DEF OnceInv, Numbered
    <3> QED
      BY <1>5, <3>1, <3>2
  <2> QED
    BY <2>1, <2>2 DEF Numbered
<1>9. NoDuplicateOnWire'
  BY <1>1 DEF OnceInv, NoDuplicateOnWire
<1> QED
  BY <1>7, <1>8, <1>9 DEF OnceInv

\* Replayed frames are numbered up to the moment of authentication, frames
\* sent live since then after it.
LEMMA FingerprintedOnce ==
  ASSUME TypeInv, OnceInv, server # "stopped", NEW t \in tasks, Fingerprinted(t)
  PROVE  OnceInv'
<1> DEFINE c == t.conn
           hello == <<Signal("authenticated")>>
           k == conn[c].cred
<1>1. /\ c \in Conns /\ k \in Creds /\ ConnShift /\ SameAuths /\ tasks' = tasks \ {t}
      /\ \E res : resume' = [resume EXCEPT ![c] = res]
      /\ \/ t.lost /\ Numbers(c, hello)
         \/ ~t.lost /\ OnWire(c, hello \o t.owed) /\ UNCHANGED replay
  BY FingerprintedNumbers
<1>2. /\ t.kind = "fingerprint" /\ t.owed \in Seq(Frame) /\ hello \in Seq(Frame) /\ t.upto \in Nat
  BY TaskOut, TaskFields, HelloType DEF Fingerprinted
<1>3. DOMAIN hello = {1} /\ hello[1].seq = 0
  BY DEF Signal
<1> HIDE DEF hello
<1>4. \A v \in tasks' : v \in tasks /\ v # t
  BY <1>1
<1>5. \A v \in tasks' : v.kind \in AuthKinds => v.conn \in Conns /\ v.conn # c
  BY <1>2, <1>4, TaskOut DEF AuthKinds, CarriedKinds, OnceInv, OneAuth
<1>6. OneAuth'
  <2>1. \A b \in Conns : conn'[b].cred = conn[b].cred /\ conn'[b].auths = conn[b].auths
    BY <1>1 DEF ConnShift, Shift, SameAuths
  <2>2. \A b \in Conns : b # c => resume'[b] = resume[b]
    BY <1>1, TypeParts DEF RestOK
  <2>3. \A v, w \in tasks' :
          v.kind \in AuthKinds /\ w.kind \in AuthKinds /\ v.conn = w.conn => v = w
    BY <1>4 DEF OnceInv, OneAuth
  <2>4. \A v \in tasks' : v.kind \in AuthKinds =>
          conn'[v.conn].auths > 0 /\ resume'[v.conn] = None
    BY <1>4, <1>5, <2>1, <2>2 DEF OnceInv, OneAuth
  <2>5. \A v \in tasks' : v.kind = "auth" => conn'[v.conn].cred = None
    BY <1>4, <1>5, <2>1 DEF OnceInv, OneAuth, AuthKinds
  <2>6. \A b \in Conns : conn'[b].cred # None => conn'[b].auths > 0
    BY <2>1 DEF OnceInv, OneAuth
  <2> QED
    BY <2>3, <2>4, <2>5, <2>6 DEF OneAuth
<1>7. Numbered' /\ NoDuplicateOnWire'
  <2>1. CASE t.lost
    <3>1. Numbers(c, hello)
      BY <1>1, <2>1
    <3> QED
      BY <1>1, <1>2, <1>3, <1>4, <3>1, NumbersOnce
  <2>2. CASE ~t.lost
    <3> DEFINE fr == hello \o t.owed
    <3>1. OnWire(c, fr) /\ UNCHANGED replay /\ fr \in Seq(Frame)
      BY <1>1, <1>2, <2>2
    <3>2. /\ t.upto < replay[k].nextSeq
          /\ Distinct(t.owed) /\ \A i \in DOMAIN t.owed : t.owed[i].seq <= t.upto
          /\ \A i \in DOMAIN wire[c] : wire[c][i].seq = 0 \/ wire[c][i].seq > t.upto
      BY <1>2 DEF OnceInv, Numbered
    <3>3. Distinct(fr)
      <4>1. Distinct(hello)
        BY <1>3 DEF Distinct
      <4>2. \A i \in DOMAIN t.owed :
                t.owed[i].seq = 0 \/ \A j \in DOMAIN hello : hello[j].seq # t.owed[i].seq
        BY <1>3
      <4> QED
        BY <1>2, <3>2, <4>1, <4>2, DistinctConcat
    <3>4. ASSUME NEW i \in DOMAIN fr
          PROVE  fr[i].seq \in Nat /\ (fr[i].seq = 0 \/ fr[i].seq <= t.upto)
      <4>1. \/ i \in DOMAIN hello /\ fr[i] = hello[i]
            \/ i - Len(hello) \in DOMAIN t.owed /\ fr[i] = t.owed[i - Len(hello)]
        BY <1>2, ConcatFrames
      <4>2. fr[i].seq \in Nat
        BY <3>1, FrameSeq
      <4> QED
        BY <1>3, <3>2, <4>1, <4>2
    <3> HIDE DEF fr
    <3>5. \A j \in Creds :
             replay'[j].nextSeq \in Nat \ {0} /\ replay[j].nextSeq <= replay'[j].nextSeq
      BY <3>1, TypeParts DEF RestOK
    <3>6. \A i \in DOMAIN fr : fr[i].seq < replay'[k].nextSeq
      BY <1>1, <1>2, <3>1, <3>2, <3>4, <3>5
    <3>7. \A j \in DOMAIN wire[c] : wire[c][j].seq \in Nat
      BY <1>1, FrameSeq, TypeParts DEF RestOK
    <3>8. ASSUME NEW i \in DOMAIN fr, fr[i].seq # 0, NEW j \in DOMAIN wire[c]
          PROVE  wire[c][j].seq # fr[i].seq
      BY <1>2, <3>2, <3>4, <3>7, <3>8
    <3>9. \A v \in tasks' : v.kind = "fingerprint" => v \in tasks /\ v.conn # c
      BY <1>4, <1>5 DEF AuthKinds
    <3>10. Numbered /\ NoDuplicateOnWire
      BY DEF OnceInv
    <3> QED
      BY <1>1, <3>1, <3>3, <3>5, <3>6, <3>8, <3>9, <3>10, WireGrows
  <2> QED
    BY <2>1, <2>2
<1> QED
  BY <1>6, <1>7 DEF OnceInv

LEMMA FinishStopOnce ==
  ASSUME TypeInv, OnceInv, NEW t \in tasks, FinishStop(t)
  PROVE  OnceInv'
<1>1. /\ ConnShift /\ SameAuths /\ tasks' = tasks \ {t} /\ UNCHANGED <<wire, resume>>
      /\ server' = "stopped"
  BY FinishStopFacts
<1>2. OneAuth'
  BY <1>1, OneAuthKept DEF OnceInv, NoNewAuth
<1> QED
  BY <1>1, <1>2 DEF OnceInv, Numbered, NoDuplicateOnWire

LEMMA OnceStep ==
  MaxAuth <= 1 => (TypeInv /\ SnapInv /\ ResumeInv /\ OnceInv /\ [Next]_vars => OnceInv')
<1> SUFFICES ASSUME MaxAuth <= 1, TypeInv, SnapInv, ResumeInv, OnceInv, [Next]_vars
             PROVE  OnceInv'
  OBVIOUS
<1>0. Counted /\ Halted
  BY DEF SnapInv, ResumeInv
<1>1. CASE UNCHANGED vars
  BY <1>1 DEF vars, OnceInv, OneAuth, Numbered, NoDuplicateOnWire
<1>2. CASE Next
  <2>1. /\ server # "stopped"
        /\ QuietStep \/ SendingStep \/ AuthStep \/ \E t \in tasks : FinishStop(t)
    BY <1>0, <1>2, StepKinds
  <2>2. CASE AuthStep
    BY <2>1, <2>2, AuthFrameOnce, AuthAcceptedOnce, FingerprintedOnce DEF AuthStep
  <2> QED
    BY <2>1, <2>2, QuietOnce, SendingOnce, FinishStopOnce
<1> QED
  BY <1>1, <1>2

LEMMA OnceInit == Init => OnceInv
BY DEF Init, OnceInv, OneAuth, Numbered, NoDuplicateOnWire, createConnectionState

\* What a connection is sent agrees with what was sequenced for its credential,
\* and no frame is sent twice, replayed and live, as long as a harness sends one
\* auth frame per socket, which is what the harness SDK does (server.ts,
\* event-broadcaster.ts).
THEOREM ReplayIsConsistent ==
  ASSUME MaxAuth <= 1
  PROVE  Spec => []ReplayConsistent
<1>1. TypeInv /\ ResumeInv /\ OnceInv => ReplayConsistent
  BY DEF TypeInv, ResumeInv, OnceInv, ReplayConsistent
<1>2. Spec => []ResumeInv
  BY ResumeInit, ResumeStep, TypesHold, PTL DEF Spec
<1>3. TypeInv /\ SnapInv /\ ResumeInv /\ OnceInv /\ [Next]_vars => OnceInv'
  BY OnceStep
<1>4. Spec => []OnceInv
  BY <1>2, <1>3, OnceInit, TypesHold, PTL DEF Spec
<1> QED
  BY <1>1, <1>2, <1>4, TypesHold, PTL

-----------------------------------------------------------------------------
(* One answer per request.                                                   *)

Answered(d) == {d.resp[i] : i \in DOMAIN d.resp}

\* The in-flight entries of a connection are asked and not yet answered.
OneAnswer(d) ==
  /\ d.inflight \cup Answered(d) \subseteq d.asked
  /\ d.inflight \cap Answered(d) = {}
  /\ \A i, j \in DOMAIN d.resp : d.resp[i] = d.resp[j] => i = j

\* A request that awaits its credential lookup is neither in flight nor
\* answered, and no other frame on the connection has its id.
Awaits(t) ==
  t.kind = "request" =>
    /\ t.req \in conn[t.conn].asked
    /\ t.req \notin conn[t.conn].inflight \cup Answered(conn[t.conn])

ResponseInv ==
  /\ \A c \in Conns : OneAnswer(conn[c])
  /\ \A t \in tasks : Awaits(t)
  /\ \A t, u \in tasks :
       t.kind = "request" /\ u.kind = "request" /\ t.conn = u.conn /\ t.req = u.req => t = u

\* Steps that answer nothing.
Steady(d, e) == e.asked = d.asked /\ e.resp = d.resp /\ e.inflight \subseteq d.inflight

NoNewRequest == \A t \in tasks' : t.kind = "request" => t \in tasks

SteadyStep == (\A c \in Conns : Steady(conn[c], conn'[c])) /\ NoNewRequest

LEMMA AlikeSteady == ASSUME NEW d, NEW e, Alike(d, e) PROVE Steady(d, e)
BY DEF Alike, Steady

LEMMA SteadyTransitive ==
  ASSUME NEW d, NEW e, NEW f, Steady(d, e), Alike(e, f) PROVE Steady(d, f)
BY DEF Alike, Steady

LEMMA SteadyResponse == ASSUME TypeInv, ResponseInv, SteadyStep PROVE ResponseInv'
<1>1. ASSUME NEW c \in Conns PROVE OneAnswer(conn'[c])
  <2>1. Steady(conn[c], conn'[c]) /\ OneAnswer(conn[c])
    BY DEF SteadyStep, ResponseInv
  <2> QED
    BY <2>1 DEF Steady, OneAnswer, Answered
<1>2. ASSUME NEW t \in tasks', t.kind = "request" PROVE Awaits(t)'
  <2>1. t \in tasks /\ t.conn \in Conns
    BY <1>2, TaskOut DEF SteadyStep, NoNewRequest, CarriedKinds
  <2>2. Steady(conn[t.conn], conn'[t.conn]) /\ Awaits(t)
    BY <2>1 DEF SteadyStep, ResponseInv
  <2> QED
    BY <1>2, <2>2 DEF Steady, Awaits, Answered
<1>3. \A t \in tasks' : Awaits(t)'
  BY <1>2 DEF Awaits
<1>4. \A t, u \in tasks' :
        t.kind = "request" /\ u.kind = "request" /\ t.conn = u.conn /\ t.req = u.req => t = u
  BY DEF SteadyStep, NoNewRequest, ResponseInv
<1> QED
  BY <1>1, <1>3, <1>4 DEF ResponseInv

\* Steps that move request r of connection c to in flight or to answered.
LEMMA TouchResponse ==
  ASSUME TypeInv, ResponseInv, NEW c \in Conns, NEW r, NoNewRequest,
         \A b \in Conns : b # c => conn'[b] = conn[b],
         OneAnswer(conn'[c]), conn'[c].asked = conn[c].asked,
         conn'[c].inflight \cup Answered(conn'[c])
           \subseteq conn[c].inflight \cup Answered(conn[c]) \cup {r},
         \A t \in tasks' : t.kind = "request" /\ t.conn = c => t.req # r
  PROVE  ResponseInv'
<1>1. \A b \in Conns : OneAnswer(conn'[b])
  BY DEF ResponseInv
<1>2. ASSUME NEW t \in tasks', t.kind = "request" PROVE Awaits(t)'
  <2>1. t \in tasks /\ t.conn \in Conns /\ Awaits(t)
    BY <1>2, TaskOut DEF NoNewRequest, CarriedKinds, ResponseInv
  <2>2. CASE t.conn = c
    BY <1>2, <2>1, <2>2 DEF Awaits
  <2>3. CASE t.conn # c
    BY <1>2, <2>1, <2>3 DEF Awaits
  <2> QED
    BY <2>2, <2>3
<1>3. \A t \in tasks' : Awaits(t)'
  BY <1>2 DEF Awaits
<1>4. \A t, u \in tasks' :
        t.kind = "request" /\ u.kind = "request" /\ t.conn = u.conn /\ t.req = u.req => t = u
  BY DEF NoNewRequest, ResponseInv
<1> QED
  BY <1>1, <1>3, <1>4 DEF ResponseInv

\* Responding to a request that was not answered before.
LEMMA RespondOnce ==
  ASSUME NEW d \in Conn, OneAnswer(d), NEW r \in Reqs,
         r \in d.asked, r \notin d.inflight \cup Answered(d)
  PROVE  LET e == Respond(d, r)
         IN  /\ OneAnswer(e) /\ e.asked = d.asked /\ e.inflight = d.inflight
             /\ Answered(e) \subseteq Answered(d) \cup {r}
<1> DEFINE j == sendJson(d)
           w == IF d.sock = "open" THEN Append(d.resp, r) ELSE d.resp
           e == [j EXCEPT !.resp = w]
<1>1. j \in Conn /\ Alike(d, j)
  BY SendJsonSame DEF Same
<1>2. Respond(d, r) = e
  BY <1>1 DEF Respond, Alike
<1>3. d.resp \in Seq(Reqs)
  BY DEF Conn
<1>4. /\ w = d.resp \/ w = Append(d.resp, r)
      /\ Len(d.resp) \in Nat /\ DOMAIN d.resp = 1..Len(d.resp)
      /\ DOMAIN Append(d.resp, r) = 1..(Len(d.resp) + 1)
      /\ Append(d.resp, r)[Len(d.resp) + 1] = r
      /\ \A i \in 1..Len(d.resp) : Append(d.resp, r)[i] = d.resp[i]
  BY <1>3, AppendProperties
<1> HIDE DEF j, w
<1>5. e.asked = d.asked /\ e.inflight = d.inflight /\ e.resp = w
  BY <1>1 DEF Conn, Alike
<1> HIDE DEF e
<1>6. CASE w = d.resp
  BY <1>2, <1>5, <1>6 DEF OneAnswer, Answered
<1>7. CASE w = Append(d.resp, r)
  <2>1. ASSUME NEW i \in DOMAIN w
        PROVE  \/ i \in DOMAIN d.resp /\ w[i] = d.resp[i]
               \/ i = Len(d.resp) + 1 /\ w[i] = r
    BY <1>4, <1>7
  <2>2. Answered(e) \subseteq Answered(d) \cup {r}
    BY <1>5, <2>1 DEF Answered
  <2>3. \A i \in DOMAIN d.resp : d.resp[i] # r
    BY DEF Answered
  <2>4. \A i, k \in DOMAIN w : w[i] = w[k] => i = k
    BY <2>1, <2>3 DEF OneAnswer
  <2>5. e.inflight \cup Answered(e) \subseteq e.asked /\ e.inflight \cap Answered(e) = {}
    BY <1>5, <2>2 DEF OneAnswer
  <2> QED
    BY <1>2, <1>5, <2>2, <2>4, <2>5 DEF OneAnswer
<1> QED
  BY <1>4, <1>6, <1>7

\* The handler or the timer that finds the in-flight entry answers.
LEMMA EntryAnswered ==
  ASSUME NEW d \in Conn, OneAnswer(d), NEW r \in d.inflight
  PROVE  LET e == Respond(DeleteInflight(d, r), r)
         IN  /\ OneAnswer(e) /\ e.asked = d.asked
             /\ e.inflight \cup Answered(e) \subseteq d.inflight \cup Answered(d) \cup {r}
<1> DEFINE f == DeleteInflight(d, r)
<1>1. /\ f \in Conn /\ f.asked = d.asked /\ f.inflight = d.inflight \ {r} /\ f.resp = d.resp
  BY DEF Conn, DeleteInflight
<1> HIDE DEF f
<1>2. /\ OneAnswer(f) /\ Answered(f) = Answered(d) /\ r \in f.asked /\ r \in Reqs
      /\ r \notin f.inflight \cup Answered(f)
  BY <1>1 DEF OneAnswer, Answered, Conn
<1>3. /\ OneAnswer(Respond(f, r)) /\ Respond(f, r).asked = f.asked
      /\ Respond(f, r).inflight = f.inflight
      /\ Answered(Respond(f, r)) \subseteq Answered(f) \cup {r}
  BY <1>1, <1>2, RespondOnce
<1> QED
  BY <1>1, <1>2, <1>3 DEF f

\* A step that only changes one connection.
LEMMA OneSteady ==
  ASSUME TypeInv, NEW c \in Conns, NEW e, Steady(conn[c], e), conn' = [conn EXCEPT ![c] = e],
         NoNewRequest
  PROVE  SteadyStep
<1>1. conn \in [Conns -> Conn]
  BY TypeParts
<1> QED
  BY <1>1 DEF SteadyStep, Steady

LEMMA StutterSteady == ASSUME UNCHANGED conn, NoNewRequest PROVE SteadyStep
BY DEF SteadyStep, Steady

LEMMA SendSequencedSteady ==
  ASSUME TypeInv, NEW c \in Conns, NEW d \in Conn, Steady(conn[c], d), NEW before, NEW ev,
         NEW pver, NEW bver, SendSequenced(c, d, before, ev, pver, bver), NoNewRequest
  PROVE  SteadyStep
<1> DEFINE e == CheckBackpressure(sendJson(d))
<1>1. e \in Conn /\ Alike(d, e)
  BY SendCheckSame DEF Same
<1>2. conn' = [conn EXCEPT ![c] = e]
  BY DEF SendSequenced
<1> HIDE DEF e
<1>3. Steady(conn[c], e)
  BY <1>1, SteadyTransitive
<1> QED
  BY <1>2, <1>3, OneSteady

LEMMA SocketSteady ==
  ASSUME TypeInv, NEW c \in Conns,
         \/ Open(c) \/ CloseEvent(c) \/ AuthTimeout(c) \/ RejectedFrame(c)
         \/ Block(c) \/ Drain(c) \/ HeartbeatTick(c)
         \/ \E k \in Creds : \E last \in LastSeen(k) : AuthFrame(c, k, last)
  PROVE  SteadyStep
<1>0. conn \in [Conns -> Conn] /\ conn[c] \in Conn
  BY TypeParts
<1>1. CASE Open(c)
  <2> DEFINE e == IF server = "draining"
                  THEN [conn[c] EXCEPT !.phase = "authenticating", !.sock = "closing"]
                  ELSE [conn[c] EXCEPT !.phase = "authenticating", !.sock = "open",
                                       !.authTimer = TRUE]
  <2>1. Steady(conn[c], e)
    BY <1>0 DEF Steady, Conn
  <2>2. conn' = [conn EXCEPT ![c] = e] /\ NoNewRequest
    BY <1>1 DEF Open, NoNewRequest
  <2> HIDE DEF e
  <2> QED
    BY <2>1, <2>2, OneSteady
<1>2. CASE CloseEvent(c)
  <2> DEFINE e == cleanupConnection(conn[c])
  <2>1. Steady(conn[c], e)
    BY <1>0 DEF cleanupConnection, Steady, Conn
  <2>2. conn' = [conn EXCEPT ![c] = e] /\ NoNewRequest
    BY <1>2 DEF CloseEvent, NoNewRequest
  <2> HIDE DEF e
  <2> QED
    BY <2>1, <2>2, OneSteady
<1>3. CASE AuthTimeout(c) \/ RejectedFrame(c)
  <2> DEFINE d == [conn[c] EXCEPT !.authTimer = FALSE]
  <2>1. d \in Conn /\ Steady(conn[c], d)
    BY <1>0 DEF Conn, Steady
  <2>2. /\ \/ conn' = [conn EXCEPT ![c] = Close(sendJson(d))] \/ conn' = [conn EXCEPT ![c] = d]
           \/ conn' = [conn EXCEPT ![c] = Close(conn[c])]
        /\ NoNewRequest
    BY <1>3 DEF AuthTimeout, RejectedFrame, NoNewRequest
  <2> HIDE DEF d
  <2>3. Steady(conn[c], Close(sendJson(d)))
    BY <2>1, CloseSendSame, SteadyTransitive DEF Same
  <2>4. Steady(conn[c], Close(conn[c]))
    BY <1>0, CloseSame, AlikeSteady DEF Same
  <2> QED
    BY <2>1, <2>2, <2>3, <2>4, OneSteady
<1>4. CASE Block(c) \/ Drain(c)
  <2> DEFINE d == [conn[c] EXCEPT !.blocked = TRUE]
             e == [conn[c] EXCEPT !.blocked = FALSE, !.depth = 0, !.notified = FALSE]
  <2>1. Steady(conn[c], d) /\ Steady(conn[c], e)
    BY <1>0 DEF Conn, Steady
  <2>2. /\ conn' = [conn EXCEPT ![c] = d] \/ conn' = [conn EXCEPT ![c] = e]
        /\ NoNewRequest
    BY <1>0, <1>4 DEF Block, Drain, NoNewRequest
  <2> HIDE DEF d, e
  <2> QED
    BY <2>1, <2>2, OneSteady
<1>5. CASE HeartbeatTick(c)
  <2>1. NoNewRequest
    BY <1>5 DEF HeartbeatTick, NoNewRequest
  <2>2. conn' = [conn EXCEPT ![c] = Close(conn[c])] \/ UNCHANGED conn
    BY <1>5 DEF HeartbeatTick
  <2>3. Steady(conn[c], Close(conn[c]))
    BY <1>0, CloseSame, AlikeSteady DEF Same
  <2> QED
    BY <2>1, <2>2, <2>3, OneSteady, StutterSteady
<1>6. ASSUME NEW k, NEW last, AuthFrame(c, k, last) PROVE SteadyStep
  <2> DEFINE e == [conn[c] EXCEPT !.authTimer = FALSE, !.auths = @ + 1]
  <2>1. Steady(conn[c], e)
    BY <1>0 DEF Steady, Conn
  <2>2. conn' = [conn EXCEPT ![c] = e]
    BY <1>0, <1>6 DEF AuthFrame
  <2>3. NoNewRequest
    BY <1>6 DEF AuthFrame, NoNewRequest
  <2> HIDE DEF e
  <2> QED
    BY <2>1, <2>2, <2>3, OneSteady
<1> QED
  BY <1>1, <1>2, <1>3, <1>4, <1>5, <1>6

LEMMA TaskSteady ==
  ASSUME TypeInv, Counted, NEW t \in tasks,
         \/ AuthRefused(t) \/ AuthAccepted(t) \/ Fingerprinted(t) \/ HeartbeatLookedUp(t)
         \/ Invalidated(t) \/ RequestRefused(t) \/ DrainDeadline(t) \/ DrainDone(t)
         \/ FinishStop(t)
  PROVE  SteadyStep
<1> DEFINE c == t.conn
<1>0. t \in Task /\ conn \in [Conns -> Conn] /\ \A b \in Conns : conn[b] \in Conn
  BY TaskOut, TypeParts
<1>1. CASE AuthRefused(t)
  <2> DEFINE e == Close(sendJson(conn[c]))
  <2>0. c \in Conns /\ conn[c] \in Conn
    BY <1>1, TaskOut DEF AuthRefused
  <2>1. Steady(conn[c], e)
    BY <2>0, CloseSendSame, AlikeSteady DEF Same
  <2>2. conn' = [conn EXCEPT ![c] = e] /\ NoNewRequest
    BY <1>1 DEF AuthRefused, NoNewRequest
  <2> HIDE DEF e, c
  <2> QED
    BY <2>0, <2>1, <2>2, OneSteady
<1>2. CASE AuthAccepted(t)
  <2> DEFINE e == [conn[c] EXCEPT !.rec = t.snap, !.cred = t.cred,
                                  !.phase = transition(@, "active")]
  <2>0. c \in Conns /\ conn[c] \in Conn
    BY <1>2, TaskOut DEF AuthAccepted
  <2>1. Steady(conn[c], e)
    BY <2>0 DEF Steady, Conn
  <2>2. conn' = [conn EXCEPT ![c] = e]
    BY <1>0, <2>0, <1>2 DEF AuthAccepted
  <2>3. NoNewRequest
    BY <1>2 DEF AuthAccepted, NoNewRequest
  <2> HIDE DEF e, c
  <2> QED
    BY <2>0, <2>1, <2>2, <2>3, OneSteady
<1>3. CASE Fingerprinted(t)
  <2> DEFINE j == sendJson(conn[c])
             d == [j EXCEPT !.hb = TRUE, !.strayHb = @ \/ conn[c].hb]
             hello == <<Signal("authenticated")>>
  <2>1. c \in Conns /\ conn[c] \in Conn /\ t.owed \in Seq(Frame) /\ t.lost \in BOOLEAN
    BY <1>3, TaskOut, TaskFields DEF Fingerprinted, CarriedKinds
  <2>2. j \in Conn /\ Alike(conn[c], j) /\ conn[c].hb \in BOOLEAN
    BY <2>1, SendJsonSame DEF Same, Conn
  <2>3. d \in Conn /\ Alike(j, d)
    <3> HIDE DEF j, c
    <3> QED
      BY <2>2 DEF Conn, Alike
  <2>4. Steady(conn[c], d)
    BY <2>2, <2>3, AlikeSteady, SteadyTransitive
  <2>5. NoNewRequest
    BY <1>3 DEF Fingerprinted, NoNewRequest
  <2>6. \/ SendSequenced(c, d, hello, "recovery", 0, 0)
        \/ conn' = [conn EXCEPT ![c] = SendMany(d, Len(t.owed))]
    BY <1>3 DEF Fingerprinted
  <2> HIDE DEF d, c, hello
  <2>7. Steady(conn[c], SendMany(d, Len(t.owed)))
    BY <2>1, <2>3, <2>4, SendManySame, SteadyTransitive DEF Same
  <2> QED
    BY <2>1, <2>3, <2>4, <2>5, <2>6, <2>7, OneSteady, SendSequencedSteady
<1>4. CASE HeartbeatLookedUp(t)
  <2> DEFINE d == AdoptSnapshot(conn[c], t.snap)
  <2>1. c \in Conns /\ conn[c] \in Conn /\ t.snap \in MaybeSnapshot
    BY <1>4, TaskOut, TaskFields DEF HeartbeatLookedUp, CarriedKinds
  <2>2. d \in Conn /\ Steady(conn[c], d)
    BY <2>1, AdoptAlike, AlikeSteady
  <2>3. NoNewRequest
    BY <1>4 DEF HeartbeatLookedUp, NoNewRequest
  <2>4. \/ SendSequenced(c, d, <<>>, "heartbeat", t.snap.ver, t.snap.ver)
        \/ conn' = [conn EXCEPT ![c] = d]
    BY <1>4 DEF HeartbeatLookedUp
  <2> HIDE DEF d, c
  <2> QED
    BY <2>1, <2>2, <2>3, <2>4, OneSteady, SendSequencedSteady
<1>5. CASE Invalidated(t)
  <2>1. t.snap \in MaybeSnapshot
    BY <1>5, LookupHoldsReference DEF Invalidated
  <2>2. NoNewRequest
    BY <1>5 DEF Invalidated, NoNewRequest
  <2>3. ASSUME NEW b \in Conns PROVE Steady(conn[b], conn'[b])
    <3>1. conn'[b] = AdoptSnapshot(conn[b], t.snap) \/ conn'[b] = conn[b]
      BY <1>5 DEF Invalidated
    <3>2. Steady(conn[b], conn[b])
      BY DEF Steady
    <3> QED
      BY <1>0, <2>1, <3>1, <3>2, AdoptAlike, AlikeSteady
  <2> QED
    BY <2>2, <2>3 DEF SteadyStep
<1>6. CASE RequestRefused(t)
  <2> DEFINE e == AdoptSnapshot(conn[c], t.snap)
  <2>1. c \in Conns /\ conn[c] \in Conn /\ t.snap \in MaybeSnapshot
    BY <1>6, TaskOut, TaskFields DEF RequestRefused, CarriedKinds
  <2>2. Steady(conn[c], e)
    BY <2>1, AdoptAlike, AlikeSteady
  <2>3. conn' = [conn EXCEPT ![c] = e] /\ NoNewRequest
    BY <1>6 DEF RequestRefused, NoNewRequest
  <2> HIDE DEF e, c
  <2> QED
    BY <2>1, <2>2, <2>3, OneSteady
<1>7. CASE DrainDeadline(t)
  <2>1. t \in [kind : {"drain"}, expired : BOOLEAN]
    BY <1>0, <1>7, TaskFields DEF DrainDeadline
  <2>2. [t EXCEPT !.expired = TRUE].kind = "drain"
    BY <2>1
  <2>3. NoNewRequest /\ UNCHANGED conn
    BY <1>7, <2>2 DEF DrainDeadline, NoNewRequest
  <2> QED
    BY <2>3, StutterSteady
<1>8. CASE DrainDone(t)
  <2>1. NoNewRequest
    BY <1>8 DEF DrainDone, NoNewRequest
  <2>2. ASSUME NEW b \in Conns PROVE Steady(conn[b], conn'[b])
    <3>1. conn'[b] = CloseIf(b \in registry, conn[b])
      BY <1>8 DEF DrainDone
    <3>2. conn[b] \in Conn /\ (b \in registry) \in BOOLEAN
      BY <1>0
    <3>3. Alike(conn[b], CloseIf(b \in registry, conn[b]))
      BY <3>2, CloseIfSame DEF Same
    <3> QED
      BY <3>1, <3>3, AlikeSteady
  <2> QED
    BY <2>1, <2>2 DEF SteadyStep
<1>9. CASE FinishStop(t)
  <2>1. NoNewRequest
    BY <1>9 DEF FinishStop, NoNewRequest
  <2>2. ASSUME NEW d \in Conn PROVE Steady(d, cleanupConnection(d)) /\ Steady(d, d)
    BY DEF Conn, Steady, cleanupConnection
  <2>3. \A b \in Conns : conn'[b] = cleanupConnection(conn[b]) \/ conn'[b] = conn[b]
    BY <1>9 DEF FinishStop
  <2> QED
    BY <1>0, <2>1, <2>2, <2>3 DEF SteadyStep
<1> QED
  BY <1>1, <1>2, <1>3, <1>4, <1>5, <1>6, <1>7, <1>8, <1>9

LEMMA LoopSteady == ASSUME TypeInv, SendLoopStep \/ ShutdownLoopStep PROVE SteadyStep
<1>1. loop # None /\ loop.left \subseteq Conns /\ NoNewRequest
  BY TypeParts DEF SendLoopStep, ShutdownLoopStep, LoopOK, EventLoop, ShutdownLoop, NoNewRequest
<1>2. CASE UNCHANGED conn
  BY <1>1, <1>2, StutterSteady
<1>3. ASSUME NEW c \in loop.left, NEW ev, NEW pver, NEW bver,
             SendSequenced(c, conn[c], <<>>, ev, pver, bver)
      PROVE  SteadyStep
  <2>1. c \in Conns /\ conn[c] \in Conn /\ Steady(conn[c], conn[c])
    BY <1>1, TypeParts DEF Steady
  <2> QED
    BY <1>1, <1>3, <2>1, SendSequencedSteady
<1>4. ASSUME NEW c \in loop.left, conn[c].phase = "active",
             SendSequenced(c, [conn[c] EXCEPT !.phase = transition(@, "draining")], <<>>,
                           "shutdown", 0, 0)
      PROVE  SteadyStep
  <2> DEFINE d == [conn[c] EXCEPT !.phase = transition(@, "draining")]
  <2>1. c \in Conns /\ conn[c] \in Conn
    BY <1>1, TypeParts
  <2>2. d \in Conn /\ Steady(conn[c], d)
    BY <1>4, <2>1 DEF Conn, Steady, transition, Phases, VALID_TRANSITIONS
  <2>3. SendSequenced(c, d, <<>>, "shutdown", 0, 0)
    BY <1>4
  <2> HIDE DEF d
  <2> QED
    BY <1>1, <2>1, <2>2, <2>3, SendSequencedSteady
<1>5. CASE SendLoopStep
  BY <1>2, <1>3, <1>5 DEF SendLoopStep
<1>6. CASE ShutdownLoopStep
  BY <1>2, <1>4, <1>6 DEF ShutdownLoopStep
<1> QED
  BY <1>5, <1>6

LEMMA ServerSteady ==
  ASSUME Start \/ Stop \/ UNCHANGED vars \/ \E k \in Creds : CredStep(k)
  PROVE  SteadyStep
<1>1. UNCHANGED conn
  BY DEF Start, Stop, CredStep, Mutate, Broadcast, vars
<1>2. NoNewRequest
  <2>1. ASSUME NEW k \in Creds, Mutate(k) PROVE NoNewRequest
    BY <2>1 DEF Mutate, NoNewRequest
  <2>2. ASSUME NEW k \in Creds, NEW ev \in Events, Broadcast(k, ev) PROVE NoNewRequest
    BY <2>2 DEF Broadcast, NoNewRequest
  <2>3. CASE Start \/ Stop \/ UNCHANGED vars
    BY <2>3 DEF Start, Stop, vars, NoNewRequest
  <2> QED
    BY <2>1, <2>2, <2>3 DEF CredStep
<1> QED
  BY <1>1, <1>2, StutterSteady

LEMMA RequestResponse ==
  ASSUME TypeInv, ResponseInv, NEW c \in Conns, NEW r \in Reqs, NEW kind, Request(c, r, kind)
  PROVE  ResponseInv'
<1> DEFINE e == [conn[c] EXCEPT !.asked = @ \cup {r}]
<1>0. conn \in [Conns -> Conn] /\ conn[c] \in Conn
  BY TypeParts
<1>1. conn' = [conn EXCEPT ![c] = e] /\ r \notin conn[c].asked
  BY <1>0 DEF Request
<1>2. /\ e.asked = conn[c].asked \cup {r} /\ e.inflight = conn[c].inflight
      /\ e.resp = conn[c].resp
  BY <1>0 DEF Conn
<1>3. PICK snap : tasks' = tasks \cup {[kind |-> "request", conn |-> c, req |-> r, of |-> kind,
                                        snap |-> snap]}
  BY DEF Request
<1> DEFINE u == [kind |-> "request", conn |-> c, req |-> r, of |-> kind, snap |-> snap]
<1>4. u.kind = "request" /\ u.conn = c /\ u.req = r /\ tasks' = tasks \cup {u}
  BY <1>3
<1> HIDE DEF e, u
<1>5. conn'[c] = e /\ \A b \in Conns : b # c => conn'[b] = conn[b]
  BY <1>0, <1>1
<1>6. OneAnswer(conn[c]) /\ Answered(e) = Answered(conn[c])
  BY <1>2 DEF ResponseInv, Answered
<1>7. OneAnswer(e)
  BY <1>2, <1>6 DEF OneAnswer
<1>8. r \notin e.inflight \cup Answered(e) /\ r \in e.asked
  BY <1>1, <1>2, <1>6 DEF OneAnswer
<1>9. \A t \in tasks : t.kind = "request" => t.conn \in Conns /\ Awaits(t)
  BY TaskOut DEF CarriedKinds, ResponseInv
<1>10. \A b \in Conns : OneAnswer(conn'[b])
  BY <1>5, <1>7 DEF ResponseInv
<1>11. ASSUME NEW t \in tasks', t.kind = "request" PROVE Awaits(t)'
  <2>1. CASE t = u
    BY <1>4, <1>5, <1>8, <2>1 DEF Awaits
  <2>2. CASE t \in tasks /\ t.conn = c
    BY <1>2, <1>5, <1>6, <1>9, <1>11, <2>2 DEF Awaits
  <2>3. CASE t \in tasks /\ t.conn # c
    BY <1>5, <1>9, <1>11, <2>3 DEF Awaits
  <2> QED
    BY <1>4, <2>1, <2>2, <2>3
<1>12. \A t \in tasks' : Awaits(t)'
  BY <1>11 DEF Awaits
<1>13. \A t \in tasks : t.kind = "request" /\ t.conn = c => t.req # r
  BY <1>1, <1>9 DEF Awaits
<1>14. \A t, v \in tasks' :
         t.kind = "request" /\ v.kind = "request" /\ t.conn = v.conn /\ t.req = v.req => t = v
  BY <1>4, <1>13 DEF ResponseInv
<1> QED
  BY <1>10, <1>12, <1>14 DEF ResponseInv

\* The timer finds the entry.
LEMMA TimeoutResponse ==
  ASSUME TypeInv, ResponseInv, NEW c \in Conns, NEW r \in Reqs, RequestTimeout(c, r)
  PROVE  ResponseInv'
<1> DEFINE e == Respond(DeleteInflight(conn[c], r), r)
<1>0. conn \in [Conns -> Conn] /\ conn[c] \in Conn
  BY TypeParts
<1>1. /\ OneAnswer(e) /\ e.asked = conn[c].asked
      /\ e.inflight \cup Answered(e) \subseteq conn[c].inflight \cup Answered(conn[c]) \cup {r}
  BY <1>0, EntryAnswered DEF RequestTimeout, ResponseInv
<1>2. conn' = [conn EXCEPT ![c] = e] /\ UNCHANGED tasks /\ r \in conn[c].inflight
  BY DEF RequestTimeout
<1> HIDE DEF e
<1>3. conn'[c] = e /\ \A b \in Conns : b # c => conn'[b] = conn[b]
  BY <1>0, <1>2
<1>4. \A t \in tasks : t.kind = "request" /\ t.conn = c => t.req # r
  BY <1>2 DEF ResponseInv, Awaits
<1>5. NoNewRequest /\ \A t \in tasks' : t.kind = "request" /\ t.conn = c => t.req # r
  BY <1>2, <1>4 DEF NoNewRequest
<1>6. /\ OneAnswer(conn'[c]) /\ conn'[c].asked = conn[c].asked
      /\ conn'[c].inflight \cup Answered(conn'[c])
           \subseteq conn[c].inflight \cup Answered(conn[c]) \cup {r}
  BY <1>1, <1>3
<1> QED
  BY <1>3, <1>5, <1>6, TouchResponse

\* A request whose lookup came back leaves the only frame with its id.
LEMMA LookedUpResponse ==
  ASSUME TypeInv, ResponseInv, NEW t \in tasks, RequestMalformed(t) \/ RequestRouted(t)
  PROVE  ResponseInv'
<1> DEFINE c == t.conn
           r == t.req
           d == AdoptSnapshot(conn[c], t.snap)
<1>0. /\ t.kind = "request" /\ c \in Conns /\ conn[c] \in Conn /\ conn \in [Conns -> Conn]
      /\ t.snap \in MaybeSnapshot /\ r \in Reqs
  BY TaskOut, TaskFields, TypeParts DEF CarriedKinds, RequestMalformed, RequestRouted
<1>1. d \in Conn /\ Alike(conn[c], d)
  BY <1>0, AdoptAlike
<1>2. NoNewRequest /\ t \notin tasks'
  <2>1. CASE RequestMalformed(t)
    BY <2>1 DEF RequestMalformed, NoNewRequest
  <2>2. CASE RequestRouted(t)
    BY <2>2 DEF RequestRouted, NoNewRequest
  <2> QED
    BY <2>1, <2>2
<1>3. \/ conn' = [conn EXCEPT ![c] = Respond(d, r)]
      \/ conn' = [conn EXCEPT ![c] = Close(d)]
      \/ conn' = [conn EXCEPT ![c] = SetInflight(d, r)]
  BY DEF RequestMalformed, RequestRouted
<1>4. \A u \in tasks' : u.kind = "request" /\ u.conn = c => u.req # r
  BY <1>0, <1>2 DEF NoNewRequest, ResponseInv
<1>5. Awaits(t) /\ OneAnswer(conn[c])
  BY <1>0 DEF ResponseInv
<1> HIDE DEF d
<1>6. /\ OneAnswer(d) /\ Answered(d) = Answered(conn[c]) /\ d.inflight = conn[c].inflight
      /\ d.asked = conn[c].asked /\ r \in d.asked /\ r \notin d.inflight \cup Answered(d)
  BY <1>0, <1>1, <1>5 DEF Alike, OneAnswer, Answered, Awaits
<1> HIDE DEF c, r
<1>7. ASSUME NEW e, OneAnswer(e), e.asked = d.asked,
             e.inflight \cup Answered(e) \subseteq d.inflight \cup Answered(d) \cup {r},
             conn' = [conn EXCEPT ![c] = e]
      PROVE  ResponseInv'
  <2>1. conn'[c] = e /\ \A b \in Conns : b # c => conn'[b] = conn[b]
    BY <1>0, <1>7
  <2>2. /\ OneAnswer(conn'[c]) /\ conn'[c].asked = conn[c].asked
        /\ conn'[c].inflight \cup Answered(conn'[c])
             \subseteq conn[c].inflight \cup Answered(conn[c]) \cup {r}
    BY <1>6, <1>7, <2>1
  <2> QED
    BY <1>0, <1>2, <1>4, <2>1, <2>2, TouchResponse
<1>8. CASE conn' = [conn EXCEPT ![c] = Respond(d, r)]
  <2> DEFINE e == Respond(d, r)
  <2>1. /\ OneAnswer(e) /\ e.asked = d.asked /\ e.inflight = d.inflight
        /\ Answered(e) \subseteq Answered(d) \cup {r}
    BY <1>0, <1>1, <1>6, RespondOnce
  <2> HIDE DEF e
  <2>2. conn' = [conn EXCEPT ![c] = e]
    BY <1>8 DEF e
  <2> QED
    BY <1>7, <2>1, <2>2
<1>9. CASE conn' = [conn EXCEPT ![c] = Close(d)]
  <2> DEFINE e == Close(d)
  <2>1. Alike(d, e)
    BY <1>1, CloseSame DEF Same
  <2>2. conn' = [conn EXCEPT ![c] = e]
    BY <1>9
  <2> HIDE DEF e
  <2>3. OneAnswer(e) /\ e.asked = d.asked /\ e.inflight = d.inflight /\ Answered(e) = Answered(d)
    BY <1>6, <2>1 DEF Alike, OneAnswer, Answered
  <2> QED
    BY <1>7, <2>2, <2>3
<1>10. CASE conn' = [conn EXCEPT ![c] = SetInflight(d, r)]
  <2> DEFINE e == SetInflight(d, r)
  <2>1. e.asked = d.asked /\ e.inflight = d.inflight \cup {r} /\ e.resp = d.resp
    BY <1>1 DEF Conn, SetInflight
  <2>2. conn' = [conn EXCEPT ![c] = e]
    BY <1>10
  <2> HIDE DEF e
  <2>3. Answered(e) = Answered(d)
    BY <2>1 DEF Answered
  <2>4. OneAnswer(e)
    BY <1>6, <2>1, <2>3 DEF OneAnswer
  <2> QED
    BY <1>7, <2>1, <2>2, <2>3, <2>4
<1> QED
  BY <1>3, <1>8, <1>9, <1>10

\* A handler that finishes answers only if it still finds the entry.
LEMMA HandlerResponse ==
  ASSUME TypeInv, ResponseInv, NEW t \in tasks, HandlerDone(t) \/ Refreshed(t)
  PROVE  ResponseInv'
<1> DEFINE c == t.conn
           r == t.req
           d == IF t.kind = "handler" \/ t.snap = None THEN conn[c]
                ELSE [conn[c] EXCEPT !.rec = t.snap]
<1>0. /\ c \in Conns /\ conn[c] \in Conn /\ conn \in [Conns -> Conn] /\ r \in Reqs
      /\ t.kind = "handler" \/ (t.kind = "refresh" /\ t.snap \in MaybeSnapshot)
  BY TaskOut, TaskFields, TypeParts DEF CarriedKinds, HandlerDone, Refreshed
<1>1. NoNewRequest
  <2>1. CASE HandlerDone(t)
    BY <2>1 DEF HandlerDone, NoNewRequest
  <2>2. CASE Refreshed(t)
    BY <2>2 DEF Refreshed, NoNewRequest
  <2> QED
    BY <2>1, <2>2
<1>2. d \in Conn /\ Steady(conn[c], d) /\ d.inflight = conn[c].inflight
  BY <1>0 DEF Conn, Steady
<1>3. UNCHANGED conn \/ conn' = [conn EXCEPT ![c] = Answer(d, r)]
  BY DEF HandlerDone, Refreshed
<1> HIDE DEF d
<1>4. CASE UNCHANGED conn
  BY <1>1, <1>4, StutterSteady, SteadyResponse
<1>5. CASE conn' = [conn EXCEPT ![c] = Answer(d, r)] /\ r \notin d.inflight
  <2>1. conn' = [conn EXCEPT ![c] = d]
    BY <1>5 DEF Answer
  <2> HIDE DEF c, r
  <2> QED
    BY <1>0, <1>1, <1>2, <2>1, OneSteady, SteadyResponse
<1>6. CASE conn' = [conn EXCEPT ![c] = Answer(d, r)] /\ r \in d.inflight
  <2> DEFINE e == Respond(DeleteInflight(d, r), r)
  <2>1. OneAnswer(conn[c])
    BY <1>0 DEF ResponseInv
  <2>2. OneAnswer(d) /\ d.asked = conn[c].asked /\ Answered(d) = Answered(conn[c])
    BY <1>2, <2>1 DEF Steady, OneAnswer, Answered
  <2>3. /\ OneAnswer(e) /\ e.asked = d.asked
        /\ e.inflight \cup Answered(e) \subseteq d.inflight \cup Answered(d) \cup {r}
    BY <1>2, <1>6, <2>2, EntryAnswered
  <2>4. conn' = [conn EXCEPT ![c] = e]
    BY <1>6 DEF Answer
  <2> HIDE DEF e
  <2>5. conn'[c] = e /\ \A b \in Conns : b # c => conn'[b] = conn[b]
    BY <1>0, <2>4
  <2>6. r \in conn[c].inflight
    BY <1>2, <1>6
  <2>7. \A u \in tasks' : u.kind = "request" /\ u.conn = c => u.req # r
    BY <1>1, <2>6 DEF NoNewRequest, ResponseInv, Awaits
  <2> HIDE DEF c, r
  <2> QED
    BY <1>0, <1>1, <1>2, <2>2, <2>3, <2>5, <2>7, TouchResponse
<1> QED
  BY <1>3, <1>4, <1>5, <1>6

LEMMA ResponseStep == TypeInv /\ SnapInv /\ ResponseInv /\ [Next]_vars => ResponseInv'
<1> SUFFICES ASSUME TypeInv, SnapInv, ResponseInv, [Next]_vars PROVE ResponseInv'
  OBVIOUS
<1>0. Counted
  BY DEF SnapInv
<1>1. CASE UNCHANGED vars
  BY <1>1, ServerSteady, SteadyResponse
<1>2. ASSUME NEW c \in Conns, SocketStep(c) PROVE ResponseInv'
  <2>1. \/ SteadyStep
        \/ \E r \in Reqs : RequestTimeout(c, r) \/ \E kind \in ReqKinds : Request(c, r, kind)
    BY <1>2, SocketSteady DEF SocketStep
  <2> QED
    BY <2>1, SteadyResponse, TimeoutResponse, RequestResponse
<1>3. ASSUME NEW t \in tasks, Resumes(t) \/ HandlerDone(t) PROVE ResponseInv'
  <2>1. \/ SteadyStep \/ RequestMalformed(t) \/ RequestRouted(t) \/ HandlerDone(t) \/ Refreshed(t)
    BY <1>0, <1>3, TaskSteady DEF Resumes
  <2> QED
    BY <2>1, SteadyResponse, LookedUpResponse, HandlerResponse
<1>4. CASE \/ SendLoopStep \/ ShutdownLoopStep \/ Start \/ Stop \/ \E k \in Creds : CredStep(k)
  <2>1. SteadyStep
    BY <1>4, LoopSteady, ServerSteady
  <2> QED
    BY <2>1, SteadyResponse
<1> QED
  BY <1>1, <1>2, <1>3, <1>4 DEF Next

LEMMA ResponseInit == Init => ResponseInv
BY DEF Init, ResponseInv, OneAnswer, Answered, Awaits, createConnectionState

\* A request is answered at most once, by its handler, by its timer or as
\* malformed, and a closed connection stays closed (handleRequestFrame of
\* server.ts, connection-state.ts).
THEOREM ResponsesAreSound == Spec => ResponsesSound
<1>1. ResponseInv => AtMostOneResponse
  BY DEF ResponseInv, OneAnswer, AtMostOneResponse
<1>2. Spec => []ResponseInv
  BY ResponseInit, ResponseStep, TypesHold, PTL DEF Spec
<1>3. Spec => []AtMostOneResponse
  BY <1>1, <1>2, PTL
<1> QED
  BY <1>3, ClosedStaysClosed DEF ResponsesSound

-----------------------------------------------------------------------------
(* The snapshots events are projected with, when credential lookups are      *)
(* answered from memory (start.ts), whether or not they can fail.            *)

LookupKinds == {"auth", "heartbeat", "request", "refresh"}

CredOf(t) == IF t.kind = "auth" THEN t.cred ELSE conn[t.conn].cred

\* One lookup is out at a time and found the record as it is.
FromMemory ==
  /\ \A t, u \in tasks : t.kind \in LookupKinds /\ u.kind \in LookupKinds => t = u
  /\ \A t \in tasks : t.kind \in LookupKinds => t.snap \in {store[CredOf(t)], None}
  /\ \A t \in tasks : t.kind = "invalidate" => MayFail \/ t.snap # None

\* A connection whose snapshot is kept up to date: an invalidation whose lookup
\* fails closes the socket instead of replacing the record.
Attached(d) == MayFail => d.sock = "open"

\* The invalidation that is to write the cache is still out.
Awaited(k) == \E t \in Lookups(k) : Wins(t)

\* An attached active connection caches the current version, or is about to.
UpToDate ==
  \A c \in registry : conn[c].phase = "active" /\ Attached(conn[c]) =>
    Awaited(conn[c].cred) \/ conn[c].rec.ver = store[conn[c].cred].ver

QueuedBefore(queue, k) == \A i \in DOMAIN queue : queue[i].bver <= store[k].ver

\* Queued events were broadcast before now; the loop that sends them runs when
\* no invalidation is out, to active connections of the credential.
QueuesInv ==
  /\ \A k \in Creds : QueuedBefore(pend[k].queue, k)
  /\ loop # None /\ loop.kind = "events" =>
       /\ Lookups(loop.cred) = {} /\ QueuedBefore(loop.queue, loop.cred)
       /\ \A c \in loop.left :
            c \in registry /\ conn[c].phase = "active" /\ conn[c].cred = loop.cred

AllFresh(frames) == \A i \in DOMAIN frames : frames[i].pver >= frames[i].bver

\* Whatever was sent, kept for replay or is owed was projected afresh.
FramesFresh ==
  /\ \A c \in Conns : AllFresh(wire[c])
  /\ \A k \in Creds : AllFresh(replay[k].buf)
  /\ \A t \in tasks : t.kind = "fingerprint" => AllFresh(t.owed)

CacheInv == FromMemory /\ UpToDate /\ QueuesInv

\* Steps that leave invalidations and stored records alone.
SameInvalidations ==
  /\ UNCHANGED store
  /\ \A k \in Creds : pend'[k].refs = pend[k].refs /\ pend'[k].gen = pend[k].gen
  /\ \A t \in tasks \cup tasks' : t.kind = "invalidate" => t \in tasks /\ t \in tasks'

\* An attached connection that is active after the step was before, and kept its
\* record, or has just cached the stored one.
Caches(d, e, was) ==
  e.phase = "active" /\ Attached(e) =>
    \/ was /\ d.phase = "active" /\ Attached(d) /\ e.cred = d.cred /\ e.rec = d.rec
    \/ e.rec = store[e.cred]

CacheStep == \A c \in registry' : Caches(conn[c], conn'[c], c \in registry)

LEMMA UpToDateKept ==
  ASSUME TypeInv, UpToDate, SameInvalidations, CacheStep
  PROVE  UpToDate'
<1> SUFFICES ASSUME NEW c \in registry', conn'[c].phase = "active", Attached(conn'[c]),
                    NEW k, k = conn'[c].cred, conn'[c].rec.ver # store'[k].ver
             PROVE  Awaited(k)'
  BY DEF UpToDate, Attached
<1>1. /\ c \in registry /\ conn[c].phase = "active" /\ Attached(conn[c])
      /\ conn'[c].cred = conn[c].cred /\ conn'[c].rec = conn[c].rec
  BY DEF CacheStep, Caches, SameInvalidations
<1>2. k \in Creds /\ Awaited(k)
  BY <1>1, TypeParts DEF UpToDate, SameInvalidations
<1>3. PICK t \in Lookups(k) : Wins(t)
  BY <1>2 DEF Awaited
<1>4. t \in Lookups(k)' /\ Wins(t)'
  BY <1>2, <1>3 DEF Lookups, Wins, SameInvalidations
<1> QED
  BY <1>4 DEF Awaited

\* The invalidations that are out stay out under every other action.
LEMMA SameSocket ==
   ASSUME TypeInv, NEW c \in Conns, SocketStep(c)
   PROVE  SameInvalidations /\ UNCHANGED <<pend, loop>>
<1>1. CASE Open(c) \/ CloseEvent(c) \/ AuthTimeout(c) \/ RejectedFrame(c) \/ Block(c) \/ Drain(c)
           \/ \E r \in Reqs : RequestTimeout(c, r)
  <2>1. UNCHANGED <<store, loop, pend, tasks>>
    BY <1>1 DEF Open, CloseEvent, AuthTimeout, RejectedFrame, Block, Drain, RequestTimeout
  <2> QED
    BY <2>1 DEF SameInvalidations
<1>2. CASE HeartbeatTick(c)
  <2>1. UNCHANGED <<store, loop, pend>>
    BY <1>2 DEF HeartbeatTick
  <2>2. \A t \in tasks \cup tasks' : t.kind = "invalidate" => t \in tasks /\ t \in tasks'
    BY <1>2 DEF HeartbeatTick
  <2> QED
    BY <2>1, <2>2 DEF SameInvalidations
<1>3. ASSUME NEW k, NEW last, AuthFrame(c, k, last)
      PROVE  SameInvalidations /\ UNCHANGED <<pend, loop>>
  <2>1. UNCHANGED <<store, loop, pend>>
    BY <1>3 DEF AuthFrame
  <2>2. \A t \in tasks \cup tasks' : t.kind = "invalidate" => t \in tasks /\ t \in tasks'
    BY <1>3 DEF AuthFrame
  <2> QED
    BY <2>1, <2>2 DEF SameInvalidations
<1>4. ASSUME NEW r, NEW kind, Request(c, r, kind)
      PROVE  SameInvalidations /\ UNCHANGED <<pend, loop>>
  <2>1. UNCHANGED <<store, loop, pend>>
    BY <1>4 DEF Request
  <2>2. \A t \in tasks \cup tasks' : t.kind = "invalidate" => t \in tasks /\ t \in tasks'
    BY <1>4 DEF Request
  <2> QED
    BY <2>1, <2>2 DEF SameInvalidations
<1> QED
  BY <1>1, <1>2, <1>3, <1>4 DEF SocketStep

LEMMA SameResumes ==
  ASSUME TypeInv, NEW t \in tasks, Resumes(t) \/ HandlerDone(t), ~Invalidated(t)
  PROVE  SameInvalidations /\ UNCHANGED <<pend, loop>>
<1>1. UNCHANGED <<store, pend, loop>>
  BY DEF Resumes, AuthRefused, AuthAccepted, Fingerprinted, HeartbeatLookedUp, RequestRefused,
     RequestMalformed, RequestRouted, Refreshed, HandlerDone, DrainDeadline, DrainDone, FinishStop
<1>2. t.kind # "invalidate"
  BY DEF Resumes, AuthRefused, AuthAccepted, Fingerprinted, HeartbeatLookedUp, RequestRefused,
     RequestMalformed, RequestRouted, Refreshed, HandlerDone, DrainDeadline, DrainDone, FinishStop
<1>3. \A u \in tasks' : u \in tasks \/ u.kind # "invalidate"
  <2>1. CASE AuthAccepted(t)
    BY <2>1 DEF AuthAccepted
  <2>2. CASE RequestRouted(t)
    BY <2>2 DEF RequestRouted
  <2>3. CASE HandlerDone(t)
    BY <2>3 DEF HandlerDone
  <2>4. CASE DrainDeadline(t)
    <3>1. t \in [kind : {"drain"}, expired : BOOLEAN]
      BY <2>4, TaskOut, TaskFields DEF DrainDeadline
    <3>2. [t EXCEPT !.expired = TRUE].kind = "drain"
      BY <3>1
    <3> QED
      BY <2>4, <3>2 DEF DrainDeadline
  <2>5. CASE DrainDone(t)
    BY <2>5 DEF DrainDone
  <2>6. CASE \/ AuthRefused(t) \/ Fingerprinted(t) \/ HeartbeatLookedUp(t) \/ RequestRefused(t)
             \/ RequestMalformed(t) \/ Refreshed(t) \/ FinishStop(t)
    BY <2>6 DEF AuthRefused, Fingerprinted, HeartbeatLookedUp, RequestRefused,
       RequestMalformed, Refreshed, FinishStop
  <2> QED
    BY <2>1, <2>2, <2>3, <2>4, <2>5, <2>6 DEF Resumes
<1>4. \A u \in tasks : u = t \/ u \in tasks'
  BY DEF Resumes, AuthRefused, AuthAccepted, Fingerprinted, HeartbeatLookedUp, RequestRefused,
     RequestMalformed, RequestRouted, Refreshed, HandlerDone, DrainDeadline, DrainDone, FinishStop
<1> QED
  BY <1>1, <1>2, <1>3, <1>4 DEF SameInvalidations

\* What a step does to the records the connections cache.
LEMMA AlikeCaches == ASSUME NEW d, NEW e, Same(d, e) PROVE Caches(d, e, TRUE)
BY DEF Same, Alike, Caches, Attached

\* Taking over a record that is the stored one.
LEMMA AdoptCaches ==
  ASSUME NEW d \in Conn, NEW snap \in MaybeSnapshot, snap \in {store[d.cred], None}
  PROVE  Caches(d, AdoptSnapshot(d, snap), TRUE)
<1>1. Alike(d, AdoptSnapshot(d, snap))
      /\ AdoptSnapshot(d, snap).rec = IF snap = None THEN d.rec ELSE snap
  BY AdoptAlike
<1> QED
  BY <1>1 DEF Alike, Caches, Attached

LEMMA CachesThenSame ==
  ASSUME NEW d, NEW e, NEW f, Caches(d, e, TRUE),
         f.phase = e.phase \/ f.phase # "active", f.cred = e.cred, f.rec = e.rec,
         Attached(f) => Attached(e)
  PROVE  Caches(d, f, TRUE)
BY DEF Caches

LEMMA OneCaches ==
  ASSUME TypeInv, NEW c \in Conns, NEW e, Caches(conn[c], e, TRUE),
         conn' = [conn EXCEPT ![c] = e], registry' \subseteq registry
  PROVE  CacheStep
<1>1. conn \in [Conns -> Conn] /\ registry \subseteq Conns
  BY TypeParts
<1> QED
  BY <1>1 DEF CacheStep, Caches

LEMMA StutterCaches ==
  ASSUME UNCHANGED conn, registry' \subseteq registry PROVE CacheStep
BY DEF CacheStep, Caches

LEMMA RespondRecord ==
  ASSUME NEW d \in Conn, NEW r \in Reqs
  PROVE  LET e == Respond(d, r)
         IN  e.phase = d.phase /\ e.cred = d.cred /\ e.rec = d.rec /\ (Attached(e) => Attached(d))
<1> DEFINE j == sendJson(d)
           w == IF d.sock = "open" THEN Append(d.resp, r) ELSE d.resp
           e == [j EXCEPT !.resp = w]
<1>1. j \in Conn /\ Same(d, j)
  BY SendJsonSame
<1>2. Respond(d, r) = e
  BY <1>1 DEF Respond, Same, Alike
<1> HIDE DEF j, w
<1>3. e.phase = j.phase /\ e.cred = j.cred /\ e.rec = j.rec /\ e.sock = j.sock
  BY <1>1 DEF Conn
<1> HIDE DEF e
<1> QED
  BY <1>1, <1>2, <1>3 DEF Same, Alike, Attached

LEMMA AnswerRecord ==
  ASSUME NEW d \in Conn, NEW r \in Reqs
  PROVE  LET e == Answer(d, r)
         IN  e.phase = d.phase /\ e.cred = d.cred /\ e.rec = d.rec /\ (Attached(e) => Attached(d))
<1> DEFINE e == DeleteInflight(d, r)
<1>1. e \in Conn /\ e.phase = d.phase /\ e.cred = d.cred /\ e.rec = d.rec /\ e.sock = d.sock
  BY DEF Conn, DeleteInflight
<1>2. Answer(d, r) = IF r \in d.inflight THEN Respond(e, r) ELSE d
  BY DEF Answer
<1> HIDE DEF e
<1> QED
  BY <1>1, <1>2, RespondRecord DEF Attached

LEMMA SendSequencedCaches ==
  ASSUME TypeInv, NEW c \in Conns, NEW d \in Conn, Caches(conn[c], d, TRUE), NEW before, NEW ev,
         NEW pver, NEW bver, SendSequenced(c, d, before, ev, pver, bver), UNCHANGED registry
  PROVE  CacheStep
<1> DEFINE e == CheckBackpressure(sendJson(d))
<1>1. e \in Conn /\ Same(d, e)
  BY SendCheckSame
<1>2. conn' = [conn EXCEPT ![c] = e]
  BY DEF SendSequenced
<1> HIDE DEF e
<1>3. Caches(conn[c], e, TRUE)
  BY <1>1, CachesThenSame DEF Same, Alike, Attached
<1> QED
  BY <1>2, <1>3, OneCaches

LEMMA SocketCaches == ASSUME TypeInv, NEW c \in Conns, SocketStep(c) PROVE CacheStep
<1>0. conn \in [Conns -> Conn] /\ conn[c] \in Conn /\ Caches(conn[c], conn[c], TRUE)
  BY TypeParts DEF Caches
<1>1. CASE Open(c)
  <2> DEFINE e == IF server = "draining"
                  THEN [conn[c] EXCEPT !.phase = "authenticating", !.sock = "closing"]
                  ELSE [conn[c] EXCEPT !.phase = "authenticating", !.sock = "open",
                                       !.authTimer = TRUE]
  <2>1. Caches(conn[c], e, TRUE)
    BY <1>0 DEF Caches, Conn, Attached
  <2>2. conn' = [conn EXCEPT ![c] = e] /\ registry' \subseteq registry
    BY <1>1 DEF Open
  <2> HIDE DEF e
  <2> QED
    BY <2>1, <2>2, OneCaches
<1>2. CASE CloseEvent(c)
  <2> DEFINE e == cleanupConnection(conn[c])
  <2>1. Caches(conn[c], e, TRUE)
    BY <1>0 DEF cleanupConnection, Caches, Conn, Attached
  <2>2. conn' = [conn EXCEPT ![c] = e] /\ registry' \subseteq registry
    BY <1>2 DEF CloseEvent
  <2> HIDE DEF e
  <2> QED
    BY <2>1, <2>2, OneCaches
<1>3. CASE AuthTimeout(c) \/ RejectedFrame(c) \/ HeartbeatTick(c)
  <2> DEFINE d == [conn[c] EXCEPT !.authTimer = FALSE]
  <2>1. d \in Conn /\ Caches(conn[c], d, TRUE)
    BY <1>0 DEF Conn, Caches, Attached
  <2>2. /\ \/ conn' = [conn EXCEPT ![c] = Close(sendJson(d))] \/ conn' = [conn EXCEPT ![c] = d]
           \/ conn' = [conn EXCEPT ![c] = Close(conn[c])]
           \/ UNCHANGED conn
        /\ registry' \subseteq registry
    BY <1>3 DEF AuthTimeout, RejectedFrame, HeartbeatTick
  <2> HIDE DEF d
  <2>3. Caches(conn[c], Close(sendJson(d)), TRUE)
    BY <2>1, CloseSendSame, CachesThenSame DEF Same, Alike, Attached
  <2>4. Caches(conn[c], Close(conn[c]), TRUE)
    BY <1>0, CloseSame, AlikeCaches
  <2> QED
    BY <2>1, <2>2, <2>3, <2>4, OneCaches, StutterCaches
<1>4. CASE Block(c) \/ Drain(c)
  <2> DEFINE d == [conn[c] EXCEPT !.blocked = TRUE]
             e == [conn[c] EXCEPT !.blocked = FALSE, !.depth = 0, !.notified = FALSE]
  <2>1. Caches(conn[c], d, TRUE) /\ Caches(conn[c], e, TRUE)
    BY <1>0 DEF Conn, Caches, Attached
  <2>2. /\ conn' = [conn EXCEPT ![c] = d] \/ conn' = [conn EXCEPT ![c] = e]
        /\ registry' \subseteq registry
    BY <1>0, <1>4 DEF Block, Drain
  <2> HIDE DEF d, e
  <2> QED
    BY <2>1, <2>2, OneCaches
<1>5. ASSUME NEW k, NEW last, AuthFrame(c, k, last) PROVE CacheStep
  <2> DEFINE e == [conn[c] EXCEPT !.authTimer = FALSE, !.auths = @ + 1]
  <2>1. Caches(conn[c], e, TRUE)
    BY <1>0 DEF Caches, Conn, Attached
  <2>2. conn' = [conn EXCEPT ![c] = e] /\ registry' \subseteq registry
    BY <1>0, <1>5 DEF AuthFrame
  <2> HIDE DEF e
  <2> QED
    BY <2>1, <2>2, OneCaches
<1>6. ASSUME NEW r \in Reqs, RequestTimeout(c, r) PROVE CacheStep
  <2> DEFINE d == DeleteInflight(conn[c], r)
             e == Respond(d, r)
  <2>1. d \in Conn /\ Caches(conn[c], d, TRUE)
    BY <1>0 DEF Conn, Caches, DeleteInflight, Attached
  <2>2. conn' = [conn EXCEPT ![c] = e] /\ registry' \subseteq registry
    BY <1>6 DEF RequestTimeout
  <2> HIDE DEF d
  <2>3. Caches(conn[c], e, TRUE)
    BY <2>1, RespondRecord, CachesThenSame
  <2> HIDE DEF e
  <2> QED
    BY <2>2, <2>3, OneCaches
<1>7. ASSUME NEW r \in Reqs, NEW kind \in ReqKinds, Request(c, r, kind) PROVE CacheStep
  <2> DEFINE e == [conn[c] EXCEPT !.asked = @ \cup {r}]
  <2>1. Caches(conn[c], e, TRUE)
    BY <1>0 DEF Conn, Caches, Attached
  <2>2. conn' = [conn EXCEPT ![c] = e] /\ registry' \subseteq registry
    BY <1>0, <1>7 DEF Request
  <2> HIDE DEF e
  <2> QED
    BY <2>1, <2>2, OneCaches
<1> QED
  BY <1>1, <1>2, <1>3, <1>4, <1>5, <1>6, <1>7 DEF SocketStep

LEMMA LoopCaches == ASSUME TypeInv, SendLoopStep \/ ShutdownLoopStep PROVE CacheStep
<1>1. loop # None /\ loop.left \subseteq Conns /\ UNCHANGED registry
  BY TypeParts DEF SendLoopStep, ShutdownLoopStep, LoopOK, EventLoop, ShutdownLoop
<1>2. CASE UNCHANGED conn
  BY <1>1, <1>2, StutterCaches
<1>3. ASSUME NEW c \in loop.left, NEW ev, NEW pver, NEW bver,
             SendSequenced(c, conn[c], <<>>, ev, pver, bver)
      PROVE  CacheStep
  <2>1. c \in Conns /\ conn[c] \in Conn /\ Caches(conn[c], conn[c], TRUE)
    BY <1>1, TypeParts DEF Caches
  <2> QED
    BY <1>1, <1>3, <2>1, SendSequencedCaches
<1>4. ASSUME NEW c \in loop.left, conn[c].phase = "active",
             SendSequenced(c, [conn[c] EXCEPT !.phase = transition(@, "draining")], <<>>,
                           "shutdown", 0, 0)
      PROVE  CacheStep
  <2> DEFINE d == [conn[c] EXCEPT !.phase = transition(@, "draining")]
  <2>1. c \in Conns /\ conn[c] \in Conn
    BY <1>1, TypeParts
  <2>2. d \in Conn /\ Caches(conn[c], d, TRUE)
    BY <1>4, <2>1 DEF Conn, Caches, Attached, transition, Phases, VALID_TRANSITIONS
  <2>3. SendSequenced(c, d, <<>>, "shutdown", 0, 0)
    BY <1>4
  <2> HIDE DEF d
  <2> QED
    BY <1>1, <2>1, <2>2, <2>3, SendSequencedCaches
<1>5. CASE SendLoopStep
  BY <1>2, <1>3, <1>5 DEF SendLoopStep
<1>6. CASE ShutdownLoopStep
  BY <1>2, <1>4, <1>6 DEF ShutdownLoopStep
<1> QED
  BY <1>5, <1>6

\* The handlers that resume with a record cache the stored one.
LEMMA TaskCaches ==
  ASSUME TypeInv, FromMemory, NEW t \in tasks, Resumes(t) \/ HandlerDone(t), ~Invalidated(t)
  PROVE  CacheStep
<1> DEFINE c == t.conn
<1>0. t \in Task /\ conn \in [Conns -> Conn] /\ \A b \in Conns : conn[b] \in Conn
  BY TaskOut, TypeParts
<1>1. CASE AuthRefused(t)
  <2> DEFINE e == Close(sendJson(conn[c]))
  <2>0. c \in Conns /\ conn[c] \in Conn
    BY <1>1, TaskOut DEF AuthRefused
  <2>1. Caches(conn[c], e, TRUE)
    BY <2>0, CloseSendSame, AlikeCaches
  <2>2. conn' = [conn EXCEPT ![c] = e] /\ registry' \subseteq registry
    BY <1>1 DEF AuthRefused
  <2> HIDE DEF e, c
  <2> QED
    BY <2>0, <2>1, <2>2, OneCaches
<1>2. CASE AuthAccepted(t)
  <2> DEFINE e == [conn[c] EXCEPT !.rec = t.snap, !.cred = t.cred,
                                  !.phase = transition(@, "active")]
  <2>0. c \in Conns /\ conn[c] \in Conn /\ t.kind = "auth" /\ t.snap # None
    BY <1>2, TaskOut DEF AuthAccepted
  <2>1. t.snap = store[t.cred]
    BY <2>0 DEF FromMemory, LookupKinds, CredOf
  <2>2. e.rec = store[e.cred]
    BY <2>0, <2>1 DEF Conn
  <2>3. conn' = [conn EXCEPT ![c] = e] /\ registry' = registry \cup {c}
    BY <1>0, <2>0, <1>2 DEF AuthAccepted
  <2> HIDE DEF e, c
  <2>4. conn'[c] = e /\ \A b \in Conns : b # c => conn'[b] = conn[b]
    BY <1>0, <2>0, <2>3
  <2>5. registry \subseteq Conns
    BY TypeParts
  <2>6. ASSUME NEW b \in registry' PROVE Caches(conn[b], conn'[b], b \in registry)
    <3>1. CASE b = c
      BY <2>2, <2>4, <3>1 DEF Caches
    <3>2. CASE b # c
      <4>1. b \in registry /\ conn'[b] = conn[b]
        BY <2>3, <2>4, <2>5, <3>2
      <4> QED
        BY <4>1 DEF Caches
    <3> QED
      BY <3>1, <3>2
  <2> QED
    BY <2>6 DEF CacheStep
<1>3. CASE Fingerprinted(t)
  <2> DEFINE j == sendJson(conn[c])
             d == [j EXCEPT !.hb = TRUE, !.strayHb = @ \/ conn[c].hb]
             hello == <<Signal("authenticated")>>
  <2>1. c \in Conns /\ conn[c] \in Conn /\ t.owed \in Seq(Frame) /\ t.lost \in BOOLEAN
    BY <1>3, TaskOut, TaskFields DEF Fingerprinted, CarriedKinds
  <2>2. j \in Conn /\ Same(conn[c], j) /\ conn[c].hb \in BOOLEAN
    BY <2>1, SendJsonSame DEF Conn
  <2>3. d \in Conn /\ Same(j, d)
    <3> HIDE DEF j, c
    <3> QED
      BY <2>2 DEF Conn, Same, Alike
  <2>4. Caches(conn[c], d, TRUE)
    BY <2>2, <2>3, SameTransitive, AlikeCaches
  <2>5. UNCHANGED registry
    BY <1>3 DEF Fingerprinted
  <2>6. \/ SendSequenced(c, d, hello, "recovery", 0, 0)
        \/ conn' = [conn EXCEPT ![c] = SendMany(d, Len(t.owed))]
    BY <1>3 DEF Fingerprinted
  <2> HIDE DEF d, c, hello
  <2>7. Caches(conn[c], SendMany(d, Len(t.owed)), TRUE)
    <3> DEFINE e == SendMany(d, Len(t.owed))
    <3>1. Same(d, e)
      BY <2>1, <2>3, SendManySame
    <3> HIDE DEF e
    <3>2. e.phase = d.phase /\ e.cred = d.cred /\ e.rec = d.rec /\ (Attached(e) => Attached(d))
      BY <3>1 DEF Same, Alike, Attached
    <3>3. Caches(conn[c], e, TRUE)
      BY <2>4, <3>2, CachesThenSame
    <3> QED
      BY <3>3 DEF e
  <2> QED
    BY <2>1, <2>3, <2>4, <2>5, <2>6, <2>7, OneCaches, SendSequencedCaches
<1>4. CASE HeartbeatLookedUp(t)
  <2> DEFINE d == AdoptSnapshot(conn[c], t.snap)
  <2>1. c \in Conns /\ conn[c] \in Conn /\ t.snap \in MaybeSnapshot /\ t.kind = "heartbeat"
    BY <1>4, TaskOut, TaskFields DEF HeartbeatLookedUp, CarriedKinds
  <2>2. t.snap \in {store[conn[c].cred], None}
    BY <2>1 DEF FromMemory, LookupKinds, CredOf
  <2>3. d \in Conn /\ Caches(conn[c], d, TRUE)
    BY <2>1, <2>2, AdoptAlike, AdoptCaches
  <2>4. UNCHANGED registry
    BY <1>4 DEF HeartbeatLookedUp
  <2>5. \/ SendSequenced(c, d, <<>>, "heartbeat", t.snap.ver, t.snap.ver)
        \/ conn' = [conn EXCEPT ![c] = d]
    BY <1>4 DEF HeartbeatLookedUp
  <2> HIDE DEF d, c
  <2> QED
    BY <2>1, <2>3, <2>4, <2>5, OneCaches, SendSequencedCaches
<1>5. CASE RequestRefused(t) \/ RequestMalformed(t) \/ RequestRouted(t)
  <2> DEFINE d == AdoptSnapshot(conn[c], t.snap)
             r == t.req
  <2>1. /\ c \in Conns /\ conn[c] \in Conn /\ t.snap \in MaybeSnapshot /\ t.kind = "request"
        /\ r \in Reqs
    BY <1>5, TaskOut, TaskFields
    DEF RequestRefused, RequestMalformed, RequestRouted, CarriedKinds
  <2>2. t.snap \in {store[conn[c].cred], None}
    BY <2>1 DEF FromMemory, LookupKinds, CredOf
  <2>3. d \in Conn /\ Caches(conn[c], d, TRUE)
    BY <2>1, <2>2, AdoptAlike, AdoptCaches
  <2>4. /\ registry' \subseteq registry
        /\ \/ conn' = [conn EXCEPT ![c] = d]
           \/ conn' = [conn EXCEPT ![c] = Respond(d, r)]
           \/ conn' = [conn EXCEPT ![c] = Close(d)]
           \/ conn' = [conn EXCEPT ![c] = SetInflight(d, r)]
    BY <1>5 DEF RequestRefused, RequestMalformed, RequestRouted
  <2> HIDE DEF d, c, r
  <2>5. Caches(conn[c], Respond(d, r), TRUE)
    BY <2>1, <2>3, RespondRecord, CachesThenSame
  <2>6. Caches(conn[c], Close(d), TRUE)
    BY <2>3, CloseSame, CachesThenSame DEF Same, Alike, Attached
  <2>7. Caches(conn[c], SetInflight(d, r), TRUE)
    <3>1. LET e == SetInflight(d, r)
          IN  e.phase = d.phase /\ e.cred = d.cred /\ e.rec = d.rec /\ (Attached(e) => Attached(d))
      BY <2>3 DEF SetInflight, Conn, Attached
    <3> QED
      BY <2>3, <3>1, CachesThenSame
  <2> QED
    BY <2>1, <2>3, <2>4, <2>5, <2>6, <2>7, OneCaches
<1>6. CASE HandlerDone(t) \/ Refreshed(t)
  <2> DEFINE r == t.req
             d == IF t.kind = "handler" \/ t.snap = None THEN conn[c]
                  ELSE [conn[c] EXCEPT !.rec = t.snap]
  <2>1. /\ c \in Conns /\ conn[c] \in Conn /\ r \in Reqs
        /\ t.kind = "handler" \/ (t.kind = "refresh" /\ t.snap \in MaybeSnapshot)
    BY <1>6, TaskOut, TaskFields DEF CarriedKinds, HandlerDone, Refreshed
  <2>2. t.kind = "refresh" => t.snap \in {store[conn[c].cred], None}
    BY <2>1 DEF FromMemory, LookupKinds, CredOf
  <2>3. d \in Conn /\ Caches(conn[c], d, TRUE)
    BY <2>1, <2>2 DEF Conn, Caches, Attached
  <2>4. /\ registry' \subseteq registry
        /\ UNCHANGED conn \/ conn' = [conn EXCEPT ![c] = Answer(d, r)]
    BY <1>6 DEF HandlerDone, Refreshed
  <2> HIDE DEF d, c, r
  <2>5. Caches(conn[c], Answer(d, r), TRUE)
    BY <2>1, <2>3, AnswerRecord, CachesThenSame
  <2> QED
    BY <2>1, <2>4, <2>5, OneCaches, StutterCaches
<1>7. CASE DrainDeadline(t)
  BY <1>7, StutterCaches DEF DrainDeadline
<1>8. CASE DrainDone(t)
  <2>1. UNCHANGED registry /\ registry \subseteq Conns
    BY <1>8, TypeParts DEF DrainDone
  <2>2. ASSUME NEW b \in registry PROVE Caches(conn[b], conn'[b], TRUE)
    <3>1. conn'[b] = CloseIf(b \in registry, conn[b])
      BY <1>8, <2>1 DEF DrainDone
    <3>2. conn[b] \in Conn /\ (b \in registry) \in BOOLEAN
      BY <1>0, <2>1
    <3>3. Same(conn[b], CloseIf(b \in registry, conn[b]))
      BY <3>2, CloseIfSame
    <3> QED
      BY <3>1, <3>3, AlikeCaches
  <2> QED
    BY <2>1, <2>2 DEF CacheStep, Caches
<1>9. CASE FinishStop(t)
  <2>1. /\ registry' \subseteq registry /\ registry \subseteq Conns
        /\ conn' = [b \in Conns |-> IF b \in t.left THEN cleanupConnection(conn[b]) ELSE conn[b]]
    BY <1>9, TypeParts DEF FinishStop
  <2>2. ASSUME NEW d \in Conn PROVE Caches(d, cleanupConnection(d), TRUE) /\ Caches(d, d, TRUE)
    BY DEF Conn, Caches, cleanupConnection, Attached
  <2>3. ASSUME NEW b \in registry' PROVE Caches(conn[b], conn'[b], TRUE)
    BY <1>0, <2>1, <2>2, <2>3
  <2> QED
    BY <2>1, <2>3 DEF CacheStep, Caches
<1> QED
  BY <1>1, <1>2, <1>3, <1>4, <1>5, <1>6, <1>7, <1>8, <1>9 DEF Resumes

\* A change of the record takes the generation over: its lookup is awaited.
LEMMA MutateUpToDate ==
  ASSUME TypeInv, SnapInv, UpToDate, NEW k \in Creds, Mutate(k)
  PROVE  UpToDate'
<1>1. pend \in [Creds -> Pending] /\ store \in [Creds -> Snapshot]
  BY TypeParts DEF RestOK, Pending
<1>2. /\ UNCHANGED <<conn, registry>>
      /\ pend' = [pend EXCEPT ![k] = Generation(pend[k], invGen + 1)]
      /\ \A j \in Creds : j # k => store'[j] = store[j]
  BY <1>1 DEF Mutate
<1>3. PICK snap : tasks' = tasks \cup {[kind |-> "invalidate", cred |-> k, gen |-> invGen + 1,
                                        snap |-> snap]}
  BY DEF Mutate
<1> DEFINE u == [kind |-> "invalidate", cred |-> k, gen |-> invGen + 1, snap |-> snap]
<1>4. u.kind = "invalidate" /\ u.cred = k /\ u.gen = invGen + 1 /\ tasks' = tasks \cup {u}
  BY <1>3
<1> HIDE DEF u
<1>5. pend'[k].gen = invGen + 1 /\ \A j \in Creds : j # k => pend'[j] = pend[j]
  BY <1>1, <1>2 DEF Generation, Pending
<1>6. Awaited(k)'
  BY <1>4, <1>5 DEF Awaited, Lookups, Wins
<1> SUFFICES ASSUME NEW c \in registry', conn'[c].phase = "active", Attached(conn'[c]),
                    NEW j, j = conn'[c].cred, conn'[c].rec.ver # store'[j].ver
             PROVE  Awaited(j)'
  BY DEF UpToDate, Attached
<1>7. CASE j # k
  <2>1. j \in Creds /\ Awaited(j)
    BY <1>2, <1>7, TypeParts DEF UpToDate
  <2>2. PICK t \in Lookups(j) : Wins(t)
    BY <2>1 DEF Awaited
  <2>3. t \in Lookups(j)' /\ Wins(t)'
    BY <1>4, <1>5, <1>7, <2>1, <2>2 DEF Lookups, Wins
  <2> QED
    BY <2>3 DEF Awaited
<1> QED
  BY <1>6, <1>7

\* The last reference belongs to the only lookup.
LEMMA LastLookup ==
  ASSUME TypeInv, Counted, NEW t \in tasks, t.kind = "invalidate", pend[t.cred].refs = 1
  PROVE  Lookups(t.cred) = {t}
<1>1. t.cred \in Creds
  BY LookupHoldsReference
<1>2. IsFiniteSet(Lookups(t.cred)) /\ Cardinality(Lookups(t.cred)) = 1 /\ t \in Lookups(t.cred)
  BY <1>1 DEF Counted, Lookups
<1>3. /\ IsFiniteSet(Lookups(t.cred) \ {t})
      /\ Cardinality(Lookups(t.cred) \ {t}) = Cardinality(Lookups(t.cred)) - 1
  BY <1>2, FS_RemoveElement
<1>4. Cardinality(Lookups(t.cred) \ {t}) = 0
  BY <1>2, <1>3
<1>5. Lookups(t.cred) \ {t} = {}
  BY <1>3, <1>4, FS_EmptySet
<1> QED
  BY <1>2, <1>5

\* A connection whose lookup fails is closed.
LEMMA FailedCloses ==
  ASSUME NEW d \in Conn
  PROVE  AdoptSnapshot(d, None).sock # "open"
<1>1. Close(d) \in Conn /\ Close(d).sock # "open"
  BY CloseSame DEF Close, Conn
<1>2. stopHeartbeat(Close(d)).sock = Close(d).sock
  BY <1>1 DEF stopHeartbeat, Conn
<1> QED
  BY <1>1, <1>2 DEF AdoptSnapshot

\* The invalidation that wins writes the stored record to every active
\* connection, or closes it; one that loses leaves the winner out, or it came first.
LEMMA InvalidatedUpToDate ==
  ASSUME TypeInv, SnapInv, FromMemory, UpToDate, NEW t \in tasks, Invalidated(t)
  PROVE  UpToDate'
<1> DEFINE k == t.cred
<1>0. /\ t.kind = "invalidate" /\ k \in Creds /\ t.snap \in MaybeSnapshot
      /\ MayFail \/ t.snap # None
      /\ pend[k] \in Pending /\ pend[k].refs > 0 /\ pend \in [Creds -> Pending]
      /\ conn \in [Conns -> Conn] /\ registry \subseteq Conns
  BY LookupHoldsReference, TypeParts DEF Invalidated, SnapInv, FromMemory, RestOK, Pending
<1>1. /\ UNCHANGED <<store, registry>> /\ tasks' = tasks \ {t}
      /\ pend' = [pend EXCEPT ![k] = Release(pend[k], t)]
      /\ \A c \in Conns : conn'[c] =
           IF Wins(t) /\ c \in getByCredentialId(k) /\ conn[c].phase = "active"
           THEN AdoptSnapshot(conn[c], t.snap) ELSE conn[c]
  BY DEF Invalidated
<1>2. \A c \in Conns : /\ conn'[c].phase = conn[c].phase /\ conn'[c].cred = conn[c].cred
                       /\ Attached(conn'[c]) => Attached(conn[c])
  <2> SUFFICES ASSUME NEW c \in Conns
               PROVE  /\ conn'[c].phase = conn[c].phase /\ conn'[c].cred = conn[c].cred
                      /\ Attached(conn'[c]) => Attached(conn[c])
    OBVIOUS
  <2>1. conn'[c] = AdoptSnapshot(conn[c], t.snap) \/ conn'[c] = conn[c]
    BY <1>1
  <2>2. Alike(conn[c], AdoptSnapshot(conn[c], t.snap))
    BY <1>0, AdoptAlike
  <2> QED
    BY <2>1, <2>2 DEF Alike, Attached
<1> SUFFICES ASSUME NEW c \in registry, conn[c].phase = "active", Attached(conn'[c]),
                    NEW j, j = conn[c].cred, conn'[c].rec.ver # store[j].ver
             PROVE  Awaited(j)'
  BY <1>0, <1>1, <1>2 DEF UpToDate, Attached
<1>3. c \in Conns /\ j \in Creds
  BY <1>0, TypeParts
<1>4. ~(Wins(t) /\ j = k)
  <2> SUFFICES ASSUME Wins(t), j = k PROVE FALSE
    OBVIOUS
  <2>1. c \in getByCredentialId(k)
    BY DEF getByCredentialId
  <2>2. conn'[c] = AdoptSnapshot(conn[c], t.snap)
    BY <1>1, <1>3, <2>1
  <2>3. t.snap # None
    <3> SUFFICES ASSUME t.snap = None PROVE FALSE
      OBVIOUS
    <3>1. conn'[c].sock = "open"
      BY <1>0 DEF Attached
    <3>2. conn'[c].sock # "open"
      BY <1>0, <1>3, <2>2, FailedCloses
    <3> QED
      BY <3>1, <3>2
  <2>4. conn'[c].rec = t.snap
    BY <1>0, <1>3, <2>2, <2>3, AdoptAlike
  <2>5. t.snap = store[k]
    BY <1>0, <2>3 DEF SnapInv, Current
  <2> QED
    BY <2>4, <2>5
<1>5. conn'[c] = conn[c]
  BY <1>1, <1>3, <1>4 DEF getByCredentialId
<1>6. Awaited(j)
  BY <1>2, <1>3, <1>5 DEF UpToDate
<1>7. PICK u \in Lookups(j) : Wins(u)
  BY <1>6 DEF Awaited
<1>8. u # t /\ u \in tasks /\ u.kind = "invalidate" /\ u.cred = j
  BY <1>4, <1>7 DEF Lookups
<1>9. u \in Lookups(j)'
  BY <1>1, <1>8 DEF Lookups
<1>10. Wins(u)'
  <2>1. CASE j # k
    BY <1>0, <1>1, <1>3, <1>7, <1>8, <2>1 DEF Wins
  <2>2. CASE j = k
    <3>1. pend[k].refs # 1
      <4>1. pend[k].refs = 1 => Lookups(k) = {t}
        BY <1>0, LastLookup DEF SnapInv
      <4> QED
        BY <1>7, <1>8, <2>2, <4>1
    <3>2. pend'[k].gen = pend[k].gen
      BY <1>0, <1>1, <3>1 DEF Release, Pending
    <3> QED
      BY <1>7, <1>8, <2>2, <3>2 DEF Wins
  <2> QED
    BY <2>1, <2>2
<1> QED
  BY <1>9, <1>10 DEF Awaited

-----------------------------------------------------------------------------
(* Lookups answered from memory.                                             *)

\* A step taken when no lookup is out starts at most one.
LEMMA MemoryStarts ==
  ASSUME TypeInv, FromMemory, ~\E t \in tasks : t.kind \in LookupKinds,
         NEW u,
         \A t \in tasks' : t \in tasks \/ t = u \/ t.kind \notin LookupKinds \cup {"invalidate"},
         u.kind \in LookupKinds => u.snap \in {store[CredOf(u)], None}',
         u.kind = "invalidate" => MayFail \/ u.snap # None
  PROVE  FromMemory'
<1>1. \A t \in tasks' : t.kind \in LookupKinds => t = u
  OBVIOUS
<1>2. \A t \in tasks' : t.kind \in LookupKinds => t.snap \in {store[CredOf(t)], None}'
  BY <1>1
<1>3. \A t \in tasks' : t.kind = "invalidate" => MayFail \/ t.snap # None
  BY DEF FromMemory
<1> QED
  BY <1>1, <1>2, <1>3 DEF FromMemory

\* The lookup that is out resumes its handler.
LEMMA MemoryEnds ==
  ASSUME TypeInv, FromMemory, NEW v \in tasks, v.kind \in LookupKinds,
         v \notin tasks',
         \A t \in tasks' : t \in tasks \/ t.kind \notin LookupKinds \cup {"invalidate"}
  PROVE  FromMemory'
<1>1. \A t \in tasks' : t.kind \notin LookupKinds
  BY DEF FromMemory
<1>2. \A t \in tasks' : t.kind = "invalidate" => MayFail \/ t.snap # None
  BY DEF FromMemory
<1> QED
  BY <1>1, <1>2 DEF FromMemory

LEMMA SocketMemory ==
  ASSUME TypeInv, FromMemory, ~\E t \in tasks : t.kind \in LookupKinds,
         NEW c \in Conns, SocketStep(c)
  PROVE  FromMemory'
<1>0. conn \in [Conns -> Conn] /\ conn[c] \in Conn
  BY TypeParts
<1>1. CASE UNCHANGED tasks
  BY <1>1 DEF FromMemory
<1>2. ASSUME HeartbeatTick(c), ~UNCHANGED tasks PROVE FromMemory'
  <2>1. PICK snap \in Lookup(conn[c].cred) :
          tasks' = tasks \cup {[kind |-> "heartbeat", conn |-> c, snap |-> snap]}
    BY <1>2 DEF HeartbeatTick
  <2> DEFINE u == [kind |-> "heartbeat", conn |-> c, snap |-> snap]
  <2>2. u.kind = "heartbeat" /\ u.conn = c /\ u.snap \in {store[conn[c].cred], None}
    BY <2>1 DEF Lookup
  <2>3. tasks' = tasks \cup {u} /\ UNCHANGED <<conn, store>>
    BY <1>2, <2>1 DEF HeartbeatTick
  <2> HIDE DEF u
  <2> QED
    BY <2>2, <2>3, MemoryStarts DEF CredOf, LookupKinds
<1>3. ASSUME NEW k \in Creds, NEW last, AuthFrame(c, k, last) PROVE FromMemory'
  <2>1. PICK snap \in handleAuth(k) :
          tasks' = tasks \cup {[kind |-> "auth", conn |-> c, n |-> conn[c].auths, cred |-> k,
                                last |-> last, snap |-> snap]}
    BY <1>3 DEF AuthFrame
  <2> DEFINE u == [kind |-> "auth", conn |-> c, n |-> conn[c].auths, cred |-> k, last |-> last,
                   snap |-> snap]
  <2>2. u.kind = "auth" /\ u.cred = k /\ u.snap \in {store[k], None}
    BY <2>1 DEF handleAuth, Lookup
  <2>3. tasks' = tasks \cup {u} /\ UNCHANGED store
    BY <1>3, <2>1 DEF AuthFrame
  <2> HIDE DEF u
  <2> QED
    BY <2>2, <2>3, MemoryStarts DEF CredOf, LookupKinds
<1>4. ASSUME NEW r \in Reqs, NEW kind \in ReqKinds, Request(c, r, kind) PROVE FromMemory'
  <2>1. PICK snap \in Lookup(conn[c].cred) :
          tasks' = tasks \cup {[kind |-> "request", conn |-> c, req |-> r, of |-> kind,
                                snap |-> snap]}
    BY <1>4 DEF Request
  <2> DEFINE u == [kind |-> "request", conn |-> c, req |-> r, of |-> kind, snap |-> snap]
  <2>2. u.kind = "request" /\ u.conn = c /\ u.snap \in {store[conn[c].cred], None}
    BY <2>1 DEF Lookup
  <2>3. tasks' = tasks \cup {u} /\ UNCHANGED store
    BY <1>4, <2>1 DEF Request
  <2>4. conn'[c].cred = conn[c].cred
    BY <1>0, <1>4 DEF Request, Conn
  <2> HIDE DEF u
  <2> QED
    BY <2>2, <2>3, <2>4, MemoryStarts DEF CredOf, LookupKinds
<1>5. CASE Open(c) \/ CloseEvent(c) \/ AuthTimeout(c) \/ RejectedFrame(c) \/ Block(c) \/ Drain(c)
           \/ \E r \in Reqs : RequestTimeout(c, r)
  <2>1. UNCHANGED tasks
    BY <1>5 DEF Open, CloseEvent, AuthTimeout, RejectedFrame, Block, Drain, RequestTimeout
  <2> QED
    BY <1>1, <2>1
<1> QED
  BY <1>1, <1>2, <1>3, <1>4, <1>5 DEF SocketStep

LEMMA ServerMemory ==
  ASSUME TypeInv, FromMemory, ~\E t \in tasks : t.kind \in LookupKinds,
         Start \/ Stop \/ \E k \in Creds : CredStep(k)
  PROVE  FromMemory'
<1>1. CASE UNCHANGED tasks
  BY <1>1 DEF FromMemory
<1>2. CASE Stop
  <2> DEFINE u == [kind |-> "drain", expired |-> FALSE]
  <2>1. u.kind = "drain" /\ tasks' = tasks \cup {u}
    BY <1>2 DEF Stop
  <2> HIDE DEF u
  <2> QED
    BY <2>1, MemoryStarts DEF LookupKinds
<1>3. ASSUME NEW k \in Creds, Mutate(k) PROVE FromMemory'
  <2>1. PICK snap, gen : /\ tasks' = tasks \cup {[kind |-> "invalidate", cred |-> k, gen |-> gen,
                                                   snap |-> snap]}
                         /\ MayFail \/ snap # None
    <3>1. PICK status \in Statuses :
            \E snap : /\ tasks' = tasks \cup {[kind |-> "invalidate", cred |-> k,
                                               gen |-> invGen + 1, snap |-> snap]}
                      /\ MayFail \/ snap = [ver |-> store[k].ver + 1, status |-> status]
      BY <1>3 DEF Mutate, Statuses
    <3> DEFINE fresh == [ver |-> store[k].ver + 1, status |-> status]
    <3>2. store[k].ver < MaxVer
      BY <1>3 DEF Mutate
    <3>3. fresh \in Snapshot
      <4>1. store[k].ver \in Vers
        BY TypeParts DEF RestOK, Snapshot
      <4>2. store[k].ver + 1 \in Vers
        BY <3>2, <4>1, BoundAssumption DEF Vers
      <4> QED
        BY <4>2 DEF Snapshot
    <3>4. fresh # None
      BY <3>3, SnapshotAssumption
    <3> QED
      BY <3>1, <3>4
  <2> DEFINE u == [kind |-> "invalidate", cred |-> k, gen |-> gen, snap |-> snap]
  <2>2. u.kind = "invalidate" /\ (MayFail \/ u.snap # None) /\ tasks' = tasks \cup {u}
    BY <2>1
  <2> HIDE DEF u
  <2> QED
    BY <2>2, MemoryStarts DEF LookupKinds
<1>4. CASE Start \/ \E k \in Creds : \E ev \in Events : Broadcast(k, ev)
  <2>1. UNCHANGED tasks
    BY <1>4 DEF Start, Broadcast
  <2> QED
    BY <1>1, <2>1
<1> QED
  BY <1>2, <1>3, <1>4 DEF CredStep

\* A continuation of a lookup ends it; another one runs when none is out.
LEMMA TaskMemory ==
  ASSUME TypeInv, FromMemory, NEW t \in tasks, Resumes(t) \/ HandlerDone(t),
         t.kind \notin LookupKinds => ~\E u \in tasks : u.kind \in LookupKinds
  PROVE  FromMemory'
<1>0. t \in Task
  BY TaskOut
<1>1. CASE /\ t.kind \in LookupKinds
           /\ \/ AuthRefused(t) \/ AuthAccepted(t) \/ HeartbeatLookedUp(t) \/ RequestRefused(t)
              \/ RequestMalformed(t) \/ RequestRouted(t) \/ Refreshed(t)
  <2>1. t \notin tasks' /\ \A u \in tasks' : u \in tasks \/ u.kind \in {"fingerprint", "handler"}
    <3>1. CASE AuthAccepted(t)
      BY <3>1 DEF AuthAccepted
    <3>2. CASE RequestRouted(t)
      BY <3>2 DEF RequestRouted
    <3>3. CASE \/ AuthRefused(t) \/ HeartbeatLookedUp(t) \/ RequestRefused(t)
               \/ RequestMalformed(t) \/ Refreshed(t)
      BY <3>3 DEF AuthRefused, HeartbeatLookedUp, RequestRefused, RequestMalformed, Refreshed
    <3> QED
      BY <1>1, <3>1, <3>2, <3>3
  <2> QED
    BY <1>1, <2>1, MemoryEnds DEF LookupKinds
<1>2. CASE Fingerprinted(t) \/ Invalidated(t) \/ FinishStop(t)
  <2>1. t.kind \notin LookupKinds /\ tasks' \subseteq tasks
    BY <1>2 DEF Fingerprinted, Invalidated, FinishStop, LookupKinds
  <2>2. \A u \in tasks' : u \in tasks /\ u.kind \notin LookupKinds
    BY <2>1
  <2> QED
    BY <2>2 DEF FromMemory
<1>3. CASE DrainDeadline(t) \/ DrainDone(t)
  <2>1. t.kind \notin LookupKinds
    BY <1>3 DEF DrainDeadline, DrainDone, LookupKinds
  <2>2. \A u \in tasks' : u \in tasks \/ u.kind \in {"drain", "stopping"}
    <3>1. CASE DrainDeadline(t)
      <4>1. t \in [kind : {"drain"}, expired : BOOLEAN]
        BY <1>0, <3>1, TaskFields DEF DrainDeadline
      <4>2. [t EXCEPT !.expired = TRUE].kind = "drain"
        BY <4>1
      <4> QED
        BY <3>1, <4>2 DEF DrainDeadline
    <3>2. CASE DrainDone(t)
      BY <3>2 DEF DrainDone
    <3> QED
      BY <1>3, <3>1, <3>2
  <2>3. \A u \in tasks' : u.kind \notin LookupKinds /\ (u.kind = "invalidate" => u \in tasks)
    BY <2>1, <2>2 DEF LookupKinds
  <2> QED
    BY <2>3 DEF FromMemory
<1>4. CASE HandlerDone(t)
  <2>1. t.kind = "handler" /\ t.kind \notin LookupKinds
    BY <1>4 DEF HandlerDone, LookupKinds
  <2>2. CASE tasks' = tasks \ {t}
    BY <2>1, <2>2 DEF FromMemory
  <2>3. CASE tasks' # tasks \ {t}
    <3>1. PICK snap \in Lookup(conn[t.conn].cred) :
            tasks' = (tasks \ {t}) \cup {[kind |-> "refresh", conn |-> t.conn, req |-> t.req,
                                          snap |-> snap]}
      BY <1>4, <2>3 DEF HandlerDone
    <3> DEFINE u == [kind |-> "refresh", conn |-> t.conn, req |-> t.req, snap |-> snap]
    <3>2. u.kind = "refresh" /\ u.conn = t.conn /\ u.snap \in {store[conn[t.conn].cred], None}
      BY <3>1 DEF Lookup
    <3>3. tasks' = (tasks \ {t}) \cup {u} /\ UNCHANGED <<conn, store>>
      BY <1>4, <2>3, <3>1 DEF HandlerDone
    <3> HIDE DEF u
    <3> QED
      BY <2>1, <3>2, <3>3, MemoryStarts DEF CredOf, LookupKinds
  <2> QED
    BY <2>2, <2>3
<1>5. \/ AuthRefused(t) \/ AuthAccepted(t) \/ HeartbeatLookedUp(t) \/ RequestRefused(t)
      \/ RequestMalformed(t) \/ RequestRouted(t) \/ Refreshed(t)
      => t.kind \in LookupKinds
  BY DEF AuthRefused, AuthAccepted, HeartbeatLookedUp, RequestRefused, RequestMalformed,
     RequestRouted, Refreshed, LookupKinds
<1> QED
  BY <1>1, <1>2, <1>3, <1>4, <1>5 DEF Resumes

LEMMA LoopMemory ==
  ASSUME TypeInv, FromMemory, SendLoopStep \/ ShutdownLoopStep PROVE FromMemory'
<1>1. UNCHANGED <<tasks, store>>
  BY DEF SendLoopStep, ShutdownLoopStep
<1>2. \A c \in Conns : conn'[c].cred = conn[c].cred
  BY LoopMoves DEF QuietStep, SendingStep, ConnShift, Shift
<1>3. ASSUME NEW t \in tasks, t.kind \in LookupKinds PROVE CredOf(t)' = CredOf(t)
  <2>1. CASE t.kind = "auth"
    BY <2>1 DEF CredOf
  <2>2. CASE t.kind # "auth"
    <3>1. t.conn \in Conns
      BY <1>3, TaskOut DEF LookupKinds, CarriedKinds
    <3> QED
      BY <1>2, <2>2, <3>1 DEF CredOf
  <2> QED
    BY <2>1, <2>2
<1>4. \A t \in tasks : t.kind \in LookupKinds => t.snap \in {store[CredOf(t)], None}'
  BY <1>1, <1>3 DEF FromMemory
<1> QED
  BY <1>1, <1>4 DEF FromMemory

LEMMA MemoryStep ==
  ASSUME ~SlowLookups, TypeInv, FromMemory, Next
  PROVE  FromMemory'
<1>1. LookupOut <=> \E t \in tasks : t.kind \in LookupKinds
  BY DEF LookupOut, LookupKinds
<1>2. ASSUME NEW t \in tasks, Ready(t), Resumes(t) \/ HandlerDone(t) PROVE FromMemory'
  <2>1. t.kind \notin LookupKinds => ~\E u \in tasks : u.kind \in LookupKinds
    BY <1>1, <1>2 DEF Ready, LookupKinds
  <2> QED
    BY <1>2, <2>1, TaskMemory
<1>3. CASE Idle /\ (Start \/ Stop \/ \E k \in Creds : CredStep(k))
  BY <1>1, <1>3, ServerMemory DEF Idle
<1>4. ASSUME Idle, NEW c \in Conns, SocketStep(c) PROVE FromMemory'
  BY <1>1, <1>4, SocketMemory DEF Idle
<1> QED
  BY <1>2, <1>3, <1>4, LoopMemory DEF Next

-----------------------------------------------------------------------------
(* What is queued, sent and kept.                                            *)

\* No lookup of an invalidation is out when its references are given back.
LEMMA NoLookups ==
  ASSUME TypeInv, Counted, NEW k \in Creds, pend[k].refs = 0
  PROVE  Lookups(k) = {}
<1>1. IsFiniteSet(Lookups(k)) /\ Cardinality(Lookups(k)) = 0
  BY DEF Counted
<1> QED
  BY <1>1, FS_EmptySet

LEMMA ReceiverFacts ==
  ASSUME NEW cs, NEW k, NEW ev, NEW c \in Receivers(cs, k, ev)
  PROVE  c \in registry /\ conn[c].cred = k /\ cs[c].phase = "active"
BY DEF Receivers, Receives, getByCredentialId

LEMMA BroadcastQueues ==
  ASSUME TypeInv, SnapInv, QueuesInv, NEW k \in Creds, NEW ev \in Events, Broadcast(k, ev),
         loop = None
  PROVE  QueuesInv'
<1> DEFINE event == [ev |-> ev, bver |-> store[k].ver]
<1>0. pend \in [Creds -> Pending] /\ pend[k] \in Pending /\ pend[k].queue \in Seq(Queued)
  BY TypeParts DEF RestOK, Pending
<1>1. UNCHANGED <<store, conn, registry, tasks>> /\ store[k].ver \in Nat
  BY LookupType, BoundAssumption DEF Broadcast, Snapshot, Vers
<1>2. event.bver = store[k].ver
  OBVIOUS
<1>3. event \in Queued
  BY <1>1 DEF Queued
<1>4. CASE pend' = [pend EXCEPT ![k].queue = Append(@, event)] /\ UNCHANGED loop
  <2> DEFINE q == pend[k].queue
  <2>1. pend'[k].queue = Append(q, event) /\ \A j \in Creds : j # k => pend'[j] = pend[j]
    BY <1>0, <1>4 DEF Pending
  <2> HIDE DEF event, q
  <2>2. QueuedBefore(q, k) /\ q \in Seq(Queued)
    BY <1>0 DEF QueuesInv, q
  <2>3. /\ DOMAIN Append(q, event) = 1..(Len(q) + 1) /\ DOMAIN q = 1..Len(q) /\ Len(q) \in Nat
        /\ Append(q, event)[Len(q) + 1] = event
        /\ \A i \in 1..Len(q) : Append(q, event)[i] = q[i]
    BY <1>3, <2>2, AppendProperties
  <2>4. ASSUME NEW i \in DOMAIN Append(q, event)
        PROVE  Append(q, event)[i].bver <= store[k].ver
    <3>1. CASE i = Len(q) + 1
      BY <1>1, <1>2, <2>3, <3>1
    <3>2. CASE i \in 1..Len(q)
      BY <2>2, <2>3, <3>2 DEF QueuedBefore
    <3> QED
      BY <2>3, <3>1, <3>2
  <2>5. \A j \in Creds : QueuedBefore(pend[j].queue, j)'
    BY <1>1, <2>1, <2>4 DEF QueuedBefore, QueuesInv
  <2> QED
    BY <1>4, <2>5 DEF QueuesInv
<1>5. CASE /\ pend[k].refs = 0 /\ UNCHANGED pend
           /\ loop' = [kind |-> "events", cred |-> k, queue |-> <<event>>,
                       left |-> Receivers(conn, k, ev)]
  <2> DEFINE left == Receivers(conn, k, ev)
  <2>1. loop'.cred = k /\ loop'.queue = <<event>> /\ loop'.left = left
    BY <1>5
  <2>2. Lookups(k)' = {}
    BY <1>1, <1>5, NoLookups DEF SnapInv, Lookups
  <2>3. \A c \in left : c \in registry /\ conn[c].phase = "active" /\ conn[c].cred = k
    BY ReceiverFacts
  <2>4. \A i \in DOMAIN <<event>> : <<event>>[i].bver <= store[k].ver
    BY <1>1
  <2>5. \A j \in Creds : QueuedBefore(pend[j].queue, j)'
    BY <1>1, <1>5 DEF QueuedBefore, QueuesInv
  <2> HIDE DEF event, left
  <2> QED
    BY <1>1, <2>1, <2>2, <2>3, <2>4, <2>5 DEF QueuesInv, QueuedBefore
<1> QED
  BY <1>4, <1>5 DEF Broadcast

LEMMA InvalidatedQueues ==
  ASSUME TypeInv, SnapInv, QueuesInv, NEW t \in tasks, Invalidated(t)
  PROVE  QueuesInv'
<1> DEFINE k == t.cred
           after == Release(pend[k], t)
           queue == pend[k].queue
           adopted == [c \in Conns |->
             IF Wins(t) /\ c \in getByCredentialId(k) /\ conn[c].phase = "active"
             THEN AdoptSnapshot(conn[c], t.snap) ELSE conn[c]]
           left == Receivers(adopted, k, Head(queue).ev)
<1>0. /\ t.kind = "invalidate" /\ k \in Creds /\ t.snap \in MaybeSnapshot
      /\ pend[k] \in Pending /\ pend[k].refs > 0 /\ pend \in [Creds -> Pending]
      /\ conn \in [Conns -> Conn] /\ registry \subseteq Conns
  BY LookupHoldsReference, TypeParts DEF Invalidated, SnapInv, RestOK, Pending
<1>1. /\ conn' = adopted /\ pend' = [pend EXCEPT ![k] = after] /\ tasks' = tasks \ {t}
      /\ loop' = IF after.refs = 0 /\ queue # <<>>
                 THEN [kind |-> "events", cred |-> k, queue |-> queue, left |-> left]
                 ELSE None
      /\ UNCHANGED <<store, registry>>
  BY DEF Invalidated
<1>2. after.queue = <<>> \/ after.queue = queue
  BY <1>0 DEF Release, NoPending, Pending
<1>3. after.refs = 0 => pend[k].refs = 1
  BY <1>0 DEF Release, NoPending, Pending
<1>4. QueuedBefore(queue, k) /\ QueuedBefore(after.queue, k)
  BY <1>0, <1>2 DEF QueuesInv, QueuedBefore
<1>5. \A c \in Conns : conn'[c].cred = conn[c].cred
  BY InvalidatedQuiet DEF SnapInv, QuietStep, ConnShift, Shift
<1> HIDE DEF after, queue
<1>6. \A j \in Creds : QueuedBefore(pend[j].queue, j)'
  BY <1>0, <1>1, <1>4 DEF QueuedBefore, QueuesInv
<1>7. CASE after.refs = 0 /\ queue # <<>>
  <2>1. \A c \in left : c \in registry /\ conn[c].cred = k /\ adopted[c].phase = "active"
    BY ReceiverFacts
  <2>2. \A c \in left : c \in registry' /\ conn'[c].cred = k /\ conn'[c].phase = "active"
    BY <1>0, <1>1, <1>5, <2>1
  <2>3. Lookups(k) = {t}
    BY <1>0, <1>3, <1>7, LastLookup DEF SnapInv
  <2>4. Lookups(k)' = {}
    BY <1>1, <2>3 DEF Lookups
  <2> HIDE DEF left, adopted
  <2>5. loop'.cred = k /\ loop'.queue = queue /\ loop'.left = left
    BY <1>1, <1>7
  <2> QED
    BY <1>1, <1>4, <1>6, <2>2, <2>4, <2>5 DEF QueuesInv, QueuedBefore
<1>8. CASE ~(after.refs = 0 /\ queue # <<>>)
  BY <1>1, <1>6, <1>8 DEF QueuesInv
<1> QED
  BY <1>7, <1>8

LEMMA MutateQueues ==
  ASSUME TypeInv, QueuesInv, NEW k \in Creds, Mutate(k), loop = None
  PROVE  QueuesInv'
<1>1. pend \in [Creds -> Pending] /\ store \in [Creds -> Snapshot]
  BY TypeParts DEF RestOK, Pending
<1>2. /\ pend' = [pend EXCEPT ![k] = Generation(pend[k], invGen + 1)] /\ UNCHANGED loop
  BY DEF Mutate
<1>3. store'[k].ver = store[k].ver + 1 /\ \A j \in Creds : j # k => store'[j] = store[j]
  BY <1>1 DEF Mutate
<1>4. \A j \in Creds : pend'[j].queue = pend[j].queue
  BY <1>1, <1>2 DEF Generation, Pending
<1>5. ASSUME NEW j \in Creds PROVE QueuedBefore(pend[j].queue, j)'
  <2>1. pend[j].queue \in Seq(Queued) /\ QueuedBefore(pend[j].queue, j) /\ store[k].ver \in Nat
    BY <1>1, BoundAssumption DEF Pending, QueuesInv, Snapshot, Vers
  <2>2. \A i \in DOMAIN pend[j].queue : pend[j].queue[i].bver \in Nat
    <3>1. \A i \in DOMAIN pend[j].queue : pend[j].queue[i] \in Queued
      BY <2>1
    <3> QED
      BY <3>1 DEF Queued
  <2>3. CASE j = k
    BY <1>3, <1>4, <2>1, <2>2, <2>3 DEF QueuedBefore
  <2>4. CASE j # k
    BY <1>3, <1>4, <2>1, <2>4 DEF QueuedBefore
  <2> QED
    BY <2>3, <2>4
<1> QED
  BY <1>2, <1>5 DEF QueuesInv

\* Steps that leave the queues, the loop and the receivers alone.
LEMMA QueuesKept ==
  ASSUME QueuesInv, UNCHANGED <<store, pend>>, loop' = None \/ loop'.kind # "events"
  PROVE  QueuesInv'
<1>1. \A k \in Creds : QueuedBefore(pend[k].queue, k)'
  BY DEF QueuesInv, QueuedBefore
<1> QED
  BY <1>1 DEF QueuesInv

\* A send leaves phase and credential of every connection alone.
LEMMA SendLoopQueues ==
  ASSUME TypeInv, QueuesInv, SendLoopStep
  PROVE  QueuesInv'
<1> DEFINE rest == Tail(loop.queue)
<1>0. /\ loop # None /\ loop.kind = "events" /\ loop \in EventLoop /\ loop.queue # <<>>
      /\ UNCHANGED <<store, registry, pend, tasks>>
  BY TypeParts DEF SendLoopStep, LoopOK, LoopLinked, ShutdownLoop
<1>1. /\ loop.cred \in Creds /\ loop.queue \in Seq(Queued) /\ loop.left \subseteq Conns
      /\ Lookups(loop.cred) = {} /\ QueuedBefore(loop.queue, loop.cred)
      /\ \A c \in loop.left : c \in registry /\ conn[c].phase = "active" /\ conn[c].cred = loop.cred
  BY <1>0 DEF EventLoop, QueuesInv
<1>2. \A k \in Creds : QueuedBefore(pend[k].queue, k)'
  BY <1>0 DEF QueuesInv, QueuedBefore
<1>3. \A k : k = loop.cred => Lookups(k)' = {}
  BY <1>0, <1>1 DEF Lookups
<1>4. ASSUME UNCHANGED conn, rest # <<>>,
             loop' = [loop EXCEPT !.queue = rest,
                                  !.left = Receivers(conn, loop.cred, Head(rest).ev)]
      PROVE  QueuesInv'
  <2> DEFINE left == Receivers(conn, loop.cred, Head(rest).ev)
  <2>1. rest \in Seq(Queued) /\ DOMAIN rest = 1..(Len(loop.queue) - 1)
        /\ \A i \in DOMAIN rest : rest[i] = loop.queue[i + 1] /\ i + 1 \in DOMAIN loop.queue
    BY <1>0, <1>1
  <2>2. \A i \in DOMAIN rest : rest[i].bver <= store[loop.cred].ver
    BY <1>1, <2>1 DEF QueuedBefore
  <2>3. \A c \in left : c \in registry /\ conn[c].phase = "active" /\ conn[c].cred = loop.cred
    BY ReceiverFacts
  <2> HIDE DEF rest, left
  <2>4. loop'.cred = loop.cred /\ loop'.queue = rest /\ loop'.left = left
    BY <1>0, <1>4 DEF EventLoop, left
  <2> QED
    BY <1>0, <1>2, <1>3, <1>4, <2>2, <2>3, <2>4 DEF QueuesInv, QueuedBefore
<1>5. ASSUME NEW c \in loop.left, loop' = [loop EXCEPT !.left = @ \ {c}],
             NEW ev, NEW pver, NEW bver, SendSequenced(c, conn[c], <<>>, ev, pver, bver)
      PROVE  QueuesInv'
  <2> DEFINE e == CheckBackpressure(sendJson(conn[c]))
  <2>1. conn' = [conn EXCEPT ![c] = e]
    BY <1>5 DEF SendSequenced
  <2>2. conn \in [Conns -> Conn] /\ conn[c] \in Conn /\ c \in Conns
    BY <1>1, TypeParts
  <2>3. e.phase = conn[c].phase /\ e.cred = conn[c].cred
    BY <2>2, SendCheckSame DEF Same, Alike
  <2> HIDE DEF e
  <2>4. \A b \in Conns : conn'[b].phase = conn[b].phase /\ conn'[b].cred = conn[b].cred
    BY <2>1, <2>2, <2>3
  <2>5. loop'.cred = loop.cred /\ loop'.queue = loop.queue /\ loop'.left = loop.left \ {c}
    BY <1>0, <1>5 DEF EventLoop
  <2>6. \A b \in loop'.left :
             b \in registry' /\ conn'[b].phase = "active" /\ conn'[b].cred = loop.cred
    BY <1>0, <1>1, <2>4, <2>5
  <2>7. QueuedBefore(loop.queue, loop.cred)'
    BY <1>0, <1>1, <2>5 DEF QueuedBefore
  <2> QED
    BY <1>2, <1>3, <2>5, <2>6, <2>7 DEF QueuesInv
<1>6. CASE loop' = None
  BY <1>2, <1>6 DEF QueuesInv
<1> QED
  BY <1>4, <1>5, <1>6 DEF SendLoopStep

LEMMA QueuesStep ==
  ASSUME TypeInv, SnapInv, QueuesInv, Next
  PROVE  QueuesInv'
<1>1. CASE ShutdownLoopStep
  <2>1. loop' = None \/ loop'.kind # "events"
    <3>1. loop # None /\ loop.kind = "shutdown" /\ loop \in ShutdownLoop
      BY <1>1, TypeParts DEF ShutdownLoopStep, LoopOK, EventLoop
    <3>2. \A c : [loop EXCEPT !.left = @ \ {c}].kind = "shutdown"
      BY <3>1 DEF ShutdownLoop
    <3> QED
      BY <1>1, <3>2 DEF ShutdownLoopStep
  <2>2. UNCHANGED <<store, pend>>
    BY <1>1 DEF ShutdownLoopStep
  <2> QED
    BY <2>1, <2>2, QueuesKept
<1>2. CASE loop = None /\ (Start \/ Stop)
  <2>1. loop' = None \/ loop'.kind # "events"
    BY <1>2 DEF Start, Stop
  <2>2. UNCHANGED <<store, pend>>
    BY <1>2 DEF Start, Stop
  <2> QED
    BY <2>1, <2>2, QueuesKept
<1>3. ASSUME loop = None, NEW c \in Conns, SocketStep(c) PROVE QueuesInv'
  BY <1>3, SameSocket, QueuesKept DEF SameInvalidations
<1>4. ASSUME loop = None, NEW k \in Creds, CredStep(k) PROVE QueuesInv'
  BY <1>4, MutateQueues, BroadcastQueues DEF CredStep
<1>5. ASSUME loop = None, NEW t \in tasks, Resumes(t) \/ HandlerDone(t) PROVE QueuesInv'
  <2>1. CASE Invalidated(t)
    BY <2>1, InvalidatedQueues
  <2>2. CASE ~Invalidated(t)
    BY <1>5, <2>2, SameResumes, QueuesKept DEF SameInvalidations
  <2> QED
    BY <2>1, <2>2
<1> QED
  BY <1>1, <1>2, <1>3, <1>4, <1>5, SendLoopQueues DEF Next, Idle, Ready, Running

\* Every step leaves active connections with the current version, or with an
\* invalidation out that will write it.
LEMMA UpToDateStep ==
  ASSUME TypeInv, SnapInv, FromMemory, UpToDate, Next
  PROVE  UpToDate'
<1>1. CASE SendLoopStep \/ ShutdownLoopStep
  <2>1. UNCHANGED <<store, pend, tasks>>
    BY <1>1 DEF SendLoopStep, ShutdownLoopStep
  <2> QED
    BY <1>1, <2>1, LoopCaches, UpToDateKept DEF SameInvalidations
<1>2. ASSUME Start \/ Stop \/ \E k \in Creds, ev \in Events : Broadcast(k, ev) PROVE UpToDate'
  <2>1. UNCHANGED <<store, conn, registry>>
    BY <1>2 DEF Start, Stop, Broadcast
  <2>2. \A t \in tasks \cup tasks' : t.kind = "invalidate" => t \in tasks /\ t \in tasks'
    <3>1. CASE UNCHANGED tasks
      BY <3>1
    <3>2. CASE Stop
      BY <3>2 DEF Stop
    <3> QED
      BY <1>2, <3>1, <3>2 DEF Start, Broadcast
  <2>3. \A k \in Creds : pend'[k].refs = pend[k].refs /\ pend'[k].gen = pend[k].gen
    <3>1. pend \in [Creds -> Pending]
      BY TypeParts DEF RestOK, Pending
    <3>2. CASE UNCHANGED pend
      BY <3>2
    <3>3. ASSUME NEW k \in Creds, NEW ev \in Events, Broadcast(k, ev), ~UNCHANGED pend
          PROVE  \A j \in Creds : pend'[j].refs = pend[j].refs /\ pend'[j].gen = pend[j].gen
      <4> DEFINE event == [ev |-> ev, bver |-> store[k].ver]
      <4>1. pend' = [pend EXCEPT ![k].queue = Append(@, event)]
        BY <3>3 DEF Broadcast
      <4> HIDE DEF event
      <4>2. pend[k] \in Pending /\ pend'[k] = [pend[k] EXCEPT !.queue = Append(@, event)]
            /\ \A j \in Creds : j # k => pend'[j] = pend[j]
        BY <3>1, <4>1
      <4> QED
        BY <4>2 DEF Pending
    <3> QED
      BY <1>2, <3>2, <3>3 DEF Start, Stop
  <2>4. CacheStep
    BY <2>1, StutterCaches
  <2> QED
    BY <2>1, <2>2, <2>3, <2>4, UpToDateKept DEF SameInvalidations
<1>3. ASSUME NEW c \in Conns, SocketStep(c) PROVE UpToDate'
  BY <1>3, SameSocket, SocketCaches, UpToDateKept
<1>4. ASSUME NEW k \in Creds, CredStep(k) PROVE UpToDate'
  BY <1>2, <1>4, MutateUpToDate DEF CredStep
<1>5. ASSUME NEW t \in tasks, Resumes(t) \/ HandlerDone(t) PROVE UpToDate'
  <2>1. CASE Invalidated(t)
    BY <2>1, InvalidatedUpToDate
  <2>2. CASE ~Invalidated(t)
    BY <1>5, <2>2, SameResumes, TaskCaches, UpToDateKept
  <2> QED
    BY <2>1, <2>2
<1> QED
  BY <1>1, <1>2, <1>3, <1>4, <1>5 DEF Next

-----------------------------------------------------------------------------
(* Frames that are sent, kept and replayed.                                  *)

LEMMA FreshConcat ==
  ASSUME NEW s \in Seq(Frame), NEW f \in Seq(Frame), AllFresh(s), AllFresh(f)
  PROVE  AllFresh(s \o f)
<1> SUFFICES ASSUME NEW i \in DOMAIN (s \o f) PROVE (s \o f)[i].pver >= (s \o f)[i].bver
  BY DEF AllFresh
<1> QED
  BY ConcatFrames DEF AllFresh

LEMMA FreshAppend ==
  ASSUME NEW s \in Seq(Frame), NEW f \in Frame, AllFresh(s), f.pver >= f.bver
  PROVE  AllFresh(Append(s, f))
<1>1. /\ DOMAIN Append(s, f) = 1..(Len(s) + 1) /\ DOMAIN s = 1..Len(s) /\ Len(s) \in Nat
      /\ Append(s, f)[Len(s) + 1] = f /\ \A i \in 1..Len(s) : Append(s, f)[i] = s[i]
  BY AppendProperties
<1> SUFFICES ASSUME NEW i \in 1..(Len(s) + 1)
             PROVE  Append(s, f)[i].pver >= Append(s, f)[i].bver
  BY <1>1 DEF AllFresh
<1>2. CASE i = Len(s) + 1
  BY <1>1, <1>2
<1>3. CASE i \in 1..Len(s)
  BY <1>1, <1>3 DEF AllFresh
<1> QED
  BY <1>1, <1>2, <1>3

LEMMA FreshPush ==
  ASSUME NEW buf \in Seq(Frame), NEW f \in Frame, Len(buf) <= Cap, AllFresh(buf),
         f.pver >= f.bver
  PROVE  AllFresh(Push(buf, f))
<1> DEFINE p == Push(buf, f)
<1>1. /\ p \in Seq(Frame) /\ Len(p) = IF Len(buf) < Cap THEN Len(buf) + 1 ELSE Cap
      /\ \A i \in 1..Len(p) : p[i] = IF i = Len(p) THEN f
                                     ELSE IF Len(buf) < Cap THEN buf[i] ELSE buf[i + 1]
  BY PushBuf
<1> HIDE DEF p
<1>2. DOMAIN p = 1..Len(p) /\ DOMAIN buf = 1..Len(buf) /\ Len(buf) \in Nat /\ Len(p) \in Nat
  BY <1>1
<1> SUFFICES ASSUME NEW i \in 1..Len(p) PROVE p[i].pver >= p[i].bver
  BY <1>2 DEF AllFresh, p
<1>3. CASE i = Len(p)
  BY <1>1, <1>3
<1>4. CASE i # Len(p) /\ Len(buf) < Cap
  <2>1. p[i] = buf[i] /\ i \in 1..Len(buf)
    BY <1>1, <1>2, <1>4, CapAssumption
  <2> QED
    BY <1>2, <2>1 DEF AllFresh
<1>5. CASE i # Len(p) /\ ~(Len(buf) < Cap)
  <2>1. p[i] = buf[i + 1] /\ i + 1 \in 1..Len(buf)
    BY <1>1, <1>2, <1>5, CapAssumption
  <2> QED
    BY <1>2, <2>1 DEF AllFresh
<1> QED
  BY <1>3, <1>4, <1>5

NoNewOwed == \A t \in tasks' : t.kind = "fingerprint" => t \in tasks

\* What goes on the wire of one connection.
LEMMA FreshWire ==
  ASSUME TypeInv, FramesFresh, NEW c \in Conns, NEW fr \in Seq(Frame), AllFresh(fr),
         OnWire(c, fr)
  PROVE  \A b \in Conns : AllFresh(wire'[b])
<1>1. /\ wire'[c] = IF conn[c].sock = "open" THEN wire[c] \o fr ELSE wire[c]
      /\ \A b \in Conns : b # c => wire'[b] = wire[b]
  BY OnWireFacts
<1>2. wire[c] \in Seq(Frame) /\ \A b \in Conns : AllFresh(wire[b])
  BY TypeParts DEF RestOK, FramesFresh
<1>3. AllFresh(wire[c] \o fr)
  BY <1>2, FreshConcat
<1>4. AllFresh(wire'[c])
  BY <1>1, <1>2, <1>3
<1> QED
  BY <1>1, <1>2, <1>4

\* A frame that is sequenced with a snapshot as new as its broadcast.
LEMMA SequencedFresh ==
  ASSUME TypeInv, ReplayWindow, FramesFresh, NoNewOwed, NEW c \in Conns, NEW d, d.cred \in Creds,
         NEW before \in Seq(Frame), AllFresh(before), NEW ev \in Events \cup Signals,
         NEW pver \in Nat, NEW bver \in Nat, pver >= bver,
         SendSequenced(c, d, before, ev, pver, bver)
  PROVE  FramesFresh'
<1> DEFINE k == d.cred
           f == [seq |-> replay[k].nextSeq, ev |-> ev, pver |-> pver, bver |-> bver]
<1>1. /\ replay \in [Creds -> Replay] /\ replay[k] \in Replay /\ replay[k].buf \in Seq(Frame)
      /\ replay[k].nextSeq \in Nat \ {0}
  BY TypeParts DEF RestOK, Replay
<1>2. f \in Frame /\ f.pver = pver /\ f.bver = bver
  BY <1>1, SequenceType
<1>3. sequenceEvent(replay[k], ev, pver, bver).buf = Push(replay[k].buf, f)
  BY DEF sequenceEvent
<1>4. \/ /\ replay' = [replay EXCEPT ![k] = sequenceEvent(replay[k], ev, pver, bver)]
         /\ OnWire(c, Append(before, f))
      \/ UNCHANGED replay /\ OnWire(c, before)
  BY DEF SendSequenced
<1> HIDE DEF f
<1>5. Len(replay[k].buf) <= Cap
  BY <1>1, CapAssumption DEF ReplayWindow
<1>6. AllFresh(Push(replay[k].buf, f))
  BY <1>1, <1>2, <1>5, FreshPush DEF FramesFresh
<1>7. \A j \in Creds : AllFresh(replay'[j].buf)
  <2>1. CASE UNCHANGED replay
    BY <2>1 DEF FramesFresh
  <2>2. CASE replay' = [replay EXCEPT ![k] = sequenceEvent(replay[k], ev, pver, bver)]
    <3>1. /\ replay'[k].buf = Push(replay[k].buf, f)
          /\ \A j \in Creds : j # k => replay'[j] = replay[j]
      BY <1>1, <1>3, <2>2
    <3> QED
      BY <1>6, <3>1 DEF FramesFresh
  <2> QED
    BY <1>4, <2>1, <2>2
<1>8. Append(before, f) \in Seq(Frame) /\ AllFresh(Append(before, f))
  BY <1>2, FreshAppend
<1>9. \A b \in Conns : AllFresh(wire'[b])
  BY <1>4, <1>8, FreshWire
<1>10. \A t \in tasks' : t.kind = "fingerprint" => AllFresh(t.owed)
  BY DEF FramesFresh, NoNewOwed
<1> QED
  BY <1>7, <1>9, <1>10 DEF FramesFresh, AllFresh

LEMMA FramesKept ==
  ASSUME FramesFresh, NoNewOwed, UNCHANGED <<replay, wire>>
  PROVE  FramesFresh'
BY DEF FramesFresh, NoNewOwed, AllFresh

LEMMA HeartbeatFresh ==
  ASSUME TypeInv, ReplayWindow, FramesFresh, NEW t \in tasks, HeartbeatLookedUp(t)
  PROVE  FramesFresh'
<1> DEFINE c == t.conn
           d == AdoptSnapshot(conn[c], t.snap)
<1>1. /\ c \in Conns /\ conn[c] \in Conn /\ conn[c].cred \in Creds /\ t.snap \in MaybeSnapshot
  BY TaskOut, TaskFields, TypeParts DEF HeartbeatLookedUp, CarriedKinds
<1>2. d.cred \in Creds
  BY <1>1, AdoptAlike DEF Alike
<1>3. NoNewOwed
  BY DEF HeartbeatLookedUp, NoNewOwed
<1>4. CASE Healthy(t.snap)
  <2>1. SendSequenced(c, d, <<>>, "heartbeat", t.snap.ver, t.snap.ver)
    BY <1>4 DEF HeartbeatLookedUp
  <2>2. t.snap.ver \in Nat /\ "heartbeat" \in Events \cup Signals
    BY <1>1, <1>4, BoundAssumption DEF MaybeSnapshot, Snapshot, Vers, Healthy, Signals
  <2>3. <<>> \in Seq(Frame) /\ AllFresh(<<>>) /\ t.snap.ver >= t.snap.ver
    BY <2>2 DEF AllFresh
  <2> HIDE DEF c, d
  <2> QED
    BY <1>1, <1>2, <1>3, <2>1, <2>2, <2>3, SequencedFresh
<1>5. CASE ~Healthy(t.snap)
  BY <1>3, <1>5, FramesKept DEF HeartbeatLookedUp
<1> QED
  BY <1>4, <1>5

\* The loop sends when no invalidation is out, so its connections have cached
\* the stored version, which is not older than the events.
LEMMA LoopFresh ==
  ASSUME ~MayFail, TypeInv, ReplayWindow, UpToDate, QueuesInv, FramesFresh,
         SendLoopStep \/ ShutdownLoopStep
  PROVE  FramesFresh'
<1>0. <<>> \in Seq(Frame) /\ AllFresh(<<>>)
  BY DEF AllFresh
<1>1. /\ loop # None /\ loop.left \subseteq Conns /\ \A c \in loop.left : conn[c].cred \in Creds
      /\ NoNewOwed
  BY TypeParts DEF SendLoopStep, ShutdownLoopStep, LoopOK, LoopLinked, EventLoop, ShutdownLoop,
     NoNewOwed
<1>2. CASE UNCHANGED <<replay, wire>>
  BY <1>1, <1>2, FramesKept
<1>3. ASSUME SendLoopStep, NEW c \in loop.left,
             SendSequenced(c, conn[c], <<>>, Head(loop.queue).ev, conn[c].rec.ver,
                           Head(loop.queue).bver)
      PROVE  FramesFresh'
  <2> DEFINE k == loop.cred
             pver == conn[c].rec.ver
             bver == Head(loop.queue).bver
  <2>1. /\ loop.kind = "events" /\ loop.queue \in Seq(Queued) /\ loop.queue # <<>>
        /\ conn[c].rec # None /\ c \in Conns /\ conn[c] \in Conn /\ k \in Creds
    BY <1>1, <1>3, TypeParts DEF SendLoopStep, LoopOK, LoopLinked, EventLoop, ShutdownLoop
  <2>2. Head(loop.queue) \in Queued /\ Head(loop.queue) = loop.queue[1] /\ 1 \in DOMAIN loop.queue
    BY <2>1
  <2>3. Head(loop.queue).ev \in Events \cup Signals /\ bver \in Nat
    BY <2>2 DEF Queued
  <2>4. pver \in Nat
    BY <2>1, BoundAssumption DEF Conn, MaybeSnapshot, Snapshot, Vers
  <2>5. /\ c \in registry /\ conn[c].phase = "active" /\ conn[c].cred = k
        /\ Lookups(k) = {} /\ bver <= store[k].ver
    BY <1>1, <2>1, <2>2 DEF QueuesInv, QueuedBefore
  <2>6. pver = store[k].ver
    BY <2>5 DEF UpToDate, Awaited, Attached
  <2>7. pver >= bver
    BY <2>3, <2>4, <2>5, <2>6
  <2> HIDE DEF pver, bver
  <2>8. SendSequenced(c, conn[c], <<>>, Head(loop.queue).ev, pver, bver)
    BY <1>3 DEF pver, bver
  <2> QED
    BY <1>0, <1>1, <2>1, <2>3, <2>4, <2>7, <2>8, SequencedFresh
<1>4. ASSUME NEW c \in loop.left, conn[c].phase = "active",
             SendSequenced(c, [conn[c] EXCEPT !.phase = transition(@, "draining")], <<>>,
                           "shutdown", 0, 0)
      PROVE  FramesFresh'
  <2> DEFINE d == [conn[c] EXCEPT !.phase = transition(@, "draining")]
  <2>1. c \in Conns /\ d.cred \in Creds /\ 0 \in Nat /\ 0 >= 0
    BY <1>1, TypeParts DEF Conn
  <2>2. SendSequenced(c, d, <<>>, "shutdown", 0, 0) /\ "shutdown" \in Events \cup Signals
    BY <1>4 DEF Signals
  <2> HIDE DEF d
  <2> QED
    BY <1>0, <1>1, <2>1, <2>2, SequencedFresh
<1>5. CASE SendLoopStep
  BY <1>2, <1>3, <1>5 DEF SendLoopStep
<1>6. CASE ShutdownLoopStep
  BY <1>2, <1>4, <1>6 DEF ShutdownLoopStep
<1> QED
  BY <1>5, <1>6

\* What a resuming harness is owed comes from the buffer.
LEMMA AuthAcceptedFresh ==
  ASSUME TypeInv, FramesFresh, NEW t \in tasks, AuthAccepted(t)
  PROVE  FramesFresh'
<1> DEFINE r == replay[t.cred]
           lost == t.last # None /\ NeedsRecovery(r, t.last)
           owed == IF t.last = None \/ lost THEN <<>> ELSE ItemsSince(r, t.last)
<1>1. /\ t.cred \in Creds /\ t.last \in Nat \cup {None} /\ r \in Replay
      /\ UNCHANGED <<replay, wire>>
      /\ \E u : tasks' = (tasks \ {t}) \cup {u} /\ u.owed = owed
  BY AuthAcceptedFacts
<1>2. r.buf \in Seq(Frame) /\ AllFresh(r.buf) /\ DOMAIN r.buf = 1..Len(r.buf) /\ Len(r.buf) \in Nat
  BY <1>1 DEF FramesFresh, Replay
<1>3. ASSUME NEW last \in Nat PROVE AllFresh(ItemsSince(r, last))
  <2> DEFINE items == ItemsSince(r, last)
  <2>1. /\ items \in Seq(Frame)
        /\ items # <<>> =>
             \E m \in 1..Len(r.buf) :
               /\ Len(items) = Len(r.buf) - m + 1
               /\ \A i \in 1..(Len(r.buf) - m + 1) : items[i] = r.buf[m + i - 1]
    BY <1>1, ItemsSinceBuf
  <2> HIDE DEF items, r
  <2>2. CASE items = <<>>
    BY <2>2 DEF AllFresh, items
  <2>3. CASE items # <<>>
    <3>1. PICK m \in 1..Len(r.buf) :
            /\ Len(items) = Len(r.buf) - m + 1
            /\ \A i \in 1..(Len(r.buf) - m + 1) : items[i] = r.buf[m + i - 1]
      BY <2>1, <2>3
    <3>2. ASSUME NEW i \in DOMAIN items PROVE items[i].pver >= items[i].bver
      <4>1. i \in 1..(Len(r.buf) - m + 1)
        BY <2>1, <3>1
      <4>2. m + i - 1 \in DOMAIN r.buf
        BY <1>2, <4>1
      <4> QED
        BY <1>2, <3>1, <4>1, <4>2 DEF AllFresh
    <3> QED
      BY <3>2 DEF AllFresh, items
  <2> QED
    BY <2>2, <2>3
<1>4. AllFresh(<<>>)
  BY DEF AllFresh
<1>5. AllFresh(owed)
  BY <1>1, <1>3, <1>4
<1> HIDE DEF owed
<1>6. \A u \in tasks' : u.kind = "fingerprint" => AllFresh(u.owed)
  BY <1>1, <1>5 DEF FramesFresh
<1> QED
  BY <1>1, <1>6 DEF FramesFresh, AllFresh

LEMMA FingerprintedFresh ==
  ASSUME TypeInv, ReplayWindow, FramesFresh, NEW t \in tasks, Fingerprinted(t)
  PROVE  FramesFresh'
<1> DEFINE c == t.conn
           d == [sendJson(conn[c]) EXCEPT !.hb = TRUE, !.strayHb = @ \/ conn[c].hb]
           hello == <<Signal("authenticated")>>
<1>1. /\ c \in Conns /\ conn[c] \in Conn /\ conn[c].cred \in Creds
      /\ t.lost \in BOOLEAN /\ t.owed \in Seq(Frame) /\ AllFresh(t.owed)
  BY TaskOut, TaskFields, TypeParts DEF Fingerprinted, CarriedKinds, FramesFresh
<1>2. sendJson(conn[c]) \in Conn /\ sendJson(conn[c]).cred = conn[c].cred
  BY <1>1, SendJsonSame DEF Same, Alike
<1>3. d.cred \in Creds
  BY <1>1, <1>2 DEF Conn
<1>4. hello \in Seq(Frame) /\ AllFresh(hello)
  BY HelloType DEF AllFresh, Signal
<1>5. NoNewOwed
  BY DEF Fingerprinted, NoNewOwed
<1>6. CASE t.lost
  <2>1. SendSequenced(c, d, hello, "recovery", 0, 0) /\ "recovery" \in Events \cup Signals
    BY <1>6 DEF Fingerprinted, Signals
  <2> HIDE DEF c, d, hello
  <2> QED
    BY <1>1, <1>3, <1>4, <1>5, <2>1, SequencedFresh
<1>7. CASE ~t.lost
  <2>1. OnWire(c, hello \o t.owed) /\ UNCHANGED replay
    BY <1>7 DEF Fingerprinted
  <2> HIDE DEF c, d, hello
  <2>2. hello \o t.owed \in Seq(Frame) /\ AllFresh(hello \o t.owed)
    BY <1>1, <1>4, FreshConcat
  <2>3. \A b \in Conns : AllFresh(wire'[b])
    BY <1>1, <2>1, <2>2, FreshWire
  <2> QED
    BY <1>5, <2>1, <2>3 DEF FramesFresh, AllFresh, NoNewOwed
<1> QED
  BY <1>1, <1>6, <1>7

LEMMA FramesStep ==
  ASSUME ~MayFail, TypeInv, SnapInv, ResumeInv, UpToDate, QueuesInv, FramesFresh, Next
  PROVE  FramesFresh'
<1>0. Counted /\ ReplayWindow
  BY DEF SnapInv, ResumeInv
<1>1. ASSUME QuietStep PROVE FramesFresh'
  BY <1>1, FramesKept DEF QuietStep, NoNewAuth, AuthKinds, NoNewOwed
<1>2. ASSUME NEW c \in Conns, SocketStep(c) PROVE FramesFresh'
  <2>1. ASSUME NEW k, NEW last, AuthFrame(c, k, last) PROVE FramesFresh'
    BY <2>1, FramesKept DEF AuthFrame, NoNewOwed
  <2> QED
    BY <1>1, <1>2, <2>1, SocketQuiet DEF SocketStep
<1>3. ASSUME NEW k \in Creds, CredStep(k) PROVE FramesFresh'
  BY <1>1, <1>3, ServerQuiet DEF CredStep
<1>4. ASSUME NEW t \in tasks, FinishStop(t) PROVE FramesFresh'
  <2>1. /\ tasks' = tasks \ {t} /\ UNCHANGED wire
        /\ replay' = [k \in Creds |-> FreshReplay]
    BY <1>4, FinishStopFacts
  <2>2. \A k \in Creds : AllFresh(replay'[k].buf)
    BY <2>1 DEF FreshReplay, AllFresh
  <2> QED
    BY <2>1, <2>2 DEF FramesFresh, AllFresh
<1>5. ASSUME NEW t \in tasks, Resumes(t) \/ HandlerDone(t) PROVE FramesFresh'
  <2>1. CASE AuthAccepted(t) \/ Fingerprinted(t) \/ HeartbeatLookedUp(t)
    BY <1>0, <2>1, AuthAcceptedFresh, FingerprintedFresh, HeartbeatFresh
  <2>2. CASE Invalidated(t) \/ DrainDeadline(t) \/ DrainDone(t)
    BY <1>0, <1>1, <2>2, InvalidatedQuiet, DrainQuiet
  <2> QED
    BY <1>1, <1>4, <1>5, <2>1, <2>2, RequestQuiet DEF Resumes
<1>6. CASE SendLoopStep \/ ShutdownLoopStep
  BY <1>0, <1>6, LoopFresh
<1>7. CASE Start \/ Stop
  BY <1>1, <1>7, ServerQuiet
<1> QED
  BY <1>2, <1>3, <1>5, <1>6, <1>7 DEF Next

LEMMA CacheStays ==
  ~SlowLookups => (TypeInv /\ SnapInv /\ CacheInv /\ [Next]_vars => CacheInv')
<1> SUFFICES ASSUME ~SlowLookups, TypeInv, SnapInv, CacheInv, [Next]_vars
             PROVE  CacheInv'
  OBVIOUS
<1>1. FromMemory /\ UpToDate /\ QueuesInv
  BY DEF CacheInv
<1>2. CASE Next
  BY <1>1, <1>2, MemoryStep, UpToDateStep, QueuesStep DEF CacheInv
<1>3. CASE UNCHANGED vars
  <2>1. FromMemory'
    BY <1>1, <1>3 DEF vars, FromMemory, CredOf
  <2>2. UpToDate'
    BY <1>1, <1>3 DEF vars, UpToDate, Awaited, Lookups, Wins, Attached
  <2>3. QueuesInv'
    BY <1>1, <1>3 DEF vars, QueuesInv, QueuedBefore, Lookups
  <2> QED
    BY <2>1, <2>2, <2>3 DEF CacheInv
<1> QED
  BY <1>2, <1>3

LEMMA CacheInit == Init => CacheInv
<1> SUFFICES ASSUME Init PROVE CacheInv
  OBVIOUS
<1>1. FromMemory /\ UpToDate
  BY DEF Init, FromMemory, UpToDate
<1>2. QueuesInv
  BY DEF Init, QueuesInv, QueuedBefore, NoPending
<1> QED
  BY <1>1, <1>2 DEF CacheInv

\* The loop runs when no invalidation is out.
LEMMA CacheSends ==
  ASSUME TypeInv, CacheInv
  PROVE  FreshSends
<1> SUFFICES ASSUME loop # None, loop.kind = "events", NEW c \in loop.left, conn[c].sock = "open"
             PROVE  conn[c].rec.ver >= Head(loop.queue).bver
  BY DEF FreshSends
<1> DEFINE k == loop.cred
<1>1. /\ loop.queue \in Seq(Queued) /\ loop.queue # <<>> /\ loop.left \subseteq Conns /\ k \in Creds
  BY TypeParts DEF LoopOK, LoopLinked, EventLoop, ShutdownLoop
<1>2. Head(loop.queue) = loop.queue[1] /\ 1 \in DOMAIN loop.queue /\ Head(loop.queue) \in Queued
  BY <1>1
<1>3. /\ c \in registry /\ conn[c].phase = "active" /\ conn[c].cred = k
      /\ Lookups(k) = {} /\ Head(loop.queue).bver <= store[k].ver
  BY <1>2 DEF CacheInv, QueuesInv, QueuedBefore
<1>4. conn[c].rec.ver = store[k].ver
  BY <1>3 DEF CacheInv, UpToDate, Awaited, Attached
<1>5. Head(loop.queue).bver \in Nat /\ store[k].ver \in Nat
  BY <1>1, <1>2, LookupType, BoundAssumption DEF Queued, Snapshot, Vers
<1> QED
  BY <1>3, <1>4, <1>5

\* Whatever lookups fail, and however those of overlapping invalidations
\* resolve, no event is handed to an open socket with a projection older than
\* its broadcast (invalidateCredentialSnapshots and broadcastToCredential of
\* server.ts).  The hypothesis is how start.ts wires the server: lookups are
\* answered from the credential manager's memory.
THEOREM SendsAreFresh ==
  ASSUME ~SlowLookups
  PROVE  Spec => [](CacheInv /\ FreshSends)
<1>1. TypeInv /\ SnapInv /\ CacheInv /\ [Next]_vars => CacheInv'
  BY CacheStays
<1>2. TypeInv /\ CacheInv => FreshSends
  BY CacheSends
<1> QED
  BY <1>1, <1>2, CacheInit, TypesHold, PTL DEF Spec

LEMMA FramesFreshStep ==
  ~MayFail =>
    (TypeInv /\ SnapInv /\ ResumeInv /\ CacheInv /\ FramesFresh /\ [Next]_vars => FramesFresh')
<1>1. CASE Next
  BY <1>1, FramesStep DEF CacheInv
<1>2. CASE UNCHANGED vars
  BY <1>2 DEF vars, FramesFresh, AllFresh
<1> QED
  BY <1>1, <1>2

LEMMA FramesInit == Init => FramesFresh
BY DEF Init, FramesFresh, AllFresh, FreshReplay

\* However the lookups of overlapping invalidations resolve, the latest alone
\* writes the cache, the queue waits for all of them, and no event is sent or
\* replayed with a projection older than its broadcast
\* (invalidateCredentialSnapshots of server.ts).  The hypotheses are how
\* start.ts wires the server: lookups are answered from the credential
\* manager's memory, where a record that was issued is never deleted.
THEOREM SnapshotsAreConsistent ==
  ASSUME ~SlowLookups, ~MayFail
  PROVE  Spec => []SnapshotsConsistent
<1>1. FramesFresh => FreshProjection
  BY DEF FramesFresh, AllFresh, FreshProjection
<1>2. Spec => []ResumeInv
  BY ResumeInit, ResumeStep, TypesHold, PTL DEF Spec
<1>3. TypeInv /\ SnapInv /\ ResumeInv /\ CacheInv /\ FramesFresh /\ [Next]_vars => FramesFresh'
  BY FramesFreshStep
<1>4. Spec => []FramesFresh
  BY <1>2, <1>3, FramesInit, SendsAreFresh, TypesHold, PTL DEF Spec
<1>5. LatestInvalidationIsCurrent /\ RefsCountTasks /\ FreshSends /\ FreshProjection
      => SnapshotsConsistent
  BY DEF SnapshotsConsistent
<1> QED
  BY <1>1, <1>4, <1>5, LatestIsCurrent, ReferencesCounted, SendsAreFresh, PTL
=============================================================================
