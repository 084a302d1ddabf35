---------------------------- MODULE RuntimeProofs ----------------------------
(***************************************************************************)
(* Proofs about the daemon and the core it runs, for every number of       *)
(* identities, calls, processes and requests, with and without a network   *)
(* and an HTTP server.                                                     *)
(*                                                                         *)
(* CoreInv follows a call of the core from the row it read to the client   *)
(* and the streams it makes: it says what holds at the await a call is     *)
(* suspended on, for identities that no other call works on.  DaemonInv    *)
(* says, for the steps start() or shutdown() has still to take, what is up *)
(* and what is down.                                                       *)
(***************************************************************************)
EXTENDS Runtime, TLAPS, SequenceTheorems, WellFoundedInduction

-----------------------------------------------------------------------------
(* The core. *)

Alive == core \in {"local", "starting", "running"}

Starts(t) == tasks[t].op = "start"

\* A call that hydrates id, which stop() has not run into, and where it is.
Hydrates(t) == tasks[t].op \in {"register", "attach", "start"} /\ t \notin caught

\* A call of the core at each of its awaits; only start() has a list, and only
\* while the core is starting.
CallShape ==
    /\ \A t \in Slots :
         /\ tasks[t].op = "start" =>
               /\ core = "starting" /\ tasks[t].back = "local"
               /\ tasks[t].at \in {"client"} \union Kinds
               /\ tasks[t].id \notin tasks[t].todo
         /\ tasks[t].op # "start" => tasks[t].todo = {}
         /\ tasks[t].op = "register" => tasks[t].at \in {"client", "key"} \union Kinds
         /\ tasks[t].op = "attach" => tasks[t].at \in {"client"} \union Kinds
         /\ tasks[t].op = "rm" => tasks[t].at = "files"
    /\ \A t, u \in Slots : Starts(t) /\ Starts(u) => t = u

\* The store is open until stop(), which every call under way then has seen.
StopSeen ==
    /\ open <=> core # "stopped"
    /\ core # "stopped" => caught = {}
    /\ core = "stopped" => \A t \in Slots : tasks[t].op # "none" => t \in caught
    /\ core # "error"
    /\ core = "idle" => /\ streams = {} /\ \A i \in Ids : registry[i] = 0
                        /\ \A t \in Slots : tasks[t].op = "none"

\* Two calls that work on one identity race; start() races with all others.
Sole ==
    /\ \A i \in Ids \ raced : \A t, u \in Slots : Works(t, i) /\ Works(u, i) => t = u
    /\ \A t, u \in Slots : \A i \in Ids \ raced : Starts(t) /\ Works(u, i) => u = t

\* The row a call works on is there, and nothing exists before the row.
RowsKept ==
    /\ \A i \in Ids \ raced : \A t \in Slots : Works(t, i) => rows[i] \in Present
    /\ \A i \in Ids : rows[i] = "unused" =>
          registry[i] = 0 /\ StreamsOf(i) = {} /\ \A t \in Slots : ~Works(t, i)

\* Until a call has its client nothing streams for the identity, afterwards it
\* is the one registered; a core without a network streams nothing.
Hydrating ==
    /\ \A t \in Slots : \A i \in Ids \ raced :
          Hydrates(t) /\ (i \in tasks[t].todo \/ (tasks[t].id = i /\ tasks[t].at = "client"))
             => StreamsOf(i) = {}
    /\ \A t \in Slots : \A i \in Ids \ raced :
          Hydrates(t) /\ tasks[t].id = i /\ tasks[t].at \in Kinds
             => registry[i] = t /\ core # "local"
    /\ core = "local" => \A i \in Ids \ raced : StreamsOf(i) = {}

\* inbox.rm has taken the identity down before it removes the files.
RemovalDown ==
    \A t \in Slots : \A i \in Ids \ raced :
       tasks[t].op = "rm" /\ tasks[t].id = i => registry[i] = 0 /\ StreamsOf(i) = {}

\* What start() has done of its list.
StartDid ==
    \A t \in Slots : \A i \in Ids \ raced : Starts(t) =>
       /\ Works(t, i) /\ i \notin tasks[t].news => rows[i] = "ready"
       /\ (rows[i] \in Present /\ i \notin tasks[t].todo
             /\ ~(tasks[t].id = i /\ tasks[t].at = "client"))
             => rows[i] = "ready" /\ registry[i] # 0

CoreInv ==
    /\ CoreTypeOK /\ CallShape /\ StopSeen /\ Sole /\ RowsKept /\ Hydrating /\ RemovalDown
    /\ StartDid /\ BeatsWhileRunning
    /\ StreamsMatchRegistry /\ RemovedIsDown /\ StopLeavesOnlyCaught

-----------------------------------------------------------------------------
(* The daemon: what start() and shutdown() have still to do. *)

LogOn     == <<Up("log")>>
PidOn     == <<Up("pid")>> \o LogOn
HttpOn    == IfHttp(Up("http")) \o PidOn
AdminOn   == <<Up("admin")>> \o HttpOn
WsOn      == <<Up("ws")>> \o AdminOn
UpgradeOn == <<Up("upgrade")>> \o WsOn
NetworkOn == <<Up("network")>> \o WsOn
LocalOn   == <<Up("local")>> \o NetworkOn
KeysOn    == <<Up("keys")>> \o LocalOn

\* The rollback.
CoreOff  == <<Down("core")>>
WsOff    == <<Down("ws")>> \o CoreOff
AdminOff == <<Down("admin")>> \o WsOff
HttpOff  == IfHttp(Down("http")) \o AdminOff
PidOff   == <<Down("pid")>> \o HttpOff

\* The shutdown.
LogEnd   == <<Down("log")>>
PidEnd   == <<Down("pid")>> \o LogEnd
CoreEnd  == <<Down("core")>> \o PidEnd
WsEnd    == <<Down("ws")>> \o CoreEnd
AdminEnd == <<Down("admin")>> \o WsEnd
HttpEnd  == IfHttp(Down("http")) \o AdminEnd

Only(up)     == \A s \in Servers : servers[s] = IF s \in up THEN "listening" ELSE "idle"
Closed(down) == \A s \in Servers \intersect down : servers[s] # "listening"
Clean(down)  == ~errors => \A s \in Servers \intersect down : servers[s] = "stopped"

Starting ==
    \/ work \in {KeysOn, LocalOn} /\ core = "idle" /\ Only({})
    \/ work \in {NetworkOn, UpgradeOn, WsOn} /\ Alive /\ Only({})
    \/ work = AdminOn /\ Alive /\ Only({"ws"})
    \/ work = HttpOn /\ Alive /\ Only({"ws", "admin"})
    \/ work = PidOn /\ Alive /\ Only(Servers)
    \/ work = LogOn /\ Alive /\ Only(Servers) /\ pid

RollingBack ==
    \/ work \in {PidOff, HttpOff} /\ Alive
    \/ work = AdminOff /\ Alive /\ Closed({"http"})
    \/ work = WsOff /\ Alive /\ Closed({"http", "admin"})
    \/ work = CoreOff /\ Alive /\ Closed(Servers)
    \/ work = <<>> /\ Closed(Servers)

Draining ==
    \/ work = HttpEnd /\ Alive
    \/ work = AdminEnd /\ Alive /\ Closed({"http"}) /\ Clean({"http"})
    \/ work = WsEnd /\ Alive /\ Closed({"http", "admin"}) /\ Clean({"http", "admin"})
    \/ work = CoreEnd /\ Alive /\ Closed(Servers) /\ Clean(Servers)
    \/ /\ work \in {PidEnd, LogEnd} /\ Closed(Servers) /\ Clean(Servers)
       /\ ~errors => core = "stopped"

DaemonTypes ==
    /\ daemon \in {"created", "starting", "running", "draining", "stopped", "error"}
    /\ servers \in [Servers -> {"idle", "listening", "stopped", "stuck"}]
    /\ pid \in BOOLEAN /\ errors \in BOOLEAN /\ run \in 0 .. MaxRuns
    /\ requests \in 0 .. MaxRequests

DaemonInv ==
    /\ DaemonTypes
    /\ daemon = "created" => work = <<>> /\ core = "idle" /\ Only({})
    /\ daemon = "starting" => Starting
    /\ daemon = "running" => work = <<>> /\ Alive /\ Only(Servers) /\ pid
    /\ daemon = "draining" => Draining
    /\ daemon = "error" => RollingBack
    /\ daemon = "stopped" =>
          work = <<>> /\ core = "stopped" /\ \A s \in Servers : servers[s] = "stopped"

-----------------------------------------------------------------------------
(* Slots, calls and the least identity. *)

LEMMA Least ==
  ASSUME NEW S, S \subseteq Nat, S # {}
  PROVE  \E x \in S : \A y \in S : x <= y
<1>1. PICK x \in S : \A y \in S : ~(<<y, x>> \in OpToRel(<, Nat))
  BY NatLessThanWellFounded, WFMin
<1>2. \A y \in S : ~(y < x)
  BY <1>1 DEF OpToRel
<1> QED
  BY <1>2

LEMMA MinMember ==
  ASSUME NEW S, S \subseteq Ids, S # {}
  PROVE  Min(S) \in S
<1>1. S \subseteq Nat
  BY CoreBounds DEF Ids
<1>2. \E x \in S : \A y \in S : x <= y
  BY <1>1, Least
<1> QED
  BY <1>2 DEF Min

LEMMA FreeSlotIsFree ==
  ASSUME HasSlot
  PROVE  FreeSlot \in Slots /\ Free(FreeSlot)
<1> DEFINE S == {t \in Slots : Free(t)}
<1>1. S \subseteq Nat /\ S # {}
  BY CoreBounds DEF Slots, HasSlot
<1>2. PICK x \in S : \A y \in S : x <= y
  BY <1>1, Least
<1>3. x \in Slots /\ Free(x) /\ \A u \in Slots : Free(u) => x <= u
  BY <1>2
<1> QED
  BY <1>3 DEF FreeSlot

LEMMA SlotFacts == Slots \subseteq Nat \ {0} /\ Ids \subseteq Nat \ {0}
BY CoreBounds DEF Slots, Ids

LEMMA NoTaskType == NoTask \in Tasks /\ NoTask.op = "none" /\ NoTask.todo = {}
BY DEF NoTask, Tasks, Stages, Kinds

\* A call that ends, and what it takes with it: nothing, its row, or its
\* client and streams as well.
LEMMA Ended ==
  ASSUME CoreInv, NEW t \in Slots, tasks[t].op # "none", ~Starts(t), End(t),
         UNCHANGED <<core, open, beats, caught, raced>>,
         \/ registry' = registry /\ streams' = streams /\ rows' = rows
         \/ registry' = registry /\ streams' = streams /\ RemoveRow(tasks[t].id)
            /\ tasks[t].op = "rm"
         \/ Detach(tasks[t].id) /\ (rows' = rows \/ RemoveRow(tasks[t].id))
  PROVE  CoreInv'
<1> DEFINE d == tasks[t].id
<1>0. CoreTypeOK /\ d \in Ids
  BY DEF CoreInv, CoreTypeOK
<1>1. tasks' = [tasks EXCEPT ![t] = NoTask] /\ tasks' \in [Slots -> Tasks]
  BY <1>0, NoTaskType DEF End, CoreTypeOK
<1>2. /\ tasks'[t] = NoTask
      /\ \A u \in Slots : u # t => tasks'[u] = tasks[u]
  BY <1>0, <1>1 DEF CoreTypeOK
<1>3. /\ rows' \in [Ids -> RowStates]
      /\ \A i \in Ids : i # d => rows'[i] = rows[i]
      /\ rows'[d] = rows[d] \/ rows'[d] = "removed"
  BY <1>0 DEF CoreTypeOK, RemoveRow, RowStates
<1>4. /\ registry' \in [Ids -> Slots \union {0}]
      /\ \A i \in Ids : i # d => registry'[i] = registry[i]
      /\ registry'[d] \in {registry[d], 0}
      /\ streams' \subseteq streams
      /\ \A s \in streams' : s.id = d => registry' = registry
      /\ registry' = registry => streams' = streams \/ registry[d] = 0
      /\ rows' # rows => registry'[d] = 0 \/ tasks[t].op = "rm"
  BY <1>0 DEF CoreTypeOK, Detach, StreamsOf
<1>5. CoreTypeOK'
  BY <1>0, <1>1, <1>2, <1>3, <1>4, NoTaskType DEF CoreTypeOK
<1>6. \A u \in Slots : \A i \in Ids : Works(u, i)' => u # t /\ Works(u, i)
  BY <1>2, NoTaskType DEF Works
<1>7. CallShape'
  BY <1>2, NoTaskType DEF CallShape, CoreInv, Starts
<1>8. StopSeen'
  BY <1>0, <1>2, <1>4, NoTaskType, SlotFacts DEF StopSeen, CoreInv, CoreTypeOK
<1>9. Sole'
  <2>1. \A i \in Ids \ raced : \A u, v \in Slots : Works(u, i)' /\ Works(v, i)' => u = v
    BY <1>6 DEF Sole, CoreInv
  <2>2. \A u, v \in Slots : \A i \in Ids \ raced : Starts(u)' /\ Works(v, i)' => v = u
    BY <1>2, <1>6, NoTaskType DEF Sole, CoreInv, Starts
  <2> QED
    BY <2>1, <2>2 DEF Sole
<1>10. \A i \in Ids \ raced : \A u \in Slots : Works(u, i)' => i # d
  BY <1>6 DEF Sole, CoreInv, Works
<1>11. \A i \in Ids : StreamsOf(i)' \subseteq StreamsOf(i)
  BY <1>4 DEF StreamsOf
<1>12. RowsKept'
  <2>1. \A i \in Ids \ raced : \A u \in Slots : Works(u, i)' => rows'[i] \in Present
    BY <1>3, <1>6, <1>10 DEF RowsKept, CoreInv
  <2>2. ASSUME NEW i \in Ids, rows'[i] = "unused"
        PROVE  registry'[i] = 0 /\ StreamsOf(i)' = {} /\ \A u \in Slots : ~Works(u, i)'
    <3>1. rows[i] = "unused"
      BY <1>3, <2>2
    <3> QED
      BY <1>4, <1>6, <1>11, <3>1 DEF RowsKept, CoreInv
  <2> QED
    BY <2>1, <2>2 DEF RowsKept
<1>13. Hydrating'
  <2>1. ASSUME NEW u \in Slots, NEW i \in Ids \ raced, Hydrates(u)',
               i \in tasks'[u].todo \/ (tasks'[u].id = i /\ tasks'[u].at = "client")
        PROVE  StreamsOf(i)' = {}
    <3>1. u # t /\ tasks'[u] = tasks[u] /\ Hydrates(u)
      BY <1>2, <2>1, NoTaskType DEF Hydrates
    <3> QED
      BY <1>11, <2>1, <3>1 DEF Hydrating, CoreInv
  <2>2. ASSUME NEW u \in Slots, NEW i \in Ids \ raced, Hydrates(u)',
               tasks'[u].id = i, tasks'[u].at \in Kinds
        PROVE  registry'[i] = u /\ core # "local"
    <3>1. u # t /\ tasks'[u] = tasks[u] /\ Hydrates(u)
      BY <1>2, <2>2, NoTaskType DEF Hydrates
    <3>2. i # d
      BY <1>10, <2>2, <3>1 DEF Works, Hydrates
    <3> QED
      BY <1>4, <2>2, <3>1, <3>2 DEF Hydrating, CoreInv
  <2>3. core = "local" => \A i \in Ids \ raced : StreamsOf(i)' = {}
    BY <1>11 DEF Hydrating, CoreInv
  <2> QED
    BY <2>1, <2>2, <2>3 DEF Hydrating
<1>14. RemovalDown'
  <2> SUFFICES ASSUME NEW u \in Slots, NEW i \in Ids \ raced, tasks'[u].op = "rm", tasks'[u].id = i
               PROVE  registry'[i] = 0 /\ StreamsOf(i)' = {}
    BY DEF RemovalDown
  <2>1. u # t /\ tasks'[u] = tasks[u]
    BY <1>2, NoTaskType
  <2>2. registry[i] = 0 /\ StreamsOf(i) = {}
    BY <2>1 DEF RemovalDown, CoreInv
  <2> QED
    BY <1>4, <1>11, <2>2
<1>15. StartDid'
  <2> SUFFICES ASSUME NEW u \in Slots, NEW i \in Ids \ raced, Starts(u)'
               PROVE  /\ Works(u, i)' /\ i \notin tasks'[u].news => rows'[i] = "ready"
                      /\ (rows'[i] \in Present /\ i \notin tasks'[u].todo
                            /\ ~(tasks'[u].id = i /\ tasks'[u].at = "client"))
                            => rows'[i] = "ready" /\ registry'[i] # 0
    BY DEF StartDid
  <2>1. u # t /\ tasks'[u] = tasks[u] /\ Starts(u)
    BY <1>2, NoTaskType DEF Starts
  <2>2. i # d
    BY <2>1 DEF Sole, CoreInv, Works
  <2> QED
    BY <1>3, <1>4, <1>6, <2>1, <2>2 DEF StartDid, CoreInv
<1>16. BeatsWhileRunning'
  BY DEF BeatsWhileRunning, CoreInv
<1>17. StreamsMatchRegistry'
  <2> SUFFICES ASSUME NEW s \in streams' 
               PROVE  s.id \in raced \/ s.by \in caught \/ registry'[s.id] = s.by
    BY DEF StreamsMatchRegistry
  <2>1. s \in streams /\ s.id \in Ids
    BY <1>0, <1>4 DEF CoreTypeOK
  <2> QED
    BY <1>4, <2>1 DEF StreamsMatchRegistry, CoreInv
<1>18. RemovedIsDown'
  <2> SUFFICES ASSUME NEW i \in Ids \ raced, rows'[i] = "removed"
               PROVE  registry'[i] = 0 /\ StreamsOf(i)' = {}
    BY DEF RemovedIsDown
  <2>1. CASE rows[i] = "removed"
    BY <1>4, <1>11, <2>1 DEF RemovedIsDown, CoreInv
  <2>2. CASE rows[i] # "removed"
    <3>1. i = d /\ rows' # rows
      BY <1>3, <2>2
    <3>2. CASE tasks[t].op = "rm"
      BY <1>4, <1>11, <3>1, <3>2 DEF RemovalDown, CoreInv
    <3>3. CASE Detach(d)
      BY <1>0, <3>1, <3>3 DEF Detach, StreamsOf, CoreTypeOK
    <3> QED
      BY <3>1, <3>2, <3>3
  <2> QED
    BY <2>1, <2>2
<1>19. StopLeavesOnlyCaught'
  BY <1>4 DEF StopLeavesOnlyCaught, CoreInv
<1> QED
  BY <1>5, <1>7, <1>8, <1>9, <1>12, <1>13, <1>14, <1>15, <1>16, <1>17, <1>18, <1>19 DEF CoreInv

\* A start of the core that fails takes everything down.
LEMMA Failing ==
  ASSUME CoreInv, NEW t \in Slots, Starts(t), FailStart(t)
  PROVE  CoreInv'
<1>0. /\ CoreTypeOK /\ core = "starting" /\ caught = {} /\ open
      /\ tasks[t].op = "start" /\ tasks[t].back = "local"
  BY DEF CoreInv, CallShape, StopSeen, Starts
<1>1. /\ core' = "local" /\ beats' = FALSE /\ streams' = {}
      /\ registry' = [i \in Ids |-> 0]
      /\ open' = open /\ rows' = rows /\ caught' = caught /\ raced' = raced
  BY <1>0 DEF FailStart, ResetStartupArtifacts, StopHeartbeat
<1>2. tasks' = [tasks EXCEPT ![t] = NoTask] /\ tasks' \in [Slots -> Tasks]
  BY <1>0, NoTaskType DEF FailStart, End, CoreTypeOK
<1>3. /\ tasks'[t] = NoTask
      /\ \A u \in Slots : u # t => tasks'[u] = tasks[u]
  BY <1>0, <1>2 DEF CoreTypeOK
<1>4. CoreTypeOK'
  BY <1>0, <1>1, <1>2, <1>3, NoTaskType DEF CoreTypeOK, CoreStates
<1>5. \A u \in Slots : \A i \in Ids : Works(u, i)' => u # t /\ Works(u, i)
  BY <1>3, NoTaskType DEF Works
<1>6. \A u \in Slots : ~Starts(u)'
  BY <1>0, <1>3, NoTaskType DEF CallShape, CoreInv, Starts
<1>7. CallShape'
  BY <1>3, <1>6, NoTaskType DEF CallShape, CoreInv, Starts
<1>8. StopSeen'
  BY <1>0, <1>1 DEF StopSeen
<1>9. \A i \in Ids \ raced : \A u \in Slots : ~Works(u, i)'
  BY <1>5 DEF Sole, CoreInv
<1>10. Sole'
  BY <1>1, <1>6, <1>9 DEF Sole
<1>11. RowsKept'
  BY <1>1, <1>5, <1>9 DEF RowsKept, CoreInv, StreamsOf
<1>12. Hydrating' /\ RemovalDown'
  BY <1>1, <1>9 DEF Hydrating, RemovalDown, StreamsOf, Hydrates, Works
<1>13. StartDid' /\ BeatsWhileRunning'
  BY <1>1, <1>6 DEF StartDid, BeatsWhileRunning
<1>14. StreamsMatchRegistry' /\ RemovedIsDown' /\ StopLeavesOnlyCaught'
  BY <1>1 DEF StreamsMatchRegistry, RemovedIsDown, StopLeavesOnlyCaught, StreamsOf
<1> QED
  BY <1>4, <1>7, <1>8, <1>10, <1>11, <1>12, <1>13, <1>14 DEF CoreInv

\* The client of a call is registered: the call goes on to the streams, or is
\* done with the network.
LEMMA ClientReadyKeeps ==
  ASSUME CoreInv, NEW t \in Slots, ClientReady(t)
  PROVE  CoreInv'
<1> DEFINE d == tasks[t].id
           store == tasks[t].op = "register" \/ d \in tasks[t].news
<1>0. /\ CoreTypeOK /\ d \in Ids /\ tasks[t] \in Tasks
      /\ tasks[t].op \in {"register", "attach", "start"} /\ tasks[t].at = "client"
      /\ core \in {"local", "starting", "running", "stopped"}
      /\ core = "stopped" => ~open
      /\ core # "stopped" => caught = {}
      /\ tasks[t].op = "start" => core = "starting"
  BY DEF CoreInv, CoreTypeOK, CallShape, StopSeen, ClientReady, Tasks, CoreStates
<1>1. /\ UNCHANGED <<open, streams, caught, raced, core, beats>>
      /\ store => open /\ rows[d] \in Present
      /\ rows' = IF store THEN [rows EXCEPT ![d] = "ready"] ELSE rows
      /\ registry' = IF core # "stopped" THEN [registry EXCEPT ![d] = t] ELSE registry
      /\ \/ core \in {"running", "starting"} /\ tasks' = [tasks EXCEPT ![t].at = "message"]
         \/ /\ core \in {"local", "stopped"} /\ tasks[t].op = "register"
            /\ tasks' = [tasks EXCEPT ![t].at = "key"]
         \/ core \in {"local", "stopped"} /\ tasks[t].op = "attach" /\ End(t)
  BY <1>0 DEF ClientReady, Succeeded
<1>2. /\ \A u \in Slots : u # t => tasks'[u] = tasks[u]
      /\ \/ tasks'[t] = NoTask
         \/ tasks'[t] = [tasks[t] EXCEPT !.at = "message"] /\ core \in {"running", "starting"}
         \/ tasks'[t] = [tasks[t] EXCEPT !.at = "key"] /\ tasks[t].op = "register"
  BY <1>0, <1>1 DEF CoreTypeOK, End
<1>3. /\ tasks'[t] \in Tasks
      /\ \/ tasks'[t] = NoTask
         \/ /\ tasks'[t].op = tasks[t].op /\ tasks'[t].id = d
            /\ tasks'[t].todo = tasks[t].todo /\ tasks'[t].news = tasks[t].news
            /\ tasks'[t].back = tasks[t].back
            /\ \/ tasks'[t].at = "message" /\ core \in {"running", "starting"}
               \/ tasks'[t].at = "key" /\ tasks[t].op = "register"
  <2>1. CASE tasks'[t] = NoTask
    BY <2>1, NoTaskType
  <2>2. CASE tasks'[t] = [tasks[t] EXCEPT !.at = "message"] /\ core \in {"running", "starting"}
    BY <1>0, <2>2 DEF Tasks, Stages, Kinds
  <2>3. CASE tasks'[t] = [tasks[t] EXCEPT !.at = "key"] /\ tasks[t].op = "register"
    BY <1>0, <2>3 DEF Tasks, Stages, Kinds
  <2> QED
    BY <1>2, <2>1, <2>2, <2>3
<1> HIDE DEF d, store
<1>4. tasks' \in [Slots -> Tasks]
  <2>1. DOMAIN tasks' = Slots /\ tasks' = [u \in Slots |-> tasks'[u]]
    BY <1>0, <1>1 DEF CoreTypeOK, End
  <2> QED
    BY <1>0, <1>2, <1>3, <2>1 DEF CoreTypeOK
<1>5. /\ rows' \in [Ids -> RowStates]
      /\ \A i \in Ids : i # d => rows'[i] = rows[i]
      /\ rows'[d] = IF store THEN "ready" ELSE rows[d]
  BY <1>0, <1>1 DEF CoreTypeOK, RowStates, Present
<1>6. /\ registry' \in [Ids -> Slots \union {0}]
      /\ \A i \in Ids : i # d => registry'[i] = registry[i]
      /\ registry'[d] = IF core # "stopped" THEN t ELSE registry[d]
  BY <1>0, <1>1 DEF CoreTypeOK
<1>7. CoreTypeOK'
  BY <1>0, <1>1, <1>2, <1>3, <1>4, <1>5, <1>6, NoTaskType DEF CoreTypeOK, d
<1>8. Works(t, d) /\ \A u \in Slots : \A i \in Ids : Works(u, i)' => Works(u, i)
  BY <1>0, <1>2, <1>3, NoTaskType DEF Works, d
<1>9. CallShape'
  BY <1>0, <1>1, <1>2, <1>3, NoTaskType DEF CallShape, CoreInv, Starts, Kinds, d
<1>10. StopSeen'
  BY <1>0, <1>1, <1>2, <1>3, <1>6, NoTaskType DEF StopSeen, CoreInv
<1>11. Sole'
  <2>1. \A u \in Slots : Starts(u)' => Starts(u)
    BY <1>2, <1>3, NoTaskType DEF Starts
  <2> QED
    BY <1>1, <1>8, <2>1 DEF Sole, CoreInv
<1>12. \A i \in Ids : StreamsOf(i)' = StreamsOf(i)
  BY <1>1 DEF StreamsOf
<1>13. RowsKept'
  <2>1. \A i \in Ids \ raced : \A u \in Slots : Works(u, i)' => rows'[i] \in Present
    BY <1>5, <1>8 DEF RowsKept, CoreInv, Present
  <2>2. ASSUME NEW i \in Ids, rows'[i] = "unused"
        PROVE  registry'[i] = 0 /\ StreamsOf(i)' = {} /\ \A u \in Slots : ~Works(u, i)'
    <3>1. rows[i] = "unused"
      BY <1>5, <2>2
    <3>2. i # d
      BY <1>8, <3>1 DEF RowsKept, CoreInv
    <3> QED
      BY <1>6, <1>8, <1>12, <3>1, <3>2 DEF RowsKept, CoreInv
  <2> QED
    BY <1>1, <2>1, <2>2 DEF RowsKept
<1>14. \A i \in Ids \ raced : \A u \in Slots : u # t /\ Works(u, i) => i # d
  BY <1>8 DEF Sole, CoreInv
<1>15. Hydrating'
  <2>1. ASSUME NEW u \in Slots, NEW i \in Ids \ raced, Hydrates(u)',
               i \in tasks'[u].todo \/ (tasks'[u].id = i /\ tasks'[u].at = "client")
        PROVE  StreamsOf(i)' = {}
    <3>1. Hydrates(u) /\ (i \in tasks[u].todo \/ (tasks[u].id = i /\ tasks[u].at = "client"))
      BY <1>0, <1>1, <1>2, <1>3, <2>1, NoTaskType DEF Hydrates, d
    <3> QED
      BY <1>12, <3>1 DEF Hydrating, CoreInv
  <2>2. ASSUME NEW u \in Slots, NEW i \in Ids \ raced, Hydrates(u)',
               tasks'[u].id = i, tasks'[u].at \in Kinds
        PROVE  registry'[i] = u /\ core # "local"
    <3>1. CASE u = t
      <4>1. tasks'[t].id = d /\ core \in {"running", "starting"}
        BY <1>3, <2>2, <3>1, NoTaskType DEF Hydrates, Kinds
      <4> QED
        BY <1>6, <2>2, <3>1, <4>1
    <3>2. CASE u # t
      <4>1. tasks'[u] = tasks[u] /\ Hydrates(u) /\ Works(u, i)
        BY <1>1, <1>2, <2>2, <3>2 DEF Hydrates, Works
      <4>2. i # d
        BY <1>14, <3>2, <4>1
      <4> QED
        BY <1>6, <2>2, <4>1, <4>2 DEF Hydrating, CoreInv
    <3> QED
      BY <3>1, <3>2
  <2> QED
    BY <1>1, <1>12, <2>1, <2>2 DEF Hydrating, CoreInv
<1>16. RemovalDown'
  <2> SUFFICES ASSUME NEW u \in Slots, NEW i \in Ids \ raced, tasks'[u].op = "rm", tasks'[u].id = i
               PROVE  registry'[i] = 0 /\ StreamsOf(i)' = {}
    BY <1>1 DEF RemovalDown
  <2>1. u # t /\ tasks'[u] = tasks[u] /\ Works(u, i)
    BY <1>0, <1>2, <1>3, NoTaskType DEF Works
  <2>2. i # d /\ registry[i] = 0 /\ StreamsOf(i) = {}
    BY <1>14, <2>1 DEF RemovalDown, CoreInv
  <2> QED
    BY <1>6, <1>12, <2>2
<1>17. StartDid'
  <2> SUFFICES ASSUME NEW u \in Slots, NEW i \in Ids \ raced, Starts(u)'
               PROVE  /\ Works(u, i)' /\ i \notin tasks'[u].news => rows'[i] = "ready"
                      /\ (rows'[i] \in Present /\ i \notin tasks'[u].todo
                            /\ ~(tasks'[u].id = i /\ tasks'[u].at = "client"))
                            => rows'[i] = "ready" /\ registry'[i] # 0
    BY <1>1 DEF StartDid
  <2>1. /\ Starts(u) /\ tasks'[u].id = tasks[u].id /\ tasks'[u].todo = tasks[u].todo
        /\ tasks'[u].news = tasks[u].news
        /\ u # t => tasks'[u].at = tasks[u].at
    BY <1>2, <1>3, NoTaskType DEF Starts, d
  <2>2. Works(u, i)' /\ i \notin tasks'[u].news => rows'[i] = "ready"
    BY <1>5, <1>8, <2>1 DEF StartDid, CoreInv
  <2>3. CASE i = d
    <3>1. u = t
      BY <1>8, <2>1, <2>3 DEF Sole, CoreInv
    <3>2. store \/ rows[d] = "ready"
      BY <1>8, <2>1, <2>3, <3>1 DEF StartDid, CoreInv, store
    <3>3. core = "starting"
      BY <1>0, <2>1, <3>1 DEF Starts
    <3> QED
      BY <1>5, <1>6, <2>2, <2>3, <3>2, <3>3, SlotFacts
  <2>4. CASE i # d
    <3>1. ~(tasks'[u].id = i /\ tasks'[u].at = "client")
            => ~(tasks[u].id = i /\ tasks[u].at = "client")
      BY <2>1, <2>4 DEF d
    <3> QED
      BY <1>5, <1>6, <2>1, <2>2, <2>4, <3>1 DEF StartDid, CoreInv
  <2> QED
    BY <2>3, <2>4
<1>18. BeatsWhileRunning'
  BY <1>1 DEF BeatsWhileRunning, CoreInv
<1>19. StreamsMatchRegistry'
  <2> SUFFICES ASSUME NEW s \in streams, s.id \notin raced, s.by \notin caught
               PROVE  registry'[s.id] = s.by
    BY <1>1 DEF StreamsMatchRegistry
  <2>1. s.id \in Ids /\ registry[s.id] = s.by /\ s \in StreamsOf(s.id)
    BY <1>0 DEF CoreTypeOK, CoreInv, StreamsMatchRegistry, StreamsOf
  <2>2. CASE core = "stopped"
    BY <1>1, <2>1, <2>2
  <2>3. CASE core # "stopped"
    <3>1. Hydrates(t)
      BY <1>0, <2>3 DEF Hydrates
    <3>2. s.id # d
      BY <1>0, <2>1, <3>1 DEF Hydrating, CoreInv, d
    <3> QED
      BY <1>6, <2>1, <3>2
  <2> QED
    BY <2>2, <2>3
<1>20. RemovedIsDown'
  <2> SUFFICES ASSUME NEW i \in Ids \ raced, rows'[i] = "removed"
               PROVE  registry'[i] = 0 /\ StreamsOf(i)' = {}
    BY <1>1 DEF RemovedIsDown
  <2>1. rows[i] = "removed"
    BY <1>5
  <2>2. i # d
    BY <1>8, <2>1 DEF RowsKept, CoreInv, Present
  <2> QED
    BY <1>6, <1>12, <2>1, <2>2 DEF RemovedIsDown, CoreInv
<1>21. StopLeavesOnlyCaught'
  BY <1>1, <1>6 DEF StopLeavesOnlyCaught, CoreInv
<1> QED
  BY <1>7, <1>9, <1>10, <1>11, <1>13, <1>15, <1>16, <1>17, <1>18, <1>19, <1>20, <1>21 DEF CoreInv

\* A stream is opened, and the call goes on to the next one, to the next
\* identity, or ends.
LEMMA OpenStreamKeeps ==
  ASSUME CoreInv, NEW t \in Slots, OpenStream(t)
  PROVE  CoreInv'
<1> DEFINE d == tasks[t].id
           new == Stream(t, tasks[t].at)
<1>0. /\ CoreTypeOK /\ d \in Ids /\ tasks[t] \in Tasks
      /\ tasks[t].op \in {"register", "attach", "start"} /\ tasks[t].at \in Kinds
      /\ core \in {"local", "starting", "running", "stopped"}
      /\ core # "stopped" => caught = {}
      /\ core = "stopped" => t \in caught
      /\ tasks[t].op = "start" => core = "starting" /\ d \notin tasks[t].todo
  BY DEF CoreInv, CoreTypeOK, CallShape, StopSeen, OpenStream, Tasks, Kinds, CoreStates
<1>1. /\ UNCHANGED <<open, rows, registry, caught, raced>>
      /\ streams' = streams \union {new}
      /\ new \in [id : Ids, kind : Kinds, by : Slots] /\ new.id = d /\ new.by = t
  BY <1>0 DEF OpenStream, Stream
<1> HIDE DEF new
<1>2. \/ /\ tasks' = [tasks EXCEPT ![t].at = AfterKind(tasks[t].at)]
         /\ AfterKind(tasks[t].at) \in Kinds /\ UNCHANGED <<core, beats>>
      \/ /\ tasks[t].op = "register" /\ tasks' = [tasks EXCEPT ![t].at = "key"]
         /\ UNCHANGED <<core, beats>>
      \/ tasks[t].op = "attach" /\ End(t) /\ UNCHANGED <<core, beats>>
      \/ tasks[t].op = "start" /\ tasks[t].todo = {} /\ core' = "running" /\ beats' /\ End(t)
      \/ /\ tasks[t].op = "start" /\ tasks[t].todo # {} /\ UNCHANGED <<core, beats>>
         /\ tasks' = [tasks EXCEPT ![t].id = Min(tasks[t].todo),
                                   ![t].todo = tasks[t].todo \ {Min(tasks[t].todo)},
                                   ![t].at = "client"]
  <2>1. CASE tasks[t].at # "dm"
    BY <1>0, <2>1 DEF OpenStream, AfterKind, Kinds, CoreTypeOK
  <2>2. CASE tasks[t].at = "dm"
    <3>1. Succeeded(t)
      BY <2>2 DEF OpenStream
    <3>2. CASE NextIdentity(t) /\ tasks[t].op = "start"
      <4>1. CASE tasks[t].todo = {}
        BY <3>2, <4>1 DEF NextIdentity, StartHeartbeat
      <4>2. CASE tasks[t].todo # {}
        BY <1>0, <3>2, <4>2 DEF NextIdentity, CoreTypeOK
      <4> QED
        BY <4>1, <4>2
    <3> QED
      BY <3>1, <3>2 DEF Succeeded
  <2> QED
    BY <2>1, <2>2
<1>3. PICK m : m = Min(tasks[t].todo)
  OBVIOUS
<1>4. tasks[t].op = "start" /\ tasks[t].todo # {} =>
        m \in tasks[t].todo /\ m \in Ids /\ m # d
  BY <1>0, <1>3, MinMember DEF Tasks
<1>5. /\ \A u \in Slots : u # t => tasks'[u] = tasks[u]
      /\ DOMAIN tasks' = Slots /\ tasks' = [u \in Slots |-> tasks'[u]]
      /\ \/ tasks'[t] = NoTask
         \/ tasks'[t] = [tasks[t] EXCEPT !.at = AfterKind(tasks[t].at)]
              /\ AfterKind(tasks[t].at) \in Kinds /\ UNCHANGED core
         \/ tasks'[t] = [tasks[t] EXCEPT !.at = "key"] /\ tasks[t].op = "register" /\ UNCHANGED core
         \/ /\ tasks'[t] = [tasks[t] EXCEPT !.id = m, !.todo = tasks[t].todo \ {m},
                                            !.at = "client"]
            /\ tasks[t].op = "start" /\ tasks[t].todo # {} /\ UNCHANGED core
  <2>1. tasks \in [Slots -> Tasks]
    BY <1>0 DEF CoreTypeOK
  <2> HIDE DEF d
  <2> QED
    BY <1>2, <1>3, <2>1 DEF End
<1>6. /\ tasks'[t] \in Tasks
      /\ \/ tasks'[t] = NoTask
         \/ /\ tasks'[t].op = tasks[t].op /\ tasks'[t].news = tasks[t].news
            /\ tasks'[t].back = tasks[t].back /\ UNCHANGED core
            /\ \/ /\ tasks'[t].id = d /\ tasks'[t].todo = tasks[t].todo
                  /\ tasks'[t].at \in Kinds \/ (tasks'[t].at = "key" /\ tasks[t].op = "register")
               \/ /\ tasks[t].op = "start" /\ tasks'[t].at = "client"
                  /\ m \in tasks[t].todo /\ m \in Ids /\ m # d
                  /\ tasks'[t].id = m /\ tasks'[t].todo = tasks[t].todo \ {m}
  <2>1. CASE tasks'[t] = NoTask
    BY <2>1, NoTaskType
  <2>2. CASE tasks'[t] = [tasks[t] EXCEPT !.at = AfterKind(tasks[t].at)]
              /\ AfterKind(tasks[t].at) \in Kinds /\ UNCHANGED core
    BY <1>0, <2>2 DEF Tasks, Stages
  <2>3. CASE tasks'[t] = [tasks[t] EXCEPT !.at = "key"] /\ tasks[t].op = "register"
              /\ UNCHANGED core
    BY <1>0, <2>3 DEF Tasks, Stages
  <2>4. CASE /\ tasks'[t] = [tasks[t] EXCEPT !.id = m, !.todo = tasks[t].todo \ {m},
                                             !.at = "client"]
             /\ tasks[t].op = "start" /\ tasks[t].todo # {} /\ UNCHANGED core
    <3>1. m \in tasks[t].todo /\ m \in Ids /\ m # d
      BY <1>4, <2>4
    <3>2. tasks'[t] \in Tasks
      BY <1>0, <2>4, <3>1 DEF Tasks, Stages
    <3> QED
      BY <1>0, <2>4, <3>1, <3>2 DEF Tasks
  <2> QED
    BY <1>5, <2>1, <2>2, <2>3, <2>4
<1>7. /\ core' = core \/ (core' = "running" /\ tasks[t].op = "start" /\ tasks'[t] = NoTask)
      /\ beats' \in BOOLEAN /\ BeatsWhileRunning'
  <2>1. beats = (core = "running") /\ beats \in BOOLEAN /\ tasks \in [Slots -> Tasks]
    BY <1>0 DEF CoreInv, BeatsWhileRunning, CoreTypeOK
  <2>2. CASE UNCHANGED <<core, beats>>
    BY <2>1, <2>2 DEF BeatsWhileRunning
  <2>3. CASE tasks[t].op = "start" /\ tasks[t].todo = {} /\ core' = "running" /\ beats' /\ End(t)
    <3>1. tasks'[t] = NoTask
      BY <2>1, <2>3 DEF End
    <3>2. beats' = TRUE
      BY <1>0, <2>3 DEF OpenStream, Succeeded, NextIdentity, StartHeartbeat, AfterKind
    <3> QED
      BY <2>3, <3>1, <3>2 DEF BeatsWhileRunning
  <2> QED
    BY <1>2, <2>2, <2>3
<1> HIDE DEF d
<1>8. tasks' \in [Slots -> Tasks]
  BY <1>0, <1>5, <1>6 DEF CoreTypeOK
<1>9. CoreTypeOK'
  <2>1. core' \in CoreStates
    BY <1>0, <1>7 DEF CoreTypeOK, CoreStates
  <2>2. \A u \in Slots : tasks'[u].op # "none" => tasks'[u].id \in Ids
    BY <1>0, <1>5, <1>6, NoTaskType DEF CoreTypeOK, d
  <2> QED
    BY <1>0, <1>1, <1>7, <1>8, <2>1, <2>2 DEF CoreTypeOK
<1>10. Works(t, d) /\ \A u \in Slots : \A i \in Ids : Works(u, i)' => Works(u, i)
  BY <1>0, <1>5, <1>6, NoTaskType DEF Works, d
<1>11. CallShape'
  <2>1. \A u \in Slots : Starts(u)' => Starts(u) /\ core' = core
    BY <1>0, <1>5, <1>6, <1>7, NoTaskType DEF Starts, CallShape, CoreInv
  <2>2. CallShape /\ \A u \in Slots : tasks[u] \in Tasks
    BY <1>0 DEF CoreInv, CoreTypeOK
  <2>3. ASSUME NEW u \in Slots
        PROVE  /\ tasks'[u].op = "start" =>
                     /\ core' = "starting" /\ tasks'[u].back = "local"
                     /\ tasks'[u].at \in {"client"} \union Kinds
                     /\ tasks'[u].id \notin tasks'[u].todo
               /\ tasks'[u].op # "start" => tasks'[u].todo = {}
               /\ tasks'[u].op = "register" => tasks'[u].at \in {"client", "key"} \union Kinds
               /\ tasks'[u].op = "attach" => tasks'[u].at \in {"client"} \union Kinds
               /\ tasks'[u].op = "rm" => tasks'[u].at = "files"
    <3>1. CASE u # t
      BY <1>5, <2>1, <2>2, <3>1 DEF CallShape, Starts
    <3>2. CASE u = t /\ tasks'[t] = NoTask
      BY <3>2, NoTaskType
    <3>3. CASE u = t /\ tasks'[t] # NoTask
      BY <1>0, <1>6, <2>2, <3>3 DEF CallShape, d
    <3> QED
      BY <3>1, <3>2, <3>3
  <2> QED
    BY <2>1, <2>2, <2>3 DEF CallShape
<1>12. StopSeen'
  <2>1. \A u \in Slots : tasks'[u].op # "none" => tasks[u].op # "none"
    BY <1>0, <1>5, NoTaskType
  <2> QED
    BY <1>0, <1>1, <1>7, <2>1 DEF StopSeen, CoreInv
<1>13. Sole'
  <2>1. \A u \in Slots : Starts(u)' => Starts(u)
    BY <1>5, <1>6, NoTaskType DEF Starts
  <2> QED
    BY <1>1, <1>10, <2>1 DEF Sole, CoreInv
<1>14. \A i \in Ids : i # d => StreamsOf(i)' = StreamsOf(i)
  BY <1>1 DEF StreamsOf
<1>15. RowsKept'
  <2>1. rows[d] # "unused"
    BY <1>0, <1>10 DEF RowsKept, CoreInv, d
  <2> QED
    BY <1>0, <1>1, <1>10, <1>14, <2>1 DEF RowsKept, CoreInv
<1>16. \A i \in Ids \ raced : \A u \in Slots : u # t /\ Works(u, i) => i # d
  BY <1>10 DEF Sole, CoreInv
<1>17. t \notin caught /\ d \notin raced => registry[d] = t /\ core # "local"
  BY <1>0 DEF Hydrating, Hydrates, CoreInv, d
<1>18. Hydrating'
  <2>1. ASSUME NEW u \in Slots, NEW i \in Ids \ raced, Hydrates(u)',
               i \in tasks'[u].todo \/ (tasks'[u].id = i /\ tasks'[u].at = "client")
        PROVE  StreamsOf(i)' = {}
    <3>1. CASE u # t
      <4>1. tasks'[u] = tasks[u] /\ Hydrates(u) /\ Works(u, i)
        BY <1>1, <1>5, <2>1, <3>1 DEF Hydrates, Works
      <4>2. i # d
        BY <1>16, <3>1, <4>1
      <4> QED
        BY <1>14, <2>1, <4>1, <4>2 DEF Hydrating, CoreInv
    <3>2. CASE u = t
      <4>1. Hydrates(t) /\ i \in tasks[t].todo /\ i # d
        BY <1>0, <1>1, <1>6, <2>1, <3>2, NoTaskType DEF Hydrates, Kinds, CallShape, CoreInv, d
      <4> QED
        BY <1>14, <4>1 DEF Hydrating, CoreInv
    <3> QED
      BY <3>1, <3>2
  <2>2. ASSUME NEW u \in Slots, NEW i \in Ids \ raced, Hydrates(u)',
               tasks'[u].id = i, tasks'[u].at \in Kinds
        PROVE  registry'[i] = u /\ core' # "local"
    <3>1. CASE u # t
      BY <1>1, <1>5, <1>7, <2>2, <3>1 DEF Hydrates, Hydrating, CoreInv
    <3>2. CASE u = t
      BY <1>1, <1>6, <1>7, <1>17, <2>2, <3>2, NoTaskType DEF Hydrates, Kinds
    <3> QED
      BY <3>1, <3>2
  <2>3. ASSUME core' = "local", NEW i \in Ids \ raced
        PROVE  StreamsOf(i)' = {}
    <3>1. core = "local" /\ i # d
      BY <1>0, <1>7, <1>17, <2>3
    <3> QED
      BY <1>14, <3>1 DEF Hydrating, CoreInv
  <2> QED
    BY <1>1, <2>1, <2>2, <2>3 DEF Hydrating
<1>19. RemovalDown'
  <2> SUFFICES ASSUME NEW u \in Slots, NEW i \in Ids \ raced, tasks'[u].op = "rm", tasks'[u].id = i
               PROVE  registry'[i] = 0 /\ StreamsOf(i)' = {}
    BY <1>1 DEF RemovalDown
  <2>1. u # t /\ tasks'[u] = tasks[u] /\ Works(u, i)
    BY <1>0, <1>5, <1>6, NoTaskType DEF Works
  <2>2. i # d /\ registry[i] = 0 /\ StreamsOf(i) = {}
    BY <1>16, <2>1 DEF RemovalDown, CoreInv
  <2> QED
    BY <1>1, <1>14, <2>2
<1>20. StartDid'
  <2> SUFFICES ASSUME NEW u \in Slots, NEW i \in Ids \ raced, Starts(u)'
               PROVE  /\ Works(u, i)' /\ i \notin tasks'[u].news => rows[i] = "ready"
                      /\ (rows[i] \in Present /\ i \notin tasks'[u].todo
                            /\ ~(tasks'[u].id = i /\ tasks'[u].at = "client"))
                            => rows[i] = "ready" /\ registry[i] # 0
    BY <1>1 DEF StartDid
  <2>1. Starts(u) /\ tasks'[u].news = tasks[u].news
    BY <1>5, <1>6, NoTaskType DEF Starts
  <2>2. Works(u, i)' /\ i \notin tasks'[u].news => rows[i] = "ready"
    BY <1>10, <2>1 DEF StartDid, CoreInv
  <2>3. CASE u # t
    BY <1>5, <2>1, <2>2, <2>3 DEF StartDid, CoreInv
  <2>4. CASE u = t
    <3>1. i \notin tasks'[t].todo /\ ~(tasks'[t].id = i /\ tasks'[t].at = "client")
            => i \notin tasks[t].todo
      BY <1>6, <2>1, <2>4, NoTaskType DEF Starts
    <3>2. tasks[t].at # "client"
      BY <1>0 DEF Kinds
    <3> QED
      BY <2>1, <2>2, <2>4, <3>1, <3>2 DEF StartDid, CoreInv
  <2> QED
    BY <2>3, <2>4
<1>21. StreamsMatchRegistry'
  BY <1>1, <1>17 DEF StreamsMatchRegistry, CoreInv
<1>22. RemovedIsDown'
  <2>1. d \in raced \/ rows[d] # "removed"
    BY <1>0, <1>10 DEF RowsKept, CoreInv, Present, d
  <2> QED
    BY <1>1, <1>14, <2>1 DEF RemovedIsDown, CoreInv
<1>23. StopLeavesOnlyCaught'
  BY <1>0, <1>1, <1>7 DEF StopLeavesOnlyCaught, CoreInv
<1> QED
  BY <1>7, <1>9, <1>11, <1>12, <1>13, <1>15, <1>18, <1>19, <1>20, <1>21, <1>22, <1>23 DEF CoreInv

\* A call of an admin request begins: a row is created, an identity without a
\* client is attached, or one is taken down to be removed.
LEMMA Begun ==
  ASSUME CoreInv, HasSlot, core \in {"local", "starting", "running"},
         NEW i \in Ids, NEW call \in Tasks, call.id = i, call.todo = {},
         Begin(FreeSlot, call, {i}), UNCHANGED <<core, open, beats>>,
         \/ /\ call.op = "register" /\ call.at = "client" /\ core # "starting"
            /\ rows[i] = "unused" /\ CreateRow(i) /\ UNCHANGED <<registry, streams>>
         \/ /\ call.op = "attach" /\ call.at = "client" /\ core # "starting"
            /\ rows[i] \in Present /\ registry[i] = 0 /\ UNCHANGED <<rows, registry, streams>>
         \/ /\ call.op = "rm" /\ call.at = "files"
            /\ rows[i] \in Present /\ Detach(i) /\ UNCHANGED rows
  PROVE  CoreInv'
<1> DEFINE s == FreeSlot
<1>0. /\ CoreTypeOK /\ open /\ caught = {} /\ beats = (core = "running")
      /\ s \in Slots /\ tasks[s].op = "none"
  BY FreeSlotIsFree DEF Free, CoreInv, StopSeen, BeatsWhileRunning
<1>1. /\ tasks' = [tasks EXCEPT ![s] = call] /\ caught' = {}
      /\ raced' = raced \union {j \in {i} : Busy(j)}
  BY <1>0 DEF Begin
<1> HIDE DEF s
<1>2. /\ tasks'[s] = call /\ \A u \in Slots : u # s => tasks'[u] = tasks[u]
      /\ tasks' \in [Slots -> Tasks]
  BY <1>0, <1>1 DEF CoreTypeOK
<1>3. /\ raced \subseteq raced' /\ raced' \subseteq Ids
      /\ i \notin raced' => core # "starting" /\ \A u \in Slots : ~Works(u, i)
  BY <1>0, <1>1 DEF Busy, CoreTypeOK
<1>4. /\ rows' \in [Ids -> RowStates] /\ \A j \in Ids : j # i => rows'[j] = rows[j]
      /\ rows'[i] \in Present
      /\ call.op # "register" => rows' = rows
  BY <1>0 DEF CreateRow, CoreTypeOK, RowStates, Present
<1>5. /\ registry' \in [Ids -> Slots \union {0}]
      /\ \A j \in Ids : j # i => registry'[j] = registry[j]
      /\ registry'[i] \in {registry[i], 0}
      /\ streams' \subseteq streams
      /\ registry' = registry \/ StreamsOf(i)' = {}
      /\ call.op = "rm" => registry'[i] = 0 /\ StreamsOf(i)' = {}
      /\ call.op # "rm" => registry' = registry /\ streams' = streams
  BY <1>0 DEF Detach, CoreTypeOK, StreamsOf
<1>6. \A j \in Ids : StreamsOf(j)' \subseteq StreamsOf(j)
  BY <1>5 DEF StreamsOf
<1>7. \A u \in Slots : \A j \in Ids : Works(u, j)' => IF u = s THEN j = i ELSE Works(u, j)
  BY <1>2 DEF Works
<1>8. CoreTypeOK'
  BY <1>0, <1>1, <1>2, <1>3, <1>4, <1>5 DEF CoreTypeOK
<1>9. CallShape'
  BY <1>2 DEF CallShape, CoreInv, Starts
<1>10. StopSeen'
  BY <1>0, <1>1 DEF StopSeen
<1>11. \A u \in Slots : Starts(u)' => u # s /\ Starts(u) /\ core = "starting"
  BY <1>2 DEF Starts, CallShape, CoreInv
<1>12. Sole'
  <2>1. \A j \in Ids \ raced' : \A u, v \in Slots : Works(u, j)' /\ Works(v, j)' => u = v
    BY <1>3, <1>7 DEF Sole, CoreInv
  <2>2. \A u, v \in Slots : \A j \in Ids \ raced' : Starts(u)' /\ Works(v, j)' => v = u
    BY <1>3, <1>7, <1>11 DEF Sole, CoreInv
  <2> QED
    BY <2>1, <2>2 DEF Sole
<1>13. RowsKept'
  <2>1. \A j \in Ids \ raced' : \A u \in Slots : Works(u, j)' => rows'[j] \in Present
    BY <1>3, <1>4, <1>7 DEF RowsKept, CoreInv
  <2>2. ASSUME NEW j \in Ids, rows'[j] = "unused"
        PROVE  registry'[j] = 0 /\ StreamsOf(j)' = {} /\ \A u \in Slots : ~Works(u, j)'
    <3>1. j # i /\ rows[j] = "unused"
      BY <1>4, <2>2 DEF Present
    <3> QED
      BY <1>5, <1>6, <1>7, <3>1 DEF RowsKept, CoreInv
  <2> QED
    BY <2>1, <2>2 DEF RowsKept
<1>14. i \in raced \/ call.op = "rm" \/ StreamsOf(i) = {}
  <2> SUFFICES ASSUME i \notin raced, registry[i] = 0 
               PROVE  StreamsOf(i) = {}
    BY DEF RowsKept, CoreInv
  <2> QED
    BY <1>0, SlotFacts DEF StreamsMatchRegistry, CoreInv, StreamsOf, CoreTypeOK
<1>15. Hydrating'
  <2>1. ASSUME NEW u \in Slots, NEW j \in Ids \ raced', Hydrates(u)',
               j \in tasks'[u].todo \/ (tasks'[u].id = j /\ tasks'[u].at = "client")
        PROVE  StreamsOf(j)' = {}
    <3>1. CASE u # s
      BY <1>0, <1>2, <1>3, <1>6, <2>1, <3>1 DEF Hydrates, Hydrating, CoreInv
    <3>2. CASE u = s
      BY <1>2, <1>3, <1>6, <1>14, <2>1, <3>2 DEF Hydrates
    <3> QED
      BY <3>1, <3>2
  <2>2. ASSUME NEW u \in Slots, NEW j \in Ids \ raced', Hydrates(u)',
               tasks'[u].id = j, tasks'[u].at \in Kinds
        PROVE  registry'[j] = u /\ core # "local"
    <3>1. u # s
      BY <1>2, <2>2 DEF Hydrates, Kinds
    <3>2. tasks'[u] = tasks[u] /\ Hydrates(u) /\ Works(u, j)
      BY <1>0, <1>2, <2>2, <3>1 DEF Hydrates, Works
    <3>3. j # i
      BY <1>3, <2>2, <3>2
    <3> QED
      BY <1>3, <1>5, <2>2, <3>2, <3>3 DEF Hydrating, CoreInv
  <2>3. core = "local" => \A j \in Ids \ raced' : StreamsOf(j)' = {}
    BY <1>3, <1>6 DEF Hydrating, CoreInv
  <2> QED
    BY <2>1, <2>2, <2>3 DEF Hydrating
<1>16. RemovalDown'
  <2> SUFFICES ASSUME NEW u \in Slots, NEW j \in Ids \ raced', tasks'[u].op = "rm", tasks'[u].id = j
               PROVE  registry'[j] = 0 /\ StreamsOf(j)' = {}
    BY DEF RemovalDown
  <2>1. CASE u = s
    BY <1>2, <1>5, <2>1
  <2>2. CASE u # s
    <3>1. registry[j] = 0 /\ StreamsOf(j) = {}
      BY <1>2, <1>3, <2>2 DEF RemovalDown, CoreInv
    <3> QED
      BY <1>5, <1>6, <3>1
  <2> QED
    BY <2>1, <2>2
<1>17. StartDid'
  <2> SUFFICES ASSUME NEW u \in Slots, NEW j \in Ids \ raced', Starts(u)'
               PROVE  /\ Works(u, j)' /\ j \notin tasks'[u].news => rows'[j] = "ready"
                      /\ (rows'[j] \in Present /\ j \notin tasks'[u].todo
                            /\ ~(tasks'[u].id = j /\ tasks'[u].at = "client"))
                            => rows'[j] = "ready" /\ registry'[j] # 0
    BY DEF StartDid
  <2>1. u # s /\ Starts(u) /\ tasks'[u] = tasks[u] /\ j # i
    BY <1>2, <1>3, <1>11
  <2> QED
    BY <1>3, <1>4, <1>5, <1>7, <2>1 DEF StartDid, CoreInv
<1>18. StreamsMatchRegistry'
  <2> SUFFICES ASSUME NEW x \in streams', x.id \notin raced'
               PROVE  registry'[x.id] = x.by
    BY DEF StreamsMatchRegistry
  <2>1. x \in streams /\ x.id \in Ids /\ registry[x.id] = x.by /\ x \in StreamsOf(x.id)'
    BY <1>0, <1>3, <1>5 DEF CoreTypeOK, StreamsMatchRegistry, CoreInv, StreamsOf
  <2> QED
    BY <1>5, <2>1
<1>19. RemovedIsDown'
  <2> SUFFICES ASSUME NEW j \in Ids \ raced', rows'[j] = "removed"
               PROVE  registry'[j] = 0 /\ StreamsOf(j)' = {}
    BY DEF RemovedIsDown
  <2>1. rows[j] = "removed" /\ j \notin raced
    BY <1>3, <1>4 DEF Present
  <2> QED
    BY <1>5, <1>6, <2>1 DEF RemovedIsDown, CoreInv
<1>20. BeatsWhileRunning' /\ StopLeavesOnlyCaught'
  BY <1>0 DEF BeatsWhileRunning, StopLeavesOnlyCaught
<1> QED
  BY <1>8, <1>9, <1>10, <1>12, <1>13, <1>15, <1>16, <1>17, <1>18, <1>19, <1>20 DEF CoreInv

\* The network start of a local core, with nothing to bring up or with a list.
LEMMA StartKeeps ==
  ASSUME CoreInv, core = "local", Start
  PROVE  CoreInv' /\ core' \in {"starting", "running"}
<1>0. /\ CoreTypeOK /\ open /\ caught = {} /\ beats = FALSE
      /\ \A u \in Slots : ~Starts(u)
      /\ UNCHANGED <<open, rows, registry, streams>>
  BY DEF CoreInv, StopSeen, BeatsWhileRunning, CallShape, Starts, Start
<1>1. CASE Listed = {}
  <2>1. core' = "running" /\ beats' = TRUE /\ UNCHANGED <<tasks, caught, raced>>
    BY <1>1 DEF Start, StartHeartbeat
  <2>2. CoreTypeOK'
    BY <1>0, <2>1 DEF CoreTypeOK, CoreStates
  <2>3. CallShape' /\ StopSeen' /\ BeatsWhileRunning'
    BY <1>0, <2>1 DEF CallShape, StopSeen, BeatsWhileRunning, Starts, CoreInv
  <2>4. Sole' /\ RowsKept' /\ RemovalDown' /\ StartDid'
    BY <1>0, <2>1 DEF Sole, RowsKept, RemovalDown, StartDid, Starts, Works, StreamsOf, CoreInv
  <2>5. Hydrating'
    BY <1>0, <2>1 DEF Hydrating, Hydrates, StreamsOf, CoreInv
  <2>6. StreamsMatchRegistry' /\ RemovedIsDown' /\ StopLeavesOnlyCaught'
    BY <1>0, <2>1 DEF StreamsMatchRegistry, RemovedIsDown, StopLeavesOnlyCaught, StreamsOf, CoreInv
  <2> QED
    BY <2>1, <2>2, <2>3, <2>4, <2>5, <2>6 DEF CoreInv
<1>2. CASE Listed # {}
  <2> DEFINE s == FreeSlot
             m == Min(Listed)
             call == [NoTask EXCEPT !.op = "start", !.back = "local", !.id = m,
                                    !.todo = Listed \ {m}, !.news = New]
  <2>1. m \in Listed /\ Listed \subseteq Ids
    BY <1>2, MinMember DEF Listed
  <2>2. s \in Slots /\ tasks[s].op = "none"
    BY FreeSlotIsFree DEF Start, Free
  <2>3. /\ core' = "starting" /\ beats' = beats
        /\ tasks' = [tasks EXCEPT ![s] = call] /\ caught' = {}
        /\ raced' = raced \union {i \in Listed : Busy(i)}
    BY <1>0, <1>2 DEF Start, Begin, NoTask
  <2> HIDE DEF s, m
  <2>4. /\ call \in Tasks /\ call.op = "start" /\ call.back = "local" /\ call.at = "client"
        /\ call.id = m /\ call.todo = Listed \ {m} /\ call.news = New
    BY <2>1 DEF Tasks, NoTask, New, Stages, Kinds
  <2> HIDE DEF call
  <2>5. /\ tasks'[s] = call /\ \A u \in Slots : u # s => tasks'[u] = tasks[u]
        /\ tasks' \in [Slots -> Tasks]
    BY <1>0, <2>2, <2>3, <2>4 DEF CoreTypeOK
  <2>6. /\ raced \subseteq raced' /\ raced' \subseteq Ids
        /\ \A i \in Listed \ raced' : \A u \in Slots : ~Works(u, i)
    BY <1>0, <2>1, <2>3 DEF Busy, CoreTypeOK
  <2>7. \A u \in Slots : \A j \in Ids :
          Works(u, j)' => IF u = s THEN j \in Listed ELSE Works(u, j)
    BY <2>1, <2>4, <2>5 DEF Works
  <2>8. \A j \in Ids \ raced' : \A u \in Slots : ~Works(u, j)
    BY <2>6 DEF RowsKept, CoreInv, Listed
  <2>9. CoreTypeOK'
    BY <1>0, <2>1, <2>3, <2>4, <2>5, <2>6 DEF CoreTypeOK, CoreStates
  <2>10. CallShape'
    BY <1>0, <2>3, <2>4, <2>5 DEF CallShape, Starts, CoreInv
  <2>11. StopSeen' /\ BeatsWhileRunning' /\ StopLeavesOnlyCaught'
    BY <1>0, <2>3 DEF StopSeen, BeatsWhileRunning, StopLeavesOnlyCaught
  <2>12. \A u \in Slots : Starts(u)' => u = s
    BY <1>0, <2>5 DEF Starts
  <2>13. Sole'
    BY <2>7, <2>8, <2>12 DEF Sole
  <2>14. RowsKept'
    <3>1. \A j \in Ids \ raced' : \A u \in Slots : Works(u, j)' => rows[j] \in Present
      BY <2>7, <2>8 DEF Listed
    <3>2. \A j \in Ids : rows[j] = "unused" => \A u \in Slots : ~Works(u, j)'
      BY <2>7 DEF RowsKept, CoreInv, Listed, Present
    <3> QED
      BY <1>0, <3>1, <3>2 DEF RowsKept, CoreInv, StreamsOf
  <2>15. Hydrating'
    <3>1. \A j \in Ids \ raced' : StreamsOf(j)' = {}
      BY <1>0, <2>6 DEF Hydrating, CoreInv, StreamsOf
    <3>2. \A u \in Slots : \A j \in Ids \ raced' :
            ~(Hydrates(u)' /\ tasks'[u].id = j /\ tasks'[u].at \in Kinds)
      BY <2>4, <2>5, <2>8 DEF Hydrates, Works, Kinds
    <3> QED
      BY <2>3, <3>1, <3>2 DEF Hydrating
  <2>16. RemovalDown'
    BY <1>0, <2>4, <2>5, <2>6 DEF RemovalDown, CoreInv, StreamsOf
  <2>17. StartDid'
    BY <1>0, <2>1, <2>4, <2>5, <2>7, <2>12 DEF StartDid, Listed, New, Present
  <2>18. StreamsMatchRegistry' /\ RemovedIsDown'
    BY <1>0, <2>3, <2>6 DEF StreamsMatchRegistry, RemovedIsDown, StreamsOf, CoreInv
  <2> QED
    BY <2>3, <2>9, <2>10, <2>11, <2>13, <2>14, <2>15, <2>16, <2>17, <2>18 DEF CoreInv
<1> QED
  BY <1>1, <1>2

LEMMA StartLocalKeeps ==
  ASSUME CoreInv, StartLocal
  PROVE  CoreInv'
<1>0. /\ CoreTypeOK /\ core = "idle" /\ core' = "local" /\ open /\ caught = {} /\ beats = FALSE
      /\ streams = {} /\ \A t \in Slots : tasks[t].op = "none"
      /\ UNCHANGED <<open, rows, registry, streams, beats, tasks, caught, raced>>
  BY DEF StartLocal, CoreInv, StopSeen, BeatsWhileRunning
<1>1. CoreTypeOK' /\ CallShape' /\ StopSeen' /\ BeatsWhileRunning'
  BY <1>0 DEF CoreTypeOK, CoreStates, CallShape, Starts, StopSeen, BeatsWhileRunning, CoreInv
<1>2. Sole' /\ RowsKept' /\ Hydrating' /\ RemovalDown' /\ StartDid'
  BY <1>0 DEF Sole, RowsKept, Hydrating, RemovalDown, StartDid, Starts, Hydrates, Works, StreamsOf,
              CoreInv
<1>3. StreamsMatchRegistry' /\ RemovedIsDown' /\ StopLeavesOnlyCaught'
  BY <1>0 DEF StreamsMatchRegistry, RemovedIsDown, StopLeavesOnlyCaught, StreamsOf, CoreInv
<1> QED
  BY <1>1, <1>2, <1>3 DEF CoreInv

LEMMA StopKeeps ==
  ASSUME CoreInv, Stop
  PROVE  CoreInv'
<1>0. /\ CoreTypeOK /\ core # "starting" /\ \A t \in Slots : ~Starts(t)
      /\ core' = "stopped" /\ beats' = FALSE /\ streams' = {} /\ open' = FALSE
      /\ registry' = [i \in Ids |-> 0]
      /\ caught' = {t \in Slots : tasks[t].op # "none"}
      /\ UNCHANGED <<rows, tasks, raced>>
  BY DEF Stop, StopHeartbeat, CoreInv, CallShape, Starts
<1>1. CoreTypeOK'
  BY <1>0 DEF CoreTypeOK, CoreStates
<1>2. CallShape' /\ StopSeen' /\ BeatsWhileRunning'
  BY <1>0 DEF CallShape, Starts, StopSeen, BeatsWhileRunning, CoreInv
<1>3. Sole' /\ RowsKept' /\ RemovalDown' /\ StartDid'
  BY <1>0 DEF Sole, RowsKept, RemovalDown, StartDid, Starts, Works, StreamsOf, CoreInv
<1>4. Hydrating'
  BY <1>0 DEF Hydrating, Hydrates, StreamsOf
<1>5. StreamsMatchRegistry' /\ RemovedIsDown' /\ StopLeavesOnlyCaught'
  BY <1>0 DEF StreamsMatchRegistry, RemovedIsDown, StopLeavesOnlyCaught, StreamsOf
<1> QED
  BY <1>1, <1>2, <1>3, <1>4, <1>5 DEF CoreInv

\* A purge of chat.rm or chat.leave, which races with everything.
LEMMA PurgeKeeps ==
  ASSUME CoreInv, NEW i \in Ids, Purge(i)
  PROVE  CoreInv'
<1>0. /\ CoreTypeOK /\ open /\ UNCHANGED <<core, open, streams, beats, tasks, caught>>
      /\ registry' = [registry EXCEPT ![i] = 0] /\ raced' = raced \union {i}
      /\ rows' = [rows EXCEPT ![i] = "removed"] /\ rows[i] \in Present
  BY DEF Purge, RemoveRow, CoreInv
<1>1. /\ rows' \in [Ids -> RowStates] /\ rows'[i] = "removed"
      /\ \A j \in Ids : j # i => rows'[j] = rows[j]
      /\ registry' \in [Ids -> Slots \union {0}] /\ registry'[i] = 0
      /\ \A j \in Ids : j # i => registry'[j] = registry[j]
      /\ \A j \in Ids \ raced' : j # i /\ j \notin raced
  BY <1>0 DEF CoreTypeOK, RowStates
<1>2. CoreTypeOK'
  BY <1>0, <1>1 DEF CoreTypeOK
<1>3. CallShape' /\ BeatsWhileRunning'
  BY <1>0 DEF CallShape, Starts, BeatsWhileRunning, CoreInv
<1>4. StopSeen'
  BY <1>0, <1>1 DEF StopSeen, CoreInv
<1>5. Sole'
  BY <1>0, <1>1 DEF Sole, Starts, Works, CoreInv
<1>6. RowsKept'
  BY <1>0, <1>1 DEF RowsKept, Works, StreamsOf, Present, CoreInv
<1>7. Hydrating'
  BY <1>0, <1>1 DEF Hydrating, Hydrates, StreamsOf, CoreInv
<1>8. RemovalDown' /\ StartDid'
  BY <1>0, <1>1 DEF RemovalDown, StartDid, Starts, Works, StreamsOf, CoreInv
<1>9. StreamsMatchRegistry'
  BY <1>0, <1>1 DEF StreamsMatchRegistry, CoreTypeOK, CoreInv
<1>10. RemovedIsDown' /\ StopLeavesOnlyCaught'
  BY <1>0, <1>1 DEF RemovedIsDown, StopLeavesOnlyCaught, StreamsOf, CoreInv
<1> QED
  BY <1>2, <1>3, <1>4, <1>5, <1>6, <1>7, <1>8, <1>9, <1>10 DEF CoreInv

\* A process that begins: nothing of the core is in memory.
LEMMA Emptied ==
  ASSUME rows \in [Ids -> RowStates], core = "idle", open = TRUE, beats = FALSE,
         registry = [i \in Ids |-> 0], streams = {}, caught = {}, raced = {},
         tasks = [t \in Slots |-> NoTask]
  PROVE  CoreInv
<1>0. \A t \in Slots : tasks[t] = NoTask
  OBVIOUS
<1>1. CoreTypeOK
  BY <1>0, NoTaskType DEF CoreTypeOK, CoreStates
<1>2. CallShape /\ StopSeen /\ BeatsWhileRunning
  BY <1>0, NoTaskType DEF CallShape, Starts, StopSeen, BeatsWhileRunning
<1>3. Sole /\ RowsKept /\ Hydrating /\ RemovalDown /\ StartDid
  BY <1>0, NoTaskType DEF Sole, RowsKept, Hydrating, RemovalDown, StartDid, Starts, Hydrates, Works,
                          StreamsOf
<1>4. StreamsMatchRegistry /\ RemovedIsDown /\ StopLeavesOnlyCaught
  BY DEF StreamsMatchRegistry, RemovedIsDown, StopLeavesOnlyCaught, StreamsOf
<1> QED
  BY <1>1, <1>2, <1>3, <1>4 DEF CoreInv

-----------------------------------------------------------------------------
(* The steps of the daemon. *)

Parts == {"keys", "local", "network", "upgrade", "ws", "admin", "http", "pid", "log", "core"}
Steps == {"up", "down"} \X Parts

LEMMA Cons ==
  ASSUME NEW S, NEW a \in S, NEW s \in Seq(S)
  PROVE  /\ <<a>> \o s \in Seq(S) /\ <<a>> \o s # <<>>
         /\ Head(<<a>> \o s) = a /\ Tail(<<a>> \o s) = s /\ Len(<<a>> \o s) = Len(s) + 1
<1>1. <<a>> \in Seq(S) /\ Len(<<a>>) = 1 /\ <<a>>[1] = a
  OBVIOUS
<1> DEFINE c == <<a>> \o s
<1>2. /\ c \in Seq(S) /\ Len(c) = Len(s) + 1 /\ Len(s) \in Nat /\ c[1] = a
      /\ \A i \in 2 .. Len(s) + 1 : c[i] = s[i - 1]
  <2>1. /\ c \in Seq(S) /\ Len(c) = 1 + Len(s)
        /\ \A i \in 1 .. 1 + Len(s) : c[i] = IF i <= 1 THEN <<a>>[i] ELSE s[i - 1]
    BY <1>1, ConcatProperties, Zenon
  <2>2. Len(s) \in Nat
    BY LenProperties
  <2> HIDE DEF c
  <2> QED
    BY <1>1, <2>1, <2>2
<1> HIDE DEF c
<1>3. c # <<>>
  BY <1>2, EmptySeq
<1>4. Head(c) = a
  BY <1>2
<1>5. /\ Tail(c) \in Seq(S) /\ Len(Tail(c)) = Len(s)
      /\ \A i \in 1 .. Len(s) : Tail(c)[i] = c[i + 1]
  BY <1>2, <1>3, HeadTailProperties
<1>6. Tail(c) = s
  <2>1. \A i \in 1 .. Len(s) : Tail(c)[i] = s[i]
    BY <1>2, <1>5
  <2> QED
    BY <1>5, <2>1, SeqEqual
<1> QED
  BY <1>2, <1>3, <1>4, <1>6 DEF c

LEMMA StepFacts ==
  /\ \A p \in Parts : Up(p) \in Steps /\ Down(p) \in Steps
  /\ \A p, q : (Up(p) = Up(q) => p = q) /\ (Down(p) = Down(q) => p = q) /\ Up(p) # Down(q)
BY DEF Steps, Up, Down

\* A list begins with a step, and the rest of it is the next list.
Leads(s, step, rest) ==
    /\ s \in Seq(Steps) /\ s # <<>> /\ Head(s) = step /\ Tail(s) = rest
    /\ Len(s) = Len(rest) + 1

LEMMA ConsLeads ==
  ASSUME NEW step \in Steps, NEW rest \in Seq(Steps)
  PROVE  Leads(<<step>> \o rest, step, rest)
BY Cons DEF Leads

LEMMA Single ==
  ASSUME NEW step \in Steps
  PROVE  Leads(<<step>>, step, <<>>)
<1>1. <<step>> \in Seq(Steps) /\ <<step>> # <<>> /\ Len(<<step>>) = 1 /\ Head(<<step>>) = step
  OBVIOUS
<1>2. <<step>> \o <<>> = <<step>>
  BY <1>1, ConcatEmptySeq
<1>3. <<>> \in Seq(Steps)
  BY EmptySeq
<1> QED
  BY <1>2, <1>3, ConsLeads

LEMMA HttpLeads ==
  ASSUME NEW step \in Steps, NEW rest \in Seq(Steps)
  PROVE  /\ HttpEnabled => Leads(IfHttp(step) \o rest, step, rest)
         /\ ~HttpEnabled => IfHttp(step) \o rest = rest
<1>1. CASE HttpEnabled
  BY <1>1, ConsLeads DEF IfHttp
<1>2. CASE ~HttpEnabled
  BY <1>2, ConcatEmptySeq DEF IfHttp
<1> QED
  BY <1>1, <1>2

LEMMA LeadsSeq == \A s, step, rest : Leads(s, step, rest) => s \in Seq(Steps)
BY DEF Leads

LEMMA StartLists ==
  /\ Leads(KeysOn, Up("keys"), LocalOn)
  /\ Leads(LocalOn, Up("local"), NetworkOn)
  /\ Leads(NetworkOn, Up("network"), WsOn)
  /\ Leads(UpgradeOn, Up("upgrade"), WsOn)
  /\ Leads(WsOn, Up("ws"), AdminOn)
  /\ Leads(AdminOn, Up("admin"), HttpOn)
  /\ HttpEnabled => Leads(HttpOn, Up("http"), PidOn)
  /\ ~HttpEnabled => HttpOn = PidOn
  /\ Leads(PidOn, Up("pid"), LogOn)
  /\ Leads(LogOn, Up("log"), <<>>)
<1>s. \A p \in Parts : Up(p) \in Steps
  BY StepFacts
<1>1. Leads(LogOn, Up("log"), <<>>)
  BY <1>s, Single DEF LogOn, Parts
<1>2. Leads(PidOn, Up("pid"), LogOn)
  BY <1>s, <1>1, LeadsSeq, ConsLeads DEF PidOn, Parts
<1>3. /\ HttpEnabled => Leads(HttpOn, Up("http"), PidOn)
      /\ ~HttpEnabled => HttpOn = PidOn
      /\ HttpOn \in Seq(Steps)
  BY <1>s, <1>2, LeadsSeq, HttpLeads DEF HttpOn, Parts
<1>4. Leads(AdminOn, Up("admin"), HttpOn)
  BY <1>s, <1>3, ConsLeads DEF AdminOn, Parts
<1>5. Leads(WsOn, Up("ws"), AdminOn)
  BY <1>s, <1>4, LeadsSeq, ConsLeads DEF WsOn, Parts
<1>6. Leads(UpgradeOn, Up("upgrade"), WsOn) /\ Leads(NetworkOn, Up("network"), WsOn)
  BY <1>s, <1>5, LeadsSeq, ConsLeads DEF UpgradeOn, NetworkOn, Parts
<1>7. Leads(LocalOn, Up("local"), NetworkOn)
  BY <1>s, <1>6, LeadsSeq, ConsLeads DEF LocalOn, Parts
<1>8. Leads(KeysOn, Up("keys"), LocalOn)
  BY <1>s, <1>7, LeadsSeq, ConsLeads DEF KeysOn, Parts
<1> QED
  BY <1>1, <1>2, <1>3, <1>4, <1>5, <1>6, <1>7, <1>8

LEMMA RollbackLists ==
  /\ Leads(PidOff, Down("pid"), HttpOff)
  /\ HttpEnabled => Leads(HttpOff, Down("http"), AdminOff)
  /\ ~HttpEnabled => HttpOff = AdminOff
  /\ Leads(AdminOff, Down("admin"), WsOff)
  /\ Leads(WsOff, Down("ws"), CoreOff)
  /\ Leads(CoreOff, Down("core"), <<>>)
<1>s. \A p \in Parts : Down(p) \in Steps
  BY StepFacts
<1>1. Leads(CoreOff, Down("core"), <<>>)
  BY <1>s, Single DEF CoreOff, Parts
<1>2. Leads(WsOff, Down("ws"), CoreOff)
  BY <1>s, <1>1, LeadsSeq, ConsLeads DEF WsOff, Parts
<1>3. Leads(AdminOff, Down("admin"), WsOff)
  BY <1>s, <1>2, LeadsSeq, ConsLeads DEF AdminOff, Parts
<1>4. /\ HttpEnabled => Leads(HttpOff, Down("http"), AdminOff)
      /\ ~HttpEnabled => HttpOff = AdminOff
      /\ HttpOff \in Seq(Steps)
  BY <1>s, <1>3, LeadsSeq, HttpLeads DEF HttpOff, Parts
<1>5. Leads(PidOff, Down("pid"), HttpOff)
  BY <1>s, <1>4, ConsLeads DEF PidOff, Parts
<1> QED
  BY <1>1, <1>2, <1>3, <1>4, <1>5

LEMMA ShutdownLists ==
  /\ HttpEnabled => Leads(HttpEnd, Down("http"), AdminEnd)
  /\ ~HttpEnabled => HttpEnd = AdminEnd
  /\ Leads(AdminEnd, Down("admin"), WsEnd)
  /\ Leads(WsEnd, Down("ws"), CoreEnd)
  /\ Leads(CoreEnd, Down("core"), PidEnd)
  /\ Leads(PidEnd, Down("pid"), LogEnd)
  /\ Leads(LogEnd, Down("log"), <<>>)
<1>s. \A p \in Parts : Down(p) \in Steps
  BY StepFacts
<1>1. Leads(LogEnd, Down("log"), <<>>)
  BY <1>s, Single DEF LogEnd, Parts
<1>2. Leads(PidEnd, Down("pid"), LogEnd)
  BY <1>s, <1>1, LeadsSeq, ConsLeads DEF PidEnd, Parts
<1>3. Leads(CoreEnd, Down("core"), PidEnd)
  BY <1>s, <1>2, LeadsSeq, ConsLeads DEF CoreEnd, Parts
<1>4. Leads(WsEnd, Down("ws"), CoreEnd)
  BY <1>s, <1>3, LeadsSeq, ConsLeads DEF WsEnd, Parts
<1>5. Leads(AdminEnd, Down("admin"), WsEnd)
  BY <1>s, <1>4, LeadsSeq, ConsLeads DEF AdminEnd, Parts
<1>6. /\ HttpEnabled => Leads(HttpEnd, Down("http"), AdminEnd)
      /\ ~HttpEnabled => HttpEnd = AdminEnd
  BY <1>s, <1>5, LeadsSeq, HttpLeads DEF HttpEnd, Parts
<1> QED
  BY <1>1, <1>2, <1>3, <1>4, <1>5, <1>6

LEMMA LeadsCons ==
  ASSUME NEW s, NEW step \in Steps, NEW rest \in Seq(Steps), Leads(s, step, rest)
  PROVE  s = <<step>> \o rest
<1>1. s \in Seq(Steps) /\ s # <<>> /\ Len(s) \in Nat /\ Len(s) # 0
  BY EmptySeq, LenProperties DEF Leads
<1>2. SubSeq(s, 1, Len(s)) = <<s[1]>> \o SubSeq(s, 2, Len(s))
  <2>1. 1 \in 1 .. Len(s) /\ Len(s) \in 1 .. Len(s) /\ 1 + 1 = 2
    BY <1>1
  <2> QED
    BY <1>1, <2>1, SubSeqRecursiveFirst, Zenon
<1>3. SubSeq(s, 1, Len(s)) = s /\ SubSeq(s, 2, Len(s)) = Tail(s) /\ Head(s) = s[1]
  BY <1>1, SubSeqFull, TailIsSubSeq
<1> QED
  BY <1>2, <1>3 DEF Leads

LEMMA Literal2 ==
  ASSUME NEW a \in Steps, NEW b \in Steps
  PROVE  <<a>> \o <<b>> = <<a, b>> /\ <<a, b>> \in Seq(Steps)
<1>1. Leads(<<a, b>>, a, <<b>>) /\ <<b>> \in Seq(Steps)
  BY DEF Leads
<1> QED
  BY <1>1, LeadsCons, LeadsSeq, Zenon

LEMMA Literal3 ==
  ASSUME NEW a \in Steps, NEW b \in Steps, NEW c \in Steps
  PROVE  <<a>> \o <<b, c>> = <<a, b, c>> /\ <<a, b, c>> \in Seq(Steps)
<1>1. Leads(<<a, b, c>>, a, <<b, c>>) /\ <<b, c>> \in Seq(Steps)
  BY DEF Leads
<1> QED
  BY <1>1, LeadsCons, LeadsSeq, Zenon

LEMMA Assoc ==
  ASSUME NEW s \in Seq(Steps), NEW t \in Seq(Steps), NEW u \in Seq(Steps)
  PROVE  (s \o t) \o u = s \o (t \o u)
BY ConcatAssociative

\* The lists of the model are the ones above.
LEMMA ListsAre ==
  /\ StartSteps = KeysOn /\ StopSteps = HttpEnd
  /\ Undo("ws") = CoreOff /\ Undo("admin") = WsOff /\ Undo("http") = AdminOff
  /\ Undo("pid") = HttpOff /\ Undo("log") = PidOff
  /\ Undo("keys") = <<>> /\ Undo("upgrade") = <<>>
<1>s. /\ \A p \in Parts : Up(p) \in Steps /\ Down(p) \in Steps
      /\ Up("keys") \in Steps /\ Up("local") \in Steps /\ Up("network") \in Steps
      /\ Up("ws") \in Steps /\ Up("admin") \in Steps /\ Up("http") \in Steps
      /\ Up("pid") \in Steps /\ Up("log") \in Steps
      /\ Down("ws") \in Steps /\ Down("admin") \in Steps /\ Down("http") \in Steps
      /\ Down("core") \in Steps /\ Down("pid") \in Steps /\ Down("log") \in Steps
  BY StepFacts DEF Parts
<1>a. \A a \in Steps : <<a>> \in Seq(Steps)
  OBVIOUS
<1>1. WsOff = <<Down("ws"), Down("core")>>
  BY <1>s, Literal2, Zenon DEF WsOff, CoreOff
<1>2. AdminOff = <<Down("admin"), Down("ws"), Down("core")>>
  BY <1>s, <1>1, Literal3, Zenon DEF AdminOff
<1>3. PidEnd = <<Down("pid"), Down("log")>>
  BY <1>s, Literal2, Zenon DEF PidEnd, LogEnd
<1>4. CoreEnd = <<Down("core"), Down("pid"), Down("log")>>
  BY <1>s, <1>3, Literal3, Zenon DEF CoreEnd
<1>5. WsEnd = <<Down("ws"), Down("core"), Down("pid"), Down("log")>>
  <2>1. Leads(<<Down("ws"), Down("core"), Down("pid"), Down("log")>>, Down("ws"), CoreEnd)
    BY <1>s, <1>4 DEF Leads
  <2> QED
    <3>1. CoreEnd \in Seq(Steps)
      BY ShutdownLists, LeadsSeq, Zenon
    <3> QED
      BY <1>s, <2>1, <3>1, LeadsCons, Zenon DEF WsEnd
<1>6. AdminEnd = <<Down("admin"), Down("ws"), Down("core"), Down("pid"), Down("log")>>
  <2>1. Leads(<<Down("admin"), Down("ws"), Down("core"), Down("pid"), Down("log")>>,
              Down("admin"), WsEnd)
    BY <1>s, <1>5 DEF Leads
  <2> QED
    <3>1. WsEnd \in Seq(Steps)
      BY ShutdownLists, LeadsSeq, Zenon
    <3> QED
      BY <1>s, <2>1, <3>1, LeadsCons, Zenon DEF AdminEnd
<1>7. PidOn = <<Up("pid"), Up("log")>> /\ PidOn \in Seq(Steps)
  BY <1>s, Literal2, Zenon DEF PidOn, LogOn
<1>8. StartSteps = KeysOn
  <2> DEFINE first == <<Up("keys"), Up("local"), Up("network"), Up("ws"), Up("admin")>>
             l1 == <<Up("admin")>>
             l2 == <<Up("ws"), Up("admin")>>
             l3 == <<Up("network"), Up("ws"), Up("admin")>>
             l4 == <<Up("local"), Up("network"), Up("ws"), Up("admin")>>
  <2>1. /\ HttpOn \in Seq(Steps) /\ IfHttp(Up("http")) \in Seq(Steps)
        /\ first \in Seq(Steps) /\ first = <<Up("keys")>> \o l4
        /\ l4 \in Seq(Steps) /\ l4 = <<Up("local")>> \o l3
        /\ l3 \in Seq(Steps) /\ l3 = <<Up("network")>> \o l2
        /\ l2 \in Seq(Steps) /\ l2 = <<Up("ws")>> \o l1
        /\ l1 \in Seq(Steps)
    <3>1. IfHttp(Up("http")) \in Seq(Steps)
      BY <1>s, <1>a, EmptySeq DEF IfHttp
    <3>2. HttpOn \in Seq(Steps)
      BY <1>7, <3>1, ConcatProperties, Zenon DEF HttpOn
    <3>3. first \in Seq(Steps) /\ first = <<Up("keys")>> \o l4
      <4>1. Leads(first, Up("keys"), l4) /\ l4 \in Seq(Steps)
        BY <1>s DEF Leads
      <4> HIDE DEF first, l4
      <4> QED
        BY <1>s, <4>1, LeadsCons, LeadsSeq
    <3>4. l4 \in Seq(Steps) /\ l4 = <<Up("local")>> \o l3
      <4>1. Leads(l4, Up("local"), l3) /\ l3 \in Seq(Steps)
        BY <1>s DEF Leads
      <4> HIDE DEF l4, l3
      <4> QED
        BY <1>s, <4>1, LeadsCons, LeadsSeq
    <3>5. l3 \in Seq(Steps) /\ l3 = <<Up("network")>> \o l2
      BY <1>s, Literal3, Zenon
    <3>6. l2 \in Seq(Steps) /\ l2 = <<Up("ws")>> \o l1
      BY <1>s, Literal2, Zenon
    <3> QED
      BY <1>s, <1>a, <3>1, <3>2, <3>3, <3>4, <3>5, <3>6
  <2>2. StartSteps = first \o HttpOn
    <3>1. StartSteps = (first \o IfHttp(Up("http"))) \o PidOn
      BY <1>7 DEF StartSteps
    <3> HIDE DEF first
    <3>2. (first \o IfHttp(Up("http"))) \o PidOn = first \o (IfHttp(Up("http")) \o PidOn)
      BY <1>7, <2>1, Assoc
    <3> QED
      BY <3>1, <3>2 DEF HttpOn
  <2>3. l1 \o HttpOn = AdminOn
    BY DEF AdminOn
  <2> HIDE DEF l1, l2, l3, l4, first
  <2>4. \A a \in Steps : \A s \in Seq(Steps) : (<<a>> \o s) \o HttpOn = <<a>> \o (s \o HttpOn)
    <3> SUFFICES ASSUME NEW a \in Steps, NEW s \in Seq(Steps)
                 PROVE  (<<a>> \o s) \o HttpOn = <<a>> \o (s \o HttpOn)
      OBVIOUS
    <3>1. <<a>> \in Seq(Steps) /\ HttpOn \in Seq(Steps)
      BY <1>a, <2>1
    <3> QED
      BY <3>1, Assoc, Zenon
  <2>5. l2 \o HttpOn = WsOn
    BY <1>s, <2>1, <2>3, <2>4, Zenon DEF WsOn
  <2>6. l3 \o HttpOn = NetworkOn
    BY <1>s, <2>1, <2>4, <2>5, Zenon DEF NetworkOn
  <2>7. l4 \o HttpOn = LocalOn
    BY <1>s, <2>1, <2>4, <2>6, Zenon DEF LocalOn
  <2>8. first \o HttpOn = KeysOn
    BY <1>s, <2>1, <2>4, <2>7, Zenon DEF KeysOn
  <2> QED
    BY <2>2, <2>8
<1>9. StopSteps = HttpEnd
  BY <1>6 DEF StopSteps, HttpEnd
<1>10. Undo("pid") = HttpOff
  BY <1>2 DEF Undo, HttpOff
<1>11. Undo("log") = PidOff
  <2>1. Undo("log") = (<<Down("pid")>> \o IfHttp(Down("http"))) \o AdminOff
    BY <1>2 DEF Undo
  <2>2. <<Down("pid")>> \in Seq(Steps) /\ IfHttp(Down("http")) \in Seq(Steps)
    <3>1. <<>> \in Seq(Steps)
      BY EmptySeq
    <3> QED
      BY <1>s, <1>a, <3>1 DEF IfHttp
  <2>3. AdminOff \in Seq(Steps)
    BY RollbackLists, LeadsSeq
  <2> QED
    BY <2>1, <2>2, <2>3, Assoc DEF PidOff, HttpOff
<1>12. /\ Undo("ws") = CoreOff /\ Undo("admin") = WsOff /\ Undo("http") = AdminOff
       /\ Undo("keys") = <<>> /\ Undo("upgrade") = <<>>
  BY <1>1, <1>2 DEF Undo, CoreOff
<1> QED
  BY <1>8, <1>9, <1>10, <1>11, <1>12

\* Where start() is at its next step.
LEMMA WhereUp ==
  ASSUME DaemonInv, NEW p, Doing(Up(p))
  PROVE  /\ daemon = "starting"
         /\ p \in {"keys", "local", "network", "upgrade", "ws", "admin", "http", "pid", "log"}
         /\ p = "keys" => Tail(work) = LocalOn /\ core = "idle" /\ Only({})
         /\ p = "local" => Tail(work) = NetworkOn /\ core = "idle" /\ Only({})
         /\ p \in {"network", "upgrade"} => Tail(work) = WsOn /\ Alive /\ Only({})
         /\ p = "ws" => Tail(work) = AdminOn /\ Alive /\ Only({})
         /\ p = "admin" => Tail(work) = HttpOn /\ Alive /\ Only({"ws"})
         /\ p = "http" => Tail(work) = PidOn /\ Alive /\ Only({"ws", "admin"})
         /\ p = "pid" => Tail(work) = LogOn /\ Alive /\ Only(Servers)
         /\ p = "log" => Tail(work) = <<>> /\ Alive /\ Only(Servers) /\ pid
<1>1. work # <<>> /\ Head(work) = Up(p)
  BY DEF Doing
<1>2. \A q : Up(p) # Down(q) /\ (Up(p) = Up(q) => p = q)
  BY StepFacts
<1>3. daemon # "draining"
  <2> SUFFICES ASSUME Draining PROVE FALSE
    BY DEF DaemonInv
  <2> QED
    BY <1>1, <1>2, ShutdownLists DEF Draining, Leads
<1>4. daemon # "error"
  <2> SUFFICES ASSUME RollingBack PROVE FALSE
    BY DEF DaemonInv
  <2> QED
    BY <1>1, <1>2, RollbackLists DEF RollingBack, Leads
<1>5. daemon = "starting" /\ Starting
  BY <1>1, <1>3, <1>4 DEF DaemonInv, DaemonTypes
<1>6. HttpEnabled \/ HttpOn = PidOn
  BY StartLists
<1>7. Only({"ws", "admin"}) /\ ~HttpEnabled => Only(Servers)
  BY DEF Only, Servers
<1>8. CASE work \in {KeysOn, LocalOn} /\ core = "idle" /\ Only({})
  BY <1>1, <1>2, <1>5, <1>8, StartLists DEF Leads
<1>9. CASE work \in {NetworkOn, UpgradeOn, WsOn} /\ Alive /\ Only({})
  BY <1>1, <1>2, <1>5, <1>9, StartLists DEF Leads
<1>10. CASE work = AdminOn /\ Alive /\ Only({"ws"})
  BY <1>1, <1>2, <1>5, <1>10, StartLists DEF Leads
<1>11. CASE work = HttpOn /\ Alive /\ Only({"ws", "admin"})
  <2>1. CASE HttpEnabled
    BY <1>1, <1>2, <1>5, <1>11, <2>1, StartLists DEF Leads
  <2>2. CASE ~HttpEnabled
    BY <1>1, <1>2, <1>5, <1>7, <1>11, <2>2, StartLists DEF Leads
  <2> QED
    BY <2>1, <2>2
<1>12. CASE work = PidOn /\ Alive /\ Only(Servers)
  BY <1>1, <1>2, <1>5, <1>12, StartLists DEF Leads
<1>13. CASE work = LogOn /\ Alive /\ Only(Servers) /\ pid
  BY <1>1, <1>2, <1>5, <1>13, StartLists DEF Leads
<1> QED
  BY <1>5, <1>8, <1>9, <1>10, <1>11, <1>12, <1>13 DEF Starting

\* Where a rollback or a shutdown is at its next step.
LEMMA WhereDown ==
  ASSUME DaemonInv, NEW p, Doing(Down(p))
  PROVE  /\ p \in {"http", "admin", "ws", "core", "pid", "log"}
         /\ \/ /\ daemon = "error"
               /\ p = "pid" => Tail(work) = HttpOff /\ Alive
               /\ p = "http" => Tail(work) = AdminOff /\ Alive
               /\ p = "admin" => Tail(work) = WsOff /\ Alive /\ Closed({"http"})
               /\ p = "ws" => Tail(work) = CoreOff /\ Alive /\ Closed({"http", "admin"})
               /\ p = "core" => Tail(work) = <<>> /\ Alive /\ Closed(Servers)
               /\ p # "log"
            \/ /\ daemon = "draining"
               /\ p = "http" => Tail(work) = AdminEnd /\ Alive
               /\ p = "admin" => /\ Tail(work) = WsEnd /\ Alive
                                 /\ Closed({"http"}) /\ Clean({"http"})
               /\ p = "ws" => /\ Tail(work) = CoreEnd /\ Alive
                              /\ Closed({"http", "admin"}) /\ Clean({"http", "admin"})
               /\ p = "core" => Tail(work) = PidEnd /\ Alive /\ Closed(Servers) /\ Clean(Servers)
               /\ p \in {"pid", "log"} => /\ Tail(work) = IF p = "pid" THEN LogEnd ELSE <<>>
                                          /\ Closed(Servers) /\ Clean(Servers)
                                          /\ ~errors => core = "stopped"
<1>1. work # <<>> /\ Head(work) = Down(p)
  BY DEF Doing
<1>2. \A q : Up(q) # Down(p) /\ (Down(p) = Down(q) => p = q)
  BY StepFacts
<1>3. daemon # "starting"
  <2> SUFFICES ASSUME Starting PROVE FALSE
    BY DEF DaemonInv
  <2> QED
    BY <1>1, <1>2, StartLists DEF Starting, Leads
<1>4. (daemon = "error" /\ RollingBack) \/ (daemon = "draining" /\ Draining)
  BY <1>1, <1>3 DEF DaemonInv, DaemonTypes
<1>5. ~HttpEnabled => Closed({"http"}) /\ Clean({"http"})
  BY DEF Closed, Clean, Servers
<1>6. CASE daemon = "error" /\ RollingBack
  <2>1. CASE work \in {PidOff, HttpOff} /\ Alive
    <3>1. CASE HttpEnabled
      BY <1>1, <1>2, <1>6, <2>1, <3>1, RollbackLists DEF Leads
    <3>2. CASE ~HttpEnabled
      BY <1>1, <1>2, <1>5, <1>6, <2>1, <3>2, RollbackLists DEF Leads
    <3> QED
      BY <3>1, <3>2
  <2>2. CASE work = AdminOff /\ Alive /\ Closed({"http"})
    BY <1>1, <1>2, <1>6, <2>2, RollbackLists DEF Leads
  <2>3. CASE work = WsOff /\ Alive /\ Closed({"http", "admin"})
    BY <1>1, <1>2, <1>6, <2>3, RollbackLists DEF Leads
  <2>4. CASE work = CoreOff /\ Alive /\ Closed(Servers)
    BY <1>1, <1>2, <1>6, <2>4, RollbackLists DEF Leads
  <2> QED
    BY <1>1, <1>6, <2>1, <2>2, <2>3, <2>4 DEF RollingBack
<1>7. CASE daemon = "draining" /\ Draining
  <2>1. CASE work = HttpEnd /\ Alive
    <3>1. CASE HttpEnabled
      BY <1>1, <1>2, <1>7, <2>1, <3>1, ShutdownLists DEF Leads
    <3>2. CASE ~HttpEnabled
      BY <1>1, <1>2, <1>5, <1>7, <2>1, <3>2, ShutdownLists DEF Leads
    <3> QED
      BY <3>1, <3>2
  <2>2. CASE work = AdminEnd /\ Alive /\ Closed({"http"}) /\ Clean({"http"})
    BY <1>1, <1>2, <1>7, <2>2, ShutdownLists DEF Leads
  <2>3. CASE work = WsEnd /\ Alive /\ Closed({"http", "admin"}) /\ Clean({"http", "admin"})
    BY <1>1, <1>2, <1>7, <2>3, ShutdownLists DEF Leads
  <2>4. CASE work = CoreEnd /\ Alive /\ Closed(Servers) /\ Clean(Servers)
    BY <1>1, <1>2, <1>7, <2>4, ShutdownLists DEF Leads
  <2>5. CASE /\ work \in {PidEnd, LogEnd} /\ Closed(Servers) /\ Clean(Servers)
             /\ ~errors => core = "stopped"
    BY <1>1, <1>2, <1>7, <2>5, ShutdownLists DEF Leads
  <2> QED
    BY <1>7, <2>1, <2>2, <2>3, <2>4, <2>5 DEF Draining
<1> QED
  BY <1>4, <1>6, <1>7

\* A server that listens has a core behind it.
LEMMA ListeningAlive ==
  ASSUME DaemonInv, NEW s \in Servers, Listening(s)
  PROVE  Alive
<1>0. servers[s] = "listening"
  BY DEF Listening
<1>1. ~Only({}) /\ ~Closed(Servers)
  BY <1>0 DEF Only, Closed
<1>2. daemon # "created" /\ daemon # "stopped"
  BY <1>0, <1>1 DEF DaemonInv
<1>3. CASE daemon = "starting"
  BY <1>1, <1>3 DEF DaemonInv, Starting
<1>4. CASE daemon = "running"
  BY <1>4 DEF DaemonInv
<1>5. CASE daemon = "draining"
  BY <1>1, <1>5 DEF DaemonInv, Draining
<1>6. CASE daemon = "error"
  BY <1>1, <1>6 DEF DaemonInv, RollingBack
<1> QED
  BY <1>2, <1>3, <1>4, <1>5, <1>6 DEF DaemonInv, DaemonTypes

-----------------------------------------------------------------------------
(* Every step keeps CoreInv. *)

\* The store is open exactly while the core is not stopped, and only a start
\* changes the core's state from within.
LEMMA TaskStepKeeps ==
  ASSUME CoreInv, NEW t \in Slots, TaskStep(t)
  PROVE  CoreInv' /\ (core' = core \/ (Alive /\ Alive'))
<1>0. CallShape /\ CoreTypeOK /\ StopSeen /\ (Starts(t) => core = "starting" /\ open)
  BY DEF CoreInv, CallShape, Starts, StopSeen
<1>1. CASE ClientReady(t)
  <2>1. CoreInv'
    BY <1>1, ClientReadyKeeps
  <2>2. core' = core \/ (tasks[t].op = "start" /\ core' = "running")
    BY <1>1 DEF ClientReady, Succeeded, NextIdentity
  <2> QED
    BY <1>0, <2>1, <2>2 DEF Alive, Starts
<1>2. CASE OpenStream(t)
  <2>1. CoreInv'
    BY <1>2, OpenStreamKeeps
  <2>2. core' = core \/ (tasks[t].op = "start" /\ core' = "running")
    BY <1>2 DEF OpenStream, Succeeded, NextIdentity
  <2> QED
    BY <1>0, <2>1, <2>2 DEF Alive, Starts
<1>3. CASE StoreClosed(t)
  <2>1. ~Starts(t)
    BY <1>0, <1>3 DEF StoreClosed
  <2> QED
    BY <1>3, <2>1, Ended DEF StoreClosed
<1>4. CASE HydrateFails(t)
  <2>1. CASE tasks[t].op = "register" /\ AbandonRegistration(t)
    BY <2>1, Ended DEF AbandonRegistration, Starts
  <2>2. CASE tasks[t].op = "attach" /\ AbandonAttach(t)
    BY <2>2, Ended DEF AbandonAttach, Starts
  <2>3. CASE tasks[t].op = "start" /\ FailStart(t)
    <3>1. Starts(t)
      BY <2>3 DEF Starts
    <3>2. core' = "local" /\ core = "starting"
      BY <1>0, <2>3, <3>1 DEF FailStart, CallShape
    <3> QED
      BY <2>3, <3>1, <3>2, Failing DEF Alive
  <2> QED
    BY <1>4, <2>1, <2>2, <2>3 DEF HydrateFails, Failed
<1>5. CASE KeyReady(t)
  BY <1>5, Ended DEF KeyReady, Starts
<1>6. CASE KeyFails(t)
  BY <1>6, Ended DEF KeyFails, AbandonRegistration, Starts
<1>7. CASE FilesRemoved(t)
  BY <1>7, Ended DEF FilesRemoved, Starts
<1>8. CASE FilesFail(t)
  BY <1>8, Ended DEF FilesFail, Starts
<1> QED
  BY <1>1, <1>2, <1>3, <1>4, <1>5, <1>6, <1>7, <1>8 DEF TaskStep

LEMMA CoreFrame ==
  ASSUME CoreInv, UNCHANGED coreVars
  PROVE  CoreInv'
BY DEF CoreInv, coreVars, CoreTypeOK, CallShape, StopSeen, Sole, RowsKept, Hydrating, RemovalDown,
       StartDid, BeatsWhileRunning, StreamsMatchRegistry, RemovedIsDown, StopLeavesOnlyCaught,
       Starts, Works, Hydrates, StreamsOf

\* What a process that ends leaves for the next one.
LEMMA GoneKeeps ==
  ASSUME CoreInv, Gone
  PROVE  CoreInv'
<1>0. /\ rows' \in [Ids -> RowStates] /\ core' = "idle" /\ open' = TRUE /\ beats' = FALSE
      /\ registry' = [i \in Ids |-> 0] /\ streams' = {} /\ caught' = {} /\ raced' = {}
      /\ tasks' = [t \in Slots |-> NoTask]
  BY DEF Gone, CoreInv, CoreTypeOK
<1>1. \A t \in Slots : tasks'[t] = NoTask
  BY <1>0
<1>2. CoreTypeOK'
  BY <1>0, <1>1, NoTaskType DEF CoreTypeOK, CoreStates
<1>3. CallShape' /\ StopSeen' /\ BeatsWhileRunning'
  BY <1>0, <1>1, NoTaskType DEF CallShape, Starts, StopSeen, BeatsWhileRunning
<1>4. Sole' /\ RowsKept' /\ Hydrating' /\ RemovalDown' /\ StartDid'
  BY <1>0, <1>1, NoTaskType DEF Sole, RowsKept, Hydrating, RemovalDown, StartDid, Starts, Hydrates,
                                Works, StreamsOf
<1>5. StreamsMatchRegistry' /\ RemovedIsDown' /\ StopLeavesOnlyCaught'
  BY <1>0 DEF StreamsMatchRegistry, RemovedIsDown, StopLeavesOnlyCaught, StreamsOf
<1> QED
  BY <1>2, <1>3, <1>4, <1>5 DEF CoreInv

-----------------------------------------------------------------------------
(* Every step keeps DaemonInv. *)

\* A step of the core alone.
LEMMA CoreMoves ==
  ASSUME DaemonInv, UNCHANGED <<daemon, work, servers, pid, errors, run>>,
         requests' \in 0 .. MaxRequests, core' = core \/ (Alive /\ Alive')
  PROVE  DaemonInv'
<1>1. DaemonTypes'
  BY DEF DaemonInv, DaemonTypes
<1>2. core' = core => DaemonInv'
  BY <1>1 DEF DaemonInv, Starting, RollingBack, Draining, Only, Closed, Clean, Alive, KeysOn, LocalOn,
              NetworkOn, UpgradeOn, WsOn, AdminOn, HttpOn, PidOn, LogOn, PidOff, HttpOff, AdminOff,
              WsOff, CoreOff, HttpEnd, AdminEnd, WsEnd, CoreEnd, PidEnd, LogEnd
<1>3. ASSUME Alive, Alive'
      PROVE  DaemonInv'
  <2>1. \A up : Only(up)' <=> Only(up)
    BY DEF Only
  <2>2. \A down : (Closed(down)' <=> Closed(down)) /\ (Clean(down)' <=> Clean(down))
    BY DEF Closed, Clean
  <2>3. core \notin {"idle", "stopped"} /\ (Alive <=> Alive')
    BY <1>3 DEF Alive
  <2>4. daemon # "created" /\ daemon # "stopped"
    BY <2>3 DEF DaemonInv
  <2>5. daemon = "starting" => Starting'
    BY <1>3, <2>1, <2>3 DEF DaemonInv, Starting
  <2>6. daemon = "error" => RollingBack'
    BY <1>3, <2>2 DEF DaemonInv, RollingBack
  <2>7. daemon = "draining" => Draining'
    <3>1. CASE work \in {PidEnd, LogEnd} /\ Closed(Servers) /\ Clean(Servers) /\ errors
      BY <2>2, <3>1 DEF Draining
    <3> QED
      BY <1>3, <2>2, <2>3, <3>1 DEF DaemonInv, Draining
  <2>8. daemon = "running" => work = <<>> /\ Alive' /\ Only(Servers) /\ pid
    BY <1>3 DEF DaemonInv
  <2> QED
    BY <1>1, <2>1, <2>4, <2>5, <2>6, <2>7, <2>8 DEF DaemonInv
<1> QED
  BY <1>2, <1>3

LEMMA LaunchKeeps ==
  ASSUME DaemonInv, Launch
  PROVE  DaemonInv'
<1>1. daemon = "created" /\ daemon' = "starting" /\ work' = KeysOn /\ run' = run + 1 /\ run < MaxRuns
  BY ListsAre DEF Launch
<1>2. UNCHANGED <<servers, pid, errors, requests, core>>
  BY DEF Launch, coreVars
<1>3. core = "idle" /\ Only({}) /\ DaemonTypes
  BY <1>1 DEF DaemonInv
<1>4. Only({})'
  BY <1>2, <1>3 DEF Only
<1>5. DaemonTypes'
  BY <1>1, <1>2, <1>3, RuntimeBounds DEF DaemonTypes
<1>6. Starting'
  BY <1>1, <1>2, <1>3, <1>4 DEF Starting, KeysOn
<1> QED
  BY <1>1, <1>5, <1>6 DEF DaemonInv

LEMMA GoneIsCreated ==
  ASSUME DaemonInv, Gone
  PROVE  DaemonInv'
<1>1. /\ daemon' = "created" /\ work' = <<>> /\ errors' = FALSE /\ core' = "idle"
      /\ servers' = [s \in Servers |-> "idle"] /\ UNCHANGED <<pid, run, requests>>
  BY DEF Gone
<1>2. Only({})'
  BY <1>1 DEF Only
<1>3. DaemonTypes'
  BY <1>1 DEF DaemonInv, DaemonTypes
<1> QED
  BY <1>1, <1>2, <1>3 DEF DaemonInv

\* start() before the first server.
LEMMA CoreUpKeeps ==
  ASSUME DaemonInv, core' = core \/ (Alive /\ Alive'),
         KeysReady \/ NetworkSettled
  PROVE  DaemonInv'
<1>0. UNCHANGED <<daemon, servers, pid, errors, run, requests, core>> /\ DaemonTypes
  BY DEF KeysReady, NetworkSettled, coreVars, DaemonInv
<1>1. DaemonTypes' /\ (Only({}) => Only({})') /\ (Alive => Alive')
  BY <1>0 DEF DaemonTypes, Only, Alive
<1>2. CASE KeysReady
  <2>1. daemon = "starting" /\ work' = LocalOn /\ core = "idle" /\ Only({})
    BY <1>2, WhereUp DEF KeysReady, Next1
  <2>2. Starting'
    BY <1>0, <1>1, <2>1 DEF Starting, LocalOn
  <2> QED
    BY <1>0, <1>1, <2>1, <2>2 DEF DaemonInv
<1>3. CASE NetworkSettled
  <2>1. daemon = "starting" /\ work' = WsOn /\ Alive /\ Only({})
    BY <1>3, WhereUp DEF NetworkSettled, Next1
  <2>2. Starting'
    BY <1>0, <1>1, <2>1 DEF Starting
  <2> QED
    BY <1>0, <1>1, <2>1, <2>2 DEF DaemonInv
<1> QED
  BY <1>2, <1>3

LEMMA InitializeKeeps ==
  ASSUME DaemonInv, CoreInv, InitializeLocal \/ InitializeNetwork
  PROVE  DaemonInv'
<1>0. UNCHANGED <<daemon, servers, pid, errors, run, requests>> /\ DaemonTypes
  BY DEF InitializeLocal, InitializeNetwork, DaemonInv
<1>1. DaemonTypes' /\ (Only({}) => Only({})')
  BY <1>0 DEF DaemonTypes, Only
<1>2. CASE InitializeLocal
  <2>1. daemon = "starting" /\ work' = NetworkOn /\ Only({}) /\ core' = "local"
    BY <1>2, WhereUp DEF InitializeLocal, Next1, StartLocal
  <2>2. Starting'
    BY <1>0, <1>1, <2>1 DEF Starting, Alive
  <2> QED
    BY <1>0, <1>1, <2>1, <2>2 DEF DaemonInv
<1>3. CASE InitializeNetwork
  <2>1. daemon = "starting" /\ Tail(work) = WsOn /\ Only({})
    BY <1>3, WhereUp DEF InitializeNetwork
  <2>2. work' = UpgradeOn
    BY <1>3, <2>1 DEF InitializeNetwork, UpgradeOn
  <2>3. core' \in {"starting", "running"}
    BY <1>3, StartKeeps DEF InitializeNetwork
  <2>4. Starting'
    BY <1>0, <1>1, <2>1, <2>2, <2>3 DEF Starting, Alive
  <2> QED
    BY <1>0, <1>1, <2>1, <2>4 DEF DaemonInv
<1> QED
  BY <1>2, <1>3

\* start() from the first server on.
LEMMA ServerStartKeeps ==
  ASSUME DaemonInv, NEW s \in Servers, ServerStarts(s)
  PROVE  DaemonInv'
<1>0. /\ UNCHANGED <<daemon, pid, errors, run, requests, core>> /\ DaemonTypes
      /\ servers' = [servers EXCEPT ![s] = "listening"] /\ work' = Tail(work)
  BY DEF ServerStarts, coreVars, DaemonInv, Next1
<1>1. DaemonTypes' /\ (Alive => Alive')
  BY <1>0 DEF DaemonTypes, Alive
<1>2. \A up : Only(up) => Only(up \union {s})'
  BY <1>0 DEF Only, DaemonTypes
<1>3. Doing(Up(s)) /\ s \in {"ws", "admin", "http"}
  BY DEF ServerStarts, Servers
<1>4. CASE s = "ws"
  <2>1. daemon = "starting" /\ work' = AdminOn /\ Alive /\ Only({})
    BY <1>0, <1>3, <1>4, WhereUp
  <2>2. Only({"ws"})'
    <3>1. Only({} \union {"ws"})' /\ {} \union {"ws"} = {"ws"}
      BY <1>2, <1>4, <2>1
    <3> QED
      BY <3>1
  <2>3. Starting'
    BY <1>1, <2>1, <2>2 DEF Starting
  <2> QED
    BY <1>0, <1>1, <2>1, <2>3 DEF DaemonInv
<1>5. CASE s = "admin"
  <2>1. daemon = "starting" /\ work' = HttpOn /\ Alive /\ Only({"ws"})
    BY <1>0, <1>3, <1>5, WhereUp
  <2>2. Only({"ws", "admin"})'
    <3>1. Only({"ws"} \union {"admin"})' /\ {"ws"} \union {"admin"} = {"ws", "admin"}
      BY <1>2, <1>5, <2>1
    <3> QED
      BY <3>1
  <2>3. Starting'
    BY <1>1, <2>1, <2>2 DEF Starting
  <2> QED
    BY <1>0, <1>1, <2>1, <2>3 DEF DaemonInv
<1>6. CASE s = "http"
  <2>1. daemon = "starting" /\ work' = PidOn /\ Alive /\ Only({"ws", "admin"})
    BY <1>0, <1>3, <1>6, WhereUp
  <2>2. Only(Servers)'
    <3>1. Only({"ws", "admin"} \union {"http"})' /\ {"ws", "admin"} \union {"http"} = Servers
      BY <1>2, <1>6, <2>1 DEF Servers
    <3> QED
      BY <3>1
  <2>3. Starting'
    BY <1>1, <2>1, <2>2 DEF Starting
  <2> QED
    BY <1>0, <1>1, <2>1, <2>3 DEF DaemonInv
<1> QED
  BY <1>3, <1>4, <1>5, <1>6

LEMMA StartEndKeeps ==
  ASSUME DaemonInv, PidWritten \/ StartDone
  PROVE  DaemonInv'
<1>0. UNCHANGED <<servers, errors, run, requests, core>> /\ DaemonTypes /\ work' = Tail(work)
  BY DEF PidWritten, StartDone, coreVars, DaemonInv, Next1
<1>1. (Only(Servers) => Only(Servers)') /\ (Alive => Alive')
  BY <1>0 DEF Only, Alive
<1>2. CASE PidWritten
  <2>1. daemon = "starting" /\ work' = LogOn /\ Alive /\ Only(Servers)
    BY <1>0, <1>2, WhereUp DEF PidWritten
  <2>2. daemon' = daemon /\ pid' = TRUE
    BY <1>2 DEF PidWritten
  <2>3. Starting' /\ DaemonTypes'
    BY <1>0, <1>1, <2>1, <2>2 DEF Starting, DaemonTypes
  <2> QED
    BY <2>1, <2>2, <2>3 DEF DaemonInv
<1>3. CASE StartDone
  <2>1. daemon' = "running" /\ work' = <<>> /\ Alive /\ Only(Servers) /\ pid /\ pid' = pid
    BY <1>0, <1>3, WhereUp DEF StartDone
  <2>2. DaemonTypes'
    BY <1>0, <2>1 DEF DaemonTypes
  <2> QED
    BY <1>1, <2>1, <2>2 DEF DaemonInv
<1> QED
  BY <1>2, <1>3

\* A step of start() fails.
LEMMA FailKeeps ==
  ASSUME DaemonInv,
         \/ \E part \in Servers \union {"keys", "pid", "log"} : StepFails(part)
         \/ NetworkAuditFails
  PROVE  DaemonInv'
<1>1. PICK p : /\ p \in {"keys", "upgrade", "ws", "admin", "http", "pid", "log"}
               /\ Doing(Up(p)) /\ daemon' = "error" /\ work' = Undo(p)
               /\ UNCHANGED <<servers, pid, errors, run, requests, core>>
  BY DEF StepFails, NetworkAuditFails, Servers, coreVars
<1>2. DaemonTypes' /\ (Alive => Alive')
  BY <1>1 DEF DaemonInv, DaemonTypes, Alive
<1>3. \A up, down : Only(up) /\ up \intersect down = {} => Closed(down)'
  BY <1>1 DEF Only, Closed
<1>4. CASE p = "keys" \/ p = "upgrade"
  <2>1. work' = <<>> /\ Only({})
    BY <1>1, <1>4, WhereUp, ListsAre
  <2>2. Closed(Servers)'
    <3>1. {} \intersect Servers = {}
      OBVIOUS
    <3> QED
      BY <1>1, <1>3, <2>1, <3>1 DEF Closed, Only
  <2> QED
    BY <1>1, <1>2, <2>1, <2>2 DEF DaemonInv, RollingBack
<1>5. CASE p = "ws"
  <2>1. work' = CoreOff /\ Only({}) /\ Alive
    BY <1>1, <1>5, WhereUp, ListsAre
  <2>2. Closed(Servers)'
    BY <1>1, <2>1 DEF Closed, Only
  <2> QED
    BY <1>1, <1>2, <2>1, <2>2 DEF DaemonInv, RollingBack
<1>6. CASE p = "admin"
  <2>1. work' = WsOff /\ Only({"ws"}) /\ Alive
    BY <1>1, <1>6, WhereUp, ListsAre
  <2>2. Closed({"http", "admin"})'
    BY <1>1, <2>1 DEF Closed, Only
  <2> QED
    BY <1>1, <1>2, <2>1, <2>2 DEF DaemonInv, RollingBack
<1>7. CASE p = "http"
  <2>1. work' = AdminOff /\ Only({"ws", "admin"}) /\ Alive
    BY <1>1, <1>7, WhereUp, ListsAre
  <2>2. Closed({"http"})'
    BY <1>1, <2>1 DEF Closed, Only
  <2> QED
    BY <1>1, <1>2, <2>1, <2>2 DEF DaemonInv, RollingBack
<1>8. CASE p = "pid"
  <2>1. work' = HttpOff /\ Alive
    BY <1>1, <1>8, WhereUp, ListsAre
  <2> QED
    BY <1>1, <1>2, <2>1 DEF DaemonInv, RollingBack
<1>9. CASE p = "log"
  <2>1. work' = PidOff /\ Alive
    BY <1>1, <1>9, WhereUp, ListsAre
  <2> QED
    BY <1>1, <1>2, <2>1 DEF DaemonInv, RollingBack
<1> QED
  BY <1>1, <1>4, <1>5, <1>6, <1>7, <1>8, <1>9

LEMMA ShutdownKeeps ==
  ASSUME DaemonInv, Shutdown
  PROVE  DaemonInv'
<1>1. /\ daemon' = "draining" /\ work' = HttpEnd /\ errors' = FALSE
      /\ UNCHANGED <<servers, pid, run, requests, core>> /\ Alive /\ DaemonTypes
  BY ListsAre DEF Shutdown, DaemonInv, coreVars
<1>2. DaemonTypes' /\ Alive'
  BY <1>1 DEF DaemonTypes, Alive
<1> QED
  BY <1>1, <1>2 DEF DaemonInv, Draining

\* A server is stopped, or its listener is closed and its stop() fails.
LEMMA ServerStopKeeps ==
  ASSUME DaemonInv, NEW s \in Servers, ServerStops(s) \/ ServerStopFails(s)
  PROVE  DaemonInv'
<1>0. /\ UNCHANGED <<daemon, pid, run, requests, core>> /\ DaemonTypes
      /\ work' = Tail(work) /\ Doing(Down(s)) /\ s \in {"ws", "admin", "http"}
      /\ \/ errors' = errors /\ servers' = [servers EXCEPT ![s] = "stopped"]
         \/ errors' = TRUE /\ servers' = [servers EXCEPT ![s] = "stuck"]
  BY DEF ServerStops, ServerStopFails, coreVars, DaemonInv, Next1, Servers
<1>1. DaemonTypes' /\ (Alive => Alive')
  BY <1>0 DEF DaemonTypes, Alive
<1>2. \A down : /\ Closed(down) => Closed(down \union {s})'
                /\ Clean(down) => Clean(down \union {s})'
  BY <1>0 DEF Closed, Clean, DaemonTypes
<1>3. CASE s = "http"
  <2>1. {} \union {s} = {"http"} /\ Closed({}) /\ Clean({})
    BY <1>3 DEF Closed, Clean
  <2>2. Closed({"http"})' /\ Clean({"http"})'
    <3>1. Closed({} \union {s})' /\ Clean({} \union {s})'
      BY <1>2, <2>1
    <3> QED
      BY <2>1, <3>1
  <2>3. \/ daemon = "error" /\ work' = AdminOff /\ Alive
        \/ daemon = "draining" /\ work' = AdminEnd /\ Alive
    BY <1>0, <1>3, WhereDown
  <2>4. (daemon = "error" /\ RollingBack') \/ (daemon = "draining" /\ Draining')
    BY <1>1, <2>2, <2>3 DEF RollingBack, Draining
  <2> QED
    BY <1>0, <1>1, <2>4 DEF DaemonInv
<1>4. CASE s = "admin"
  <2>1. \/ daemon = "error" /\ work' = WsOff /\ Alive /\ Closed({"http"})
        \/ daemon = "draining" /\ work' = WsEnd /\ Alive /\ Closed({"http"}) /\ Clean({"http"})
    BY <1>0, <1>4, WhereDown
  <2>2. {"http"} \union {s} = {"http", "admin"}
    BY <1>4
  <2>3. Closed({"http", "admin"})' /\ (daemon = "draining" => Clean({"http", "admin"})')
    <3>1. Closed({"http"} \union {s})' /\ (daemon = "draining" => Clean({"http"} \union {s})')
      BY <1>2, <2>1
    <3> QED
      BY <2>2, <3>1
  <2>4. (daemon = "error" /\ RollingBack') \/ (daemon = "draining" /\ Draining')
    BY <1>1, <2>1, <2>3 DEF RollingBack, Draining
  <2> QED
    BY <1>0, <1>1, <2>4 DEF DaemonInv
<1>5. CASE s = "ws"
  <2>1. \/ daemon = "error" /\ work' = CoreOff /\ Alive /\ Closed({"http", "admin"})
        \/ /\ daemon = "draining" /\ work' = CoreEnd /\ Alive
           /\ Closed({"http", "admin"}) /\ Clean({"http", "admin"})
    BY <1>0, <1>5, WhereDown
  <2>2. Servers \subseteq {"http", "admin"} \union {s}
    BY <1>5 DEF Servers
  <2>3. Closed(Servers)' /\ (daemon = "draining" => Clean(Servers)')
    <3>1. /\ Closed({"http", "admin"} \union {s})'
          /\ daemon = "draining" => Clean({"http", "admin"} \union {s})'
      BY <1>2, <2>1
    <3> QED
      BY <2>2, <3>1 DEF Closed, Clean
  <2>4. (daemon = "error" /\ RollingBack') \/ (daemon = "draining" /\ Draining')
    BY <1>1, <2>1, <2>3 DEF RollingBack, Draining
  <2> QED
    BY <1>0, <1>1, <2>4 DEF DaemonInv
<1> QED
  BY <1>0, <1>3, <1>4, <1>5

\* The core is stopped, or refuses while a request starts it.
LEMMA CoreStopKeeps ==
  ASSUME DaemonInv, CoreStops \/ CoreStopRefused
  PROVE  DaemonInv'
<1>0. /\ UNCHANGED <<daemon, servers, pid, run, requests>> /\ DaemonTypes
      /\ work' = Tail(work) /\ Doing(Down("core"))
      /\ (core' = "stopped" /\ errors' = errors) \/ errors' = TRUE
  BY DEF CoreStops, CoreStopRefused, Stop, DaemonInv, Next1
<1>1. DaemonTypes'
  BY <1>0 DEF DaemonTypes
<1>2. \/ daemon = "error" /\ work' = <<>> /\ Closed(Servers)
      \/ daemon = "draining" /\ work' = PidEnd /\ Closed(Servers) /\ Clean(Servers)
  BY <1>0, WhereDown
<1>3. Closed(Servers)' /\ (Clean(Servers) => Clean(Servers)')
  BY <1>0, <1>2 DEF Closed, Clean
<1>4. (daemon = "error" /\ RollingBack') \/ (daemon = "draining" /\ Draining')
  BY <1>0, <1>2, <1>3 DEF RollingBack, Draining
<1> QED
  BY <1>0, <1>1, <1>4 DEF DaemonInv

\* The end of a rollback's or a shutdown's list.
LEMMA EndKeeps ==
  ASSUME DaemonInv, PidCleanup \/ ShutdownDone
  PROVE  DaemonInv'
<1>0. /\ UNCHANGED <<servers, errors, run, requests, core>> /\ DaemonTypes /\ work' = Tail(work)
      /\ pid' \in BOOLEAN
  BY DEF PidCleanup, ShutdownDone, coreVars, DaemonInv, DaemonTypes, Next1
<1>1. /\ Closed(Servers)' <=> Closed(Servers)
      /\ Clean(Servers)' <=> Clean(Servers)
      /\ Alive => Alive'
  BY <1>0 DEF Closed, Clean, Alive
<1>2. CASE PidCleanup
  <2>1. Doing(Down("pid")) /\ daemon' = daemon
    BY <1>2 DEF PidCleanup
  <2>2. \/ daemon = "error" /\ work' = HttpOff /\ Alive
        \/ /\ daemon = "draining" /\ work' = LogEnd /\ Closed(Servers) /\ Clean(Servers)
           /\ ~errors => core = "stopped"
    BY <1>0, <2>1, WhereDown
  <2>3. DaemonTypes' /\ ((daemon = "error" /\ RollingBack') \/ (daemon = "draining" /\ Draining'))
    BY <1>0, <1>1, <2>1, <2>2 DEF RollingBack, Draining, DaemonTypes
  <2> QED
    BY <2>1, <2>3 DEF DaemonInv
<1>3. CASE ShutdownDone
  <2>1. /\ Doing(Down("log"))
        /\ daemon' = "error" \/ (daemon' = "stopped" /\ ~errors)
    BY <1>3 DEF ShutdownDone
  <2>2. /\ work' = <<>> /\ Closed(Servers) /\ Clean(Servers) /\ (~errors => core = "stopped")
    BY <1>0, <2>1, WhereDown
  <2>3. DaemonTypes'
    BY <1>0, <2>1 DEF DaemonTypes
  <2>4. daemon' = "error" => RollingBack'
    BY <1>1, <2>2 DEF RollingBack
  <2>5. daemon' = "stopped" => core' = "stopped" /\ \A s \in Servers : servers'[s] = "stopped"
    BY <1>0, <2>1, <2>2 DEF Clean
  <2> QED
    BY <2>1, <2>2, <2>3, <2>4, <2>5 DEF DaemonInv
<1> QED
  BY <1>2, <1>3

\* A request: the servers that pass it on have a core behind them.
LEMMA RequestKeeps ==
  ASSUME CoreInv, DaemonInv, AdminRequest \/ CoreUpgrade
  PROVE  CoreInv' /\ DaemonInv'
<1>0. PICK s \in Servers : Listening(s)
  BY DEF AdminRequest, CoreUpgrade, Servers
<1>1. Alive /\ CoreTypeOK
  BY <1>0, ListeningAlive DEF CoreInv
<1>2. CASE AdminRequest
  <2>1. /\ UNCHANGED <<daemon, work, servers, pid, errors, run>>
        /\ requests' \in 0 .. MaxRequests
    BY <1>2, RuntimeBounds DEF AdminRequest, DaemonInv, DaemonTypes
  <2>2. CASE Register
    <3>1. PICK i \in Ids : /\ rows[i] = "unused" /\ CreateRow(i)
                           /\ Begin(FreeSlot, [NoTask EXCEPT !.op = "register", !.id = i], {i})
      BY <2>2 DEF Register
    <3> DEFINE call == [NoTask EXCEPT !.op = "register", !.id = i]
    <3>2. call \in Tasks /\ call.id = i /\ call.todo = {} /\ call.op = "register"
          /\ call.at = "client"
      BY DEF NoTask, Tasks, Stages, Kinds
    <3> HIDE DEF call
    <3>3. /\ core \in {"local", "running"} /\ HasSlot
          /\ UNCHANGED <<core, open, registry, streams, beats>>
      BY <2>2 DEF Register
    <3>4. Begin(FreeSlot, call, {i})
      BY <3>1 DEF call
    <3>5. CoreInv'
      BY <3>1, <3>2, <3>3, <3>4, Begun
    <3> QED
      BY <2>1, <3>3, <3>5, CoreMoves
  <2>3. ASSUME NEW i \in Ids, Attach(i)
        PROVE  CoreInv' /\ DaemonInv'
    <3> DEFINE call == [NoTask EXCEPT !.op = "attach", !.id = i, !.news = {i} \intersect New]
    <3>2. call \in Tasks /\ call.id = i /\ call.todo = {} /\ call.op = "attach"
          /\ call.at = "client"
      BY DEF NoTask, Tasks, Stages, Kinds
    <3>3. /\ core \in {"local", "running"} /\ HasSlot /\ rows[i] \in Present /\ registry[i] = 0
          /\ UNCHANGED <<core, open, rows, registry, streams, beats>>
          /\ Begin(FreeSlot, call, {i})
      BY <2>3 DEF Attach
    <3> HIDE DEF call
    <3>4. CoreInv'
      BY <3>2, <3>3, Begun
    <3> QED
      BY <2>1, <3>3, <3>4, CoreMoves
  <2>4. ASSUME NEW i \in Ids, RemoveInbox(i)
        PROVE  CoreInv' /\ DaemonInv'
    <3> DEFINE call == [NoTask EXCEPT !.op = "rm", !.id = i, !.at = "files"]
    <3>2. call \in Tasks /\ call.id = i /\ call.todo = {} /\ call.op = "rm" /\ call.at = "files"
      BY DEF NoTask, Tasks, Stages, Kinds
    <3>3. /\ HasSlot /\ rows[i] \in Present /\ Detach(i)
          /\ UNCHANGED <<core, open, rows, beats>>
          /\ Begin(FreeSlot, call, {i})
      BY <2>4 DEF RemoveInbox
    <3> HIDE DEF call
    <3>4. CoreInv'
      BY <1>1, <3>2, <3>3, Begun DEF Alive
    <3> QED
      BY <2>1, <3>3, <3>4, CoreMoves
  <2>5. ASSUME NEW i \in Ids, Purge(i)
        PROVE  CoreInv' /\ DaemonInv'
    <3>1. CoreInv' /\ core' = core
      BY <2>5, PurgeKeeps DEF Purge
    <3> QED
      BY <2>1, <3>1, CoreMoves
  <2> QED
    BY <1>2, <2>2, <2>3, <2>4, <2>5 DEF AdminRequest
<1>3. CASE CoreUpgrade
  <2>1. CoreInv' /\ core' \in {"starting", "running"}
    BY <1>3, StartKeeps DEF CoreUpgrade
  <2>2. UNCHANGED <<daemon, work, servers, pid, errors, run, requests>>
    BY <1>3 DEF CoreUpgrade, runtimeVars
  <2>3. requests' \in 0 .. MaxRequests /\ Alive'
    BY <2>1, <2>2 DEF DaemonInv, DaemonTypes, Alive
  <2> QED
    BY <1>1, <2>1, <2>2, <2>3, CoreMoves
<1> QED
  BY <1>2, <1>3

-----------------------------------------------------------------------------
(* The theorems. *)

LEMMA InitInv == Init => CoreInv /\ DaemonInv
<1> SUFFICES ASSUME Init PROVE CoreInv /\ DaemonInv
  OBVIOUS
<1>1. CoreInv
  <2>1. rows \in [Ids -> RowStates]
    BY DEF Init, CoreInit, RowStates
  <2> QED
    BY <2>1, Emptied DEF Init, CoreInit
<1>2. DaemonInv
  <2>1. daemon = "created" /\ work = <<>> /\ core = "idle" /\ servers = [s \in Servers |-> "idle"]
    BY DEF Init, CoreInit
  <2>2. Only({})
    BY <2>1 DEF Only
  <2>3. DaemonTypes
    <3>1. servers \in [Servers -> {"idle", "listening", "stopped", "stuck"}]
      BY <2>1
    <3>2. run \in 0 .. MaxRuns /\ requests \in 0 .. MaxRequests
      BY RuntimeBounds DEF Init
    <3>3. pid \in BOOLEAN /\ errors \in BOOLEAN
      BY DEF Init
    <3> QED
      BY <2>1, <3>1, <3>2, <3>3 DEF DaemonTypes
  <2> QED
    BY <2>1, <2>2, <2>3 DEF DaemonInv
<1> QED
  BY <1>1, <1>2

LEMMA NextInv ==
  ASSUME CoreInv, DaemonInv, [Next]_vars
  PROVE  CoreInv' /\ DaemonInv'
<1>1. CASE Launch
  BY <1>1, CoreFrame, LaunchKeeps DEF Launch
<1>2. CASE Exit \/ Crash
  BY <1>2, GoneKeeps, GoneIsCreated DEF Exit, Crash
<1>3. CASE Shutdown
  BY <1>3, CoreFrame, ShutdownKeeps DEF Shutdown
<1>4. CASE DaemonStep
  <2>1. CASE KeysReady \/ NetworkSettled
    <3>1. UNCHANGED coreVars
      BY <2>1 DEF KeysReady, NetworkSettled
    <3>2. core' = core
      BY <3>1 DEF coreVars
    <3> QED
      BY <2>1, <3>1, <3>2, CoreFrame, CoreUpKeeps
  <2>2. CASE InitializeLocal
    BY <2>2, StartLocalKeeps, InitializeKeeps DEF InitializeLocal
  <2>3. CASE InitializeNetwork
    BY <2>3, StartKeeps, InitializeKeeps DEF InitializeNetwork
  <2>4. CASE NetworkAuditFails \/ \E part \in Servers \union {"keys", "pid", "log"} : StepFails(part)
    BY <2>4, CoreFrame, FailKeeps DEF NetworkAuditFails, StepFails
  <2>5. CASE PidWritten \/ StartDone
    BY <2>5, CoreFrame, StartEndKeeps DEF PidWritten, StartDone
  <2>6. ASSUME NEW s \in Servers, ServerStarts(s)
        PROVE  CoreInv' /\ DaemonInv'
    BY <2>6, CoreFrame, ServerStartKeeps DEF ServerStarts
  <2>7. ASSUME NEW s \in Servers, ServerStops(s) \/ ServerStopFails(s)
        PROVE  CoreInv' /\ DaemonInv'
    BY <2>7, CoreFrame, ServerStopKeeps DEF ServerStops, ServerStopFails
  <2>8. CASE CoreStops
    BY <2>8, StopKeeps, CoreStopKeeps DEF CoreStops
  <2>9. CASE CoreStopRefused
    BY <2>9, CoreFrame, CoreStopKeeps DEF CoreStopRefused
  <2>10. CASE PidCleanup \/ ShutdownDone
    BY <2>10, CoreFrame, EndKeeps DEF PidCleanup, ShutdownDone
  <2> QED
    BY <1>4, <2>1, <2>2, <2>3, <2>4, <2>5, <2>6, <2>7, <2>8, <2>9, <2>10 DEF DaemonStep
<1>5. CASE AdminRequest \/ CoreUpgrade
  BY <1>5, RequestKeeps
<1>6. CASE CoreStep
  <2>1. PICK t \in Slots : TaskStep(t)
    BY <1>6 DEF CoreStep
  <2>2. UNCHANGED <<daemon, work, servers, pid, errors, run, requests>>
    BY <1>6 DEF CoreStep, runtimeVars
  <2>3. requests' \in 0 .. MaxRequests
    BY <2>2 DEF DaemonInv, DaemonTypes
  <2> QED
    BY <2>1, <2>2, <2>3, TaskStepKeeps, CoreMoves
<1>7. CASE UNCHANGED vars
  <2>1. /\ UNCHANGED coreVars /\ UNCHANGED <<daemon, work, servers, pid, errors, run, requests>>
        /\ core' = core
    BY <1>7 DEF vars, coreVars, runtimeVars
  <2>2. requests' \in 0 .. MaxRequests
    BY <2>1 DEF DaemonInv, DaemonTypes
  <2> QED
    BY <2>1, <2>2, CoreFrame, CoreMoves
<1> QED
  BY <1>1, <1>2, <1>3, <1>4, <1>5, <1>6, <1>7 DEF Next, Terminated

\* Both invariants hold in every reachable state of the daemon: through calls
\* that race, failed steps and their rollback, crashes and restarts.
THEOREM RuntimeInvariant == Spec => [](CoreInv /\ DaemonInv)
<1>1. CoreInv /\ DaemonInv /\ [Next]_vars => CoreInv' /\ DaemonInv'
  BY NextInv
<1> QED
  BY <1>1, InitInv, PTL DEF Spec

\* Streams, registry and rows agree (signet-core.ts, convos-helpers.ts: hydration,
\* detach, inbox.rm and stop()), unless two calls worked on the identity.
THEOREM IdentitiesStayConsistent == Spec => []IdentitiesConsistent
<1>1. CoreInv => IdentitiesConsistent
  BY DEF CoreInv, IdentitiesConsistent
<1> QED
  BY <1>1, RuntimeInvariant, PTL

LEMMA LeadsLen == \A s, step, rest : Leads(s, step, rest) => Len(s) = Len(rest) + 1
BY DEF Leads

LEMMA Lengths ==
  ASSUME NEW h \in 0 .. 1,
         NEW n, n \in {1, 2, 3, 4, 5, 2 + h, 3 + h, 4 + h, 5 + h, 6 + h, 7 + h}
  PROVE  n \in 0 .. 7 + h
<1>1. CASE h = 0
  BY <1>1
<1>2. CASE h = 1
  BY <1>2
<1> QED
  BY <1>1, <1>2

\* The lists are never longer than the one start() began with.
LEMMA WorkIsShort ==
  ASSUME DaemonInv
  PROVE  Len(work) <= Len(StartSteps)
<1>0. Len(<<>>) = 0
  OBVIOUS
<1>h. PICK h \in 0 .. 1 : h = IF HttpEnabled THEN 1 ELSE 0
  OBVIOUS
<1>1. Len(LogOn) = 1 /\ Len(PidOn) = 2 /\ Len(HttpOn) = 2 + h
  <2>1. /\ Len(LogOn) = Len(<<>>) + 1 /\ Len(PidOn) = Len(LogOn) + 1
        /\ HttpEnabled => Len(HttpOn) = Len(PidOn) + 1
        /\ ~HttpEnabled => Len(HttpOn) = Len(PidOn)
    BY StartLists, LeadsLen, Zenon
  <2> QED
    BY <1>0, <1>h, <2>1, RuntimeBounds
<1>2. /\ Len(AdminOn) = 3 + h /\ Len(WsOn) = 4 + h /\ Len(NetworkOn) = 5 + h
      /\ Len(UpgradeOn) = 5 + h /\ Len(LocalOn) = 6 + h /\ Len(KeysOn) = 7 + h
  <2>1. /\ Len(AdminOn) = Len(HttpOn) + 1 /\ Len(WsOn) = Len(AdminOn) + 1
        /\ Len(NetworkOn) = Len(WsOn) + 1 /\ Len(UpgradeOn) = Len(WsOn) + 1
        /\ Len(LocalOn) = Len(NetworkOn) + 1 /\ Len(KeysOn) = Len(LocalOn) + 1
    BY StartLists, LeadsLen, Zenon
  <2> QED
    BY <1>1, <2>1
<1>3. /\ Len(CoreOff) = 1 /\ Len(WsOff) = 2 /\ Len(AdminOff) = 3
      /\ Len(HttpOff) = 3 + h /\ Len(PidOff) = 4 + h
  <2>1. /\ Len(CoreOff) = Len(<<>>) + 1 /\ Len(WsOff) = Len(CoreOff) + 1
        /\ Len(AdminOff) = Len(WsOff) + 1
        /\ HttpEnabled => Len(HttpOff) = Len(AdminOff) + 1
        /\ ~HttpEnabled => Len(HttpOff) = Len(AdminOff)
        /\ Len(PidOff) = Len(HttpOff) + 1
    BY RollbackLists, LeadsLen, Zenon
  <2>2. Len(CoreOff) = 1 /\ Len(WsOff) = 2 /\ Len(AdminOff) = 3
    BY <1>0, <2>1
  <2>3. Len(HttpOff) = 3 + h
    BY <1>h, <2>1, <2>2, RuntimeBounds
  <2> QED
    BY <2>1, <2>2, <2>3
<1>4. /\ Len(LogEnd) = 1 /\ Len(PidEnd) = 2 /\ Len(CoreEnd) = 3 /\ Len(WsEnd) = 4
      /\ Len(AdminEnd) = 5 /\ Len(HttpEnd) = 5 + h
  <2>1. /\ Len(LogEnd) = Len(<<>>) + 1 /\ Len(PidEnd) = Len(LogEnd) + 1
        /\ Len(CoreEnd) = Len(PidEnd) + 1 /\ Len(WsEnd) = Len(CoreEnd) + 1
        /\ Len(AdminEnd) = Len(WsEnd) + 1
        /\ HttpEnabled => Len(HttpEnd) = Len(AdminEnd) + 1
        /\ ~HttpEnabled => Len(HttpEnd) = Len(AdminEnd)
    BY ShutdownLists, LeadsLen, Zenon
  <2> QED
    BY <1>0, <1>h, <2>1, RuntimeBounds
<1>5. \/ work = <<>>
      \/ work \in {KeysOn, LocalOn, NetworkOn, UpgradeOn, WsOn}
      \/ work \in {AdminOn, HttpOn, PidOn, LogOn}
      \/ work \in {PidOff, HttpOff, AdminOff, WsOff, CoreOff}
      \/ work \in {HttpEnd, AdminEnd, WsEnd, CoreEnd, PidEnd, LogEnd}
  BY DEF DaemonInv, DaemonTypes, Starting, RollingBack, Draining
<1>6. Len(work) \in 0 .. 7 + h
  <2>1. CASE work = <<>>
    BY <1>0, <2>1
  <2>2. CASE work \in {KeysOn, LocalOn, NetworkOn, UpgradeOn, WsOn}
    <3>1. Len(work) \in {7 + h, 6 + h, 5 + h, 4 + h}
      BY <1>2, <2>2
    <3> QED
      BY <3>1, Lengths
  <2>3. CASE work \in {AdminOn, HttpOn, PidOn, LogOn}
    <3>1. Len(work) \in {3 + h, 2 + h, 2, 1}
      BY <1>1, <1>2, <2>3
    <3> QED
      BY <3>1, Lengths
  <2>4. CASE work \in {PidOff, HttpOff, AdminOff, WsOff, CoreOff}
    <3>1. Len(work) \in {4 + h, 3 + h, 3, 2, 1}
      BY <1>3, <2>4
    <3> QED
      BY <3>1, Lengths
  <2>5. CASE work \in {HttpEnd, AdminEnd, WsEnd, CoreEnd, PidEnd, LogEnd}
    <3>1. Len(work) \in {5 + h, 5, 4, 3, 2, 1}
      BY <1>4, <2>5
    <3> QED
      BY <3>1, Lengths
  <2> QED
    BY <1>5, <2>1, <2>2, <2>3, <2>4, <2>5
<1>7. Len(StartSteps) = 7 + h
  BY <1>2, ListsAre
<1> QED
  BY <1>h, <1>6, <1>7

\* What the daemon reports is what is up (runtime.ts): a running daemon listens
\* on an open core, a stopped one is down, a failed one accepts nothing, and no
\* server ever outlives the core it passes requests to.
THEOREM DaemonStaysConsistent == Spec => []DaemonConsistent
<1>1. ASSUME CoreInv, DaemonInv
      PROVE  DaemonConsistent
  <2>0. CoreTypeOK /\ StopSeen /\ BeatsWhileRunning
    BY <1>1 DEF CoreInv
  <2>1. RuntimeTypeOK
    BY <1>1, <2>0, WorkIsShort DEF RuntimeTypeOK, DaemonInv, DaemonTypes
  <2>2. RunningIsUp
    BY <1>1, <2>0 DEF RunningIsUp, DaemonInv, Alive, Only, Listening, StopSeen
  <2>3. StoppedIsDown
    BY <1>1, <2>0 DEF StoppedIsDown, DaemonInv, BeatsWhileRunning
  <2>4. FailedIsClosed
    <3> SUFFICES ASSUME daemon = "error", work = <<>>
                 PROVE  Closed(Servers)
      BY DEF FailedIsClosed, Closed, Listening
    <3> QED
      BY <1>1, RollbackLists DEF DaemonInv, RollingBack, Leads
  <2>5. ServersBeforeCore
    BY <1>1, <2>0, ListeningAlive DEF ServersBeforeCore, StopSeen, Alive
  <2> QED
    BY <2>0, <2>1, <2>2, <2>3, <2>4, <2>5 DEF DaemonConsistent
<1> QED
  BY <1>1, RuntimeInvariant, PTL

\* A call that begins takes a free slot, and a step of a call is that call's.
LEMMA OthersGoOn ==
  ASSUME CoreInv, NEW t \in Slots, tasks[t].op # "none",
         \/ AdminRequest
         \/ Start
         \/ \E u \in Slots \ {t} : TaskStep(u)
  PROVE  tasks'[t] = tasks[t]
<1>0. tasks \in [Slots -> Tasks]
  BY DEF CoreInv, CoreTypeOK
<1>1. ASSUME HasSlot, NEW call, tasks' = [tasks EXCEPT ![FreeSlot] = call]
      PROVE  tasks'[t] = tasks[t]
  <2>1. FreeSlot \in Slots /\ FreeSlot # t
    BY <1>1, FreeSlotIsFree DEF Free
  <2> QED
    BY <1>0, <1>1, <2>1
<1>2. CASE AdminRequest
  <2>1. \/ \E i \in Ids : Purge(i)
        \/ HasSlot /\ \E call : tasks' = [tasks EXCEPT ![FreeSlot] = call]
    BY <1>2 DEF AdminRequest, Register, Attach, RemoveInbox, Begin
  <2> QED
    BY <1>1, <2>1 DEF Purge
<1>3. CASE Start
  <2>1. tasks' = tasks \/ (HasSlot /\ \E call : tasks' = [tasks EXCEPT ![FreeSlot] = call])
    BY <1>3 DEF Start, Begin
  <2> QED
    BY <1>1, <2>1
<1>4. ASSUME NEW u \in Slots, u # t, TaskStep(u)
      PROVE  tasks'[t] = tasks[t]
  <2>1. CASE ClientReady(u)
    BY <1>0, <1>4, <2>1 DEF ClientReady, Succeeded, NextIdentity, End
  <2>2. CASE OpenStream(u)
    BY <1>0, <1>4, <2>2 DEF OpenStream, Succeeded, NextIdentity, End
  <2>3. CASE HydrateFails(u)
    BY <1>0, <1>4, <2>3 DEF HydrateFails, Failed, AbandonRegistration, AbandonAttach, FailStart, End
  <2>4. CASE StoreClosed(u) \/ KeyReady(u) \/ KeyFails(u) \/ FilesRemoved(u) \/ FilesFail(u)
    BY <1>0, <1>4, <2>4 DEF StoreClosed, KeyReady, KeyFails, FilesRemoved, FilesFail,
                            AbandonRegistration, End
  <2> QED
    BY <1>4, <2>1, <2>2, <2>3, <2>4 DEF TaskStep
<1> QED
  BY <1>2, <1>3, <1>4

LEMMA FailedCleans ==
  ASSUME CoreInv, [Next]_vars
  PROVE  FailedRegistrationCleans
<1> SUFFICES ASSUME NEW t \in Slots, tasks[t].op = "register", tasks[t].at # "key", open,
                    tasks'[t].op = "none", core' # "idle"
             PROVE  /\ rows'[tasks[t].id] = "removed" /\ registry'[tasks[t].id] = 0
                    /\ \A s \in streams' : s.id # tasks[t].id
  BY DEF FailedRegistrationCleans
<1>0. /\ CoreTypeOK /\ tasks \in [Slots -> Tasks] /\ tasks[t].id \in Ids
      /\ Works(t, tasks[t].id)
  BY DEF CoreInv, CoreTypeOK, Works
<1>1. tasks' # tasks /\ tasks'[t] # tasks[t]
  OBVIOUS
<1>2. ~(AdminRequest \/ Start) /\ ~\E u \in Slots \ {t} : TaskStep(u)
  BY <1>1, OthersGoOn
<1>3. ~Gone
  BY DEF Gone
<1>4. TaskStep(t)
  <2>1. ~DaemonStep
    BY <1>1, <1>2 DEF DaemonStep, KeysReady, InitializeLocal, StartLocal, InitializeNetwork,
       NetworkSettled, NetworkAuditFails, PidWritten, StartDone, ServerStarts, ServerStops,
       ServerStopFails, StepFails, CoreStops, Stop, CoreStopRefused, PidCleanup, ShutdownDone, coreVars
  <2>2. ~Launch /\ ~Exit /\ ~Crash /\ ~Shutdown /\ ~Terminated /\ ~UNCHANGED vars
    BY <1>1, <1>3 DEF Launch, Exit, Crash, Shutdown, Terminated, vars, coreVars
  <2> QED
    BY <1>2, <2>1, <2>2 DEF Next, CoreUpgrade, CoreStep
<1>5. ~ClientReady(t) /\ ~OpenStream(t)
  <2>1. ASSUME NEW at, tasks' = [tasks EXCEPT ![t].at = at]
        PROVE  FALSE
    BY <1>0, <2>1
  <2>2. ~ClientReady(t)
    BY <2>1 DEF ClientReady, Succeeded
  <2>3. ~OpenStream(t)
    <3>1. OpenStream(t) => \E at : tasks' = [tasks EXCEPT ![t].at = at]
      BY DEF OpenStream, Succeeded
    <3> QED
      BY <2>1, <3>1
  <2> QED
    BY <2>2, <2>3
<1>6. AbandonRegistration(t)
  BY <1>4, <1>5 DEF TaskStep, StoreClosed, HydrateFails, Failed, KeyReady, KeyFails, FilesRemoved,
                    FilesFail
<1>7. rows[tasks[t].id] \in Present \union {"removed"}
  BY <1>0 DEF CoreTypeOK, RowStates, RowsKept, CoreInv
<1>8. rows'[tasks[t].id] = "removed"
  BY <1>0, <1>6, <1>7 DEF AbandonRegistration, RemoveRow, CoreTypeOK
<1>9. registry'[tasks[t].id] = 0 /\ \A s \in streams' : s.id # tasks[t].id
  BY <1>0, <1>6 DEF AbandonRegistration, Detach, StreamsOf, CoreTypeOK
<1> QED
  BY <1>8, <1>9

LEMMA StartedHasAll ==
  ASSUME CoreInv, [Next]_vars
  PROVE  RunningHasAll
<1> SUFFICES ASSUME core = "starting", core' = "running", NEW i \in Ids \ raced',
                    rows'[i] \in Present
             PROVE  rows'[i] = "ready" /\ registry'[i] # 0
  BY DEF RunningHasAll
<1>1. PICK t \in Slots : TaskStep(t)
  <2>1. ~DaemonStep
    BY DEF DaemonStep, KeysReady, InitializeLocal, StartLocal, InitializeNetwork,
       NetworkSettled, NetworkAuditFails, PidWritten, StartDone, ServerStarts, ServerStops,
       ServerStopFails, StepFails, CoreStops, Stop, CoreStopRefused, PidCleanup, ShutdownDone, coreVars
  <2>2. ~Launch /\ ~Exit /\ ~Crash /\ ~Shutdown /\ ~Terminated /\ ~UNCHANGED vars
    BY DEF Launch, Exit, Crash, Gone, Shutdown, Terminated, vars, coreVars
  <2>3. ~AdminRequest /\ ~CoreUpgrade
    BY DEF AdminRequest, CoreUpgrade, Register, Attach, RemoveInbox, Purge
  <2> QED
    BY <2>1, <2>2, <2>3 DEF Next, CoreStep
<1>2. CallShape /\ tasks \in [Slots -> Tasks]
  BY DEF CoreInv, CoreTypeOK
<1>3. OpenStream(t) /\ tasks[t].op = "start" /\ tasks[t].todo = {}
  <2>1. ~ClientReady(t)
    BY DEF ClientReady
  <2>2. ~HydrateFails(t)
    BY <1>2 DEF HydrateFails, Failed, AbandonRegistration, AbandonAttach, FailStart, CallShape
  <2>3. OpenStream(t)
    BY <1>1, <2>1, <2>2 DEF TaskStep, StoreClosed, KeyReady, KeyFails, AbandonRegistration,
                            FilesRemoved, FilesFail
  <2> QED
    BY <2>3 DEF OpenStream, Succeeded, NextIdentity
<1>4. UNCHANGED <<rows, registry, raced>> /\ tasks[t].at # "client"
  BY <1>3 DEF OpenStream, Kinds
<1> QED
  BY <1>3, <1>4 DEF StartDid, Starts, CoreInv

\* Neither a failed registration nor a start leaves an identity half done: the
\* first takes its row, its client and its streams with it, and a core that runs
\* has a client for every identity in the store.
THEOREM NothingIsHalfDone == Spec => NothingHalfDone
<1>1. CoreInv /\ [Next]_vars => [FailedRegistrationCleans /\ RunningHasAll]_vars
  BY FailedCleans, StartedHasAll
<1> QED
  BY <1>1, RuntimeInvariant, PTL DEF Spec, NothingHalfDone
=============================================================================
