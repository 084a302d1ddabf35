----------------------------- MODULE SignetCore -----------------------------
(***************************************************************************)
(* The signet core (packages/core/src/signet-core.ts): the lifecycle of    *)
(* the process-wide core, the table of managed identities, the registry of *)
(* connected clients and the message, group and DM streams it opens.       *)
(*                                                                         *)
(* Every method is an async function on one event loop: a step of this     *)
(* module runs from one await that really waits (keys, the XMTP SDK, the   *)
(* file system) to the next.  What was read before an await may be stale   *)
(* after it.  Calls under way occupy a slot of tasks.  The identity store  *)
(* is synchronous SQLite behind async signatures, so its calls belong to   *)
(* the step that makes them; once stop() has closed it they throw.         *)
(***************************************************************************)
EXTENDS Naturals, FiniteSets, FiniteSetsExt

CONSTANTS
    MaxIds,     \* identities that are ever created
    MaxTasks    \* slots for calls under way and for the streams they opened

ASSUME CoreBounds == MaxIds \in Nat \ {0} /\ MaxTasks \in Nat \ {0}

Ids   == 1 .. MaxIds        \* generateId(), in order of creation
Slots == 1 .. MaxTasks

VARIABLES
    core,       \* #state
    open,       \* the identity store is not closed
    rows,       \* [Ids -> row]: "new" has no inbox id yet
    registry,   \* [Ids -> the slot whose call made the managed client, or 0]
    streams,    \* #streams: the streams that run and can still be aborted
    beats,      \* the heartbeat and liveness timers are set
    tasks,      \* [Slots -> the call under way]
    caught,     \* history: slots of the calls that were under way at stop()
    raced       \* history: identities two calls worked on at once, or a purge removed

coreVars == <<core, open, rows, registry, streams, beats, tasks, caught, raced>>

CoreStates == {"idle", "local", "starting", "running", "stopped", "error"}
Present    == {"new", "ready"}
RowStates  == Present \union {"unused", "removed"}
Kinds      == {"message", "group", "dm"}
Stages     == {"client", "key", "files"} \union Kinds

\* todo: identities start() listed and has still to bring up; news: identities
\* that had no inbox id when the call read their row; back: failStart's state.
NoTask == [op |-> "none", id |-> 0, at |-> "client", todo |-> {}, news |-> {},
           back |-> "local"]
Tasks  == [op : {"none", "register", "attach", "start", "rm"}, id : Ids \union {0},
           at : Stages, todo : SUBSET Ids, news : SUBSET Ids, back : {"local", "error"}]

Stream(t, kind) == [id |-> tasks[t].id, kind |-> kind, by |-> t]
StreamsOf(i)    == {s \in streams : s.id = i}

CoreInit ==
    /\ core = "idle" /\ open = TRUE /\ beats = FALSE
    /\ rows = [i \in Ids |-> "unused"]
    /\ registry = [i \in Ids |-> 0]
    /\ streams = {} /\ caught = {} /\ raced = {}
    /\ tasks = [t \in Slots |-> NoTask]

\* A slot whose number no call, client or stream carries any more.
Free(t) == /\ tasks[t].op = "none"
           /\ \A i \in Ids : registry[i] # t
           /\ \A s \in streams : s.by # t
FreeSlot == CHOOSE t \in Slots : Free(t) /\ \A u \in Slots : Free(u) => t <= u
HasSlot  == \E t \in Slots : Free(t)

New         == {i \in Ids : rows[i] = "new"}
Works(t, i) == tasks[t].op # "none" /\ (tasks[t].id = i \/ i \in tasks[t].todo)
Busy(i)     == core = "starting" \/ \E t \in Slots : Works(t, i)
Begin(t, call, is) ==
    /\ tasks' = [tasks EXCEPT ![t] = call]
    /\ caught' = caught \ {t}
    /\ raced' = raced \union {i \in is : Busy(i)}
End(t) == tasks' = [tasks EXCEPT ![t] = NoTask]

-----------------------------------------------------------------------------
(* The store and the timers, and what ends a call.                         *)

StartHeartbeat == beats' = TRUE
StopHeartbeat  == beats' = FALSE

\* identityStore.create, list and remove.  remove throws when the store is
\* closed and reports a missing row.
CreateRow(i) == rows' = [rows EXCEPT ![i] = "new"]
Listed       == {i \in Ids : rows[i] \in Present}
RemoveRow(i) ==
    rows' = IF open /\ rows[i] \in Present THEN [rows EXCEPT ![i] = "removed"] ELSE rows

\* Mutant of Detach: the entry is dropped but the streams keep running.
DetachKeepsStreams(i) ==
    /\ streams' = streams
    /\ registry' = [registry EXCEPT ![i] = 0]

\* detachManagedIdentity: abort the identity's streams, drop its client.
Detach(i) ==
    /\ streams' = streams \ StreamsOf(i)
    /\ registry' = [registry EXCEPT ![i] = 0]

\* Mutant of AbandonRegistration: the row of the failed inbox is kept.
AbandonKeepsRow(t) ==
    /\ Detach(tasks[t].id) /\ End(t)
    /\ UNCHANGED <<core, open, rows, beats, caught, raced>>

\* registerManagedIdentity after a failed hydration or a failed key lookup.
AbandonRegistration(t) ==
    /\ Detach(tasks[t].id) /\ RemoveRow(tasks[t].id) /\ End(t)
    /\ UNCHANGED <<core, open, beats, caught, raced>>

\* attachPersistedIdentity after a failed hydration.
AbandonAttach(t) ==
    /\ Detach(tasks[t].id) /\ End(t)
    /\ UNCHANGED <<core, open, rows, beats, caught, raced>>

\* #resetStartupArtifacts: every stream is aborted, every client dropped.
ResetStartupArtifacts == StopHeartbeat /\ streams' = {} /\ registry' = [i \in Ids |-> 0]

\* failStart: back to the state start() was called in.
FailStart(t) ==
    /\ ResetStartupArtifacts
    /\ core' = tasks[t].back /\ End(t)
    /\ UNCHANGED <<open, rows, caught, raced>>

\* The error return of #hydrateIdentity, in the method that called it.
Failed(t) ==
    \/ tasks[t].op = "register" /\ AbandonRegistration(t)
    \/ tasks[t].op = "attach" /\ AbandonAttach(t)
    \/ tasks[t].op = "start" /\ FailStart(t)

\* start(): the next identity of the list, or heartbeat on and running.
NextIdentity(t) ==
    IF tasks[t].todo = {}
    THEN core' = "running" /\ StartHeartbeat /\ End(t)
    ELSE /\ tasks' = [tasks EXCEPT ![t].id = Min(tasks[t].todo),
                                   ![t].todo = @ \ {Min(@)},
                                   ![t].at = "client"]
         /\ UNCHANGED <<core, beats>>

\* The successful return of #hydrateIdentity, in the method that called it.
Succeeded(t) ==
    \/ /\ tasks[t].op = "register" /\ tasks' = [tasks EXCEPT ![t].at = "key"]
       /\ UNCHANGED <<core, beats>>
    \/ tasks[t].op = "attach" /\ End(t) /\ UNCHANGED <<core, beats>>
    \/ tasks[t].op = "start" /\ NextIdentity(t)

-----------------------------------------------------------------------------
(* Calls.                                                                   *)

StartLocal ==
    /\ core = "idle" /\ core' = "local"
    /\ UNCHANGED <<open, rows, registry, streams, beats, tasks, caught, raced>>

\* registerManagedIdentity: the row is created before the first await.
Register ==
    /\ core \in {"running", "local"} /\ open /\ HasSlot
    /\ \E i \in Ids :
         /\ rows[i] = "unused" /\ \A j \in Ids : j < i => rows[j] # "unused"
         /\ CreateRow(i)
         /\ Begin(FreeSlot, [NoTask EXCEPT !.op = "register", !.id = i], {i})
    /\ UNCHANGED <<core, open, registry, streams, beats>>

\* attachPersistedIdentity; refused, or done at once, otherwise.
Attach(i) ==
    /\ core \in {"running", "local"} /\ rows[i] \in Present /\ HasSlot
    /\ registry[i] = 0
    /\ Begin(FreeSlot, [NoTask EXCEPT !.op = "attach", !.id = i,
                                      !.news = {i} \intersect New], {i})
    /\ UNCHANGED <<core, open, rows, registry, streams, beats>>

\* start(), up to the first await of the first identity.
Start ==
    /\ core \in {"idle", "local"} /\ HasSlot
    /\ LET listed == Listed
           call   == [NoTask EXCEPT !.op = "start",
                                    !.back = IF core = "local" THEN "local" ELSE "error"]
       IN  IF listed = {}
           THEN core' = "running" /\ StartHeartbeat /\ UNCHANGED <<tasks, caught, raced>>
           ELSE /\ core' = "starting"
                /\ Begin(FreeSlot, [call EXCEPT !.id = Min(listed),
                                                !.todo = listed \ {Min(listed)},
                                                !.news = New], listed)
                /\ UNCHANGED beats
    /\ UNCHANGED <<open, rows, registry, streams>>

\* #hydrateIdentity up to the registration: the keys and the client exist, the
\* inbox id is stored for a new identity, and the client is registered.
ClientReady(t) ==
    LET i == tasks[t].id
        store == tasks[t].op = "register" \/ tasks[t].id \in tasks[t].news
    IN /\ tasks[t].op # "none" /\ tasks[t].at = "client"
       /\ store => open /\ rows[i] \in Present
       /\ rows' = IF store THEN [rows EXCEPT ![i] = "ready"] ELSE rows
       /\ registry' = IF core \in {"running", "starting", "local"}
                      THEN [registry EXCEPT ![i] = t] ELSE registry
       /\ IF core \in {"running", "starting"}
          THEN tasks' = [tasks EXCEPT ![t].at = "message"] /\ UNCHANGED <<core, beats>>
          ELSE Succeeded(t)
       /\ UNCHANGED <<open, streams, caught, raced>>

\* setInboxId finds the store closed and throws: no caller cleans up.
StoreClosed(t) ==
    /\ tasks[t].op # "none" /\ tasks[t].at = "client"
    /\ tasks[t].op = "register" \/ tasks[t].id \in tasks[t].news
    /\ ~open
    /\ End(t)
    /\ UNCHANGED <<core, open, rows, registry, streams, beats, caught, raced>>

\* The keys, the client, the stored inbox id (the row is gone), the sync, the
\* list of groups or a stream fails.
HydrateFails(t) ==
    /\ tasks[t].op \in {"register", "attach", "start"}
    /\ tasks[t].at \in {"client"} \union Kinds
    /\ Failed(t)

\* Mutant of AfterKind: the message stream is opened again after the groups.
AfterKindReopens(kind) ==
    CASE kind = "message" -> "group" [] kind = "group" -> "message"

\* The stream opened after this one.
AfterKind(kind) == CASE kind = "message" -> "group" [] kind = "group" -> "dm"

\* streamAllMessages, streamGroups, streamDms: the stream is pushed and its
\* consumer started, whatever has become of the core and the identity.
OpenStream(t) ==
    /\ tasks[t].op # "none" /\ tasks[t].at \in Kinds
    /\ streams' = streams \union {Stream(t, tasks[t].at)}
    /\ IF tasks[t].at = "dm" THEN Succeeded(t)
       ELSE tasks' = [tasks EXCEPT ![t].at = AfterKind(@)] /\ UNCHANGED <<core, beats>>
    /\ UNCHANGED <<open, rows, registry, caught, raced>>

\* registerManagedIdentity: the address is derived from the identity key.
KeyReady(t) ==
    /\ tasks[t].op = "register" /\ tasks[t].at = "key"
    /\ End(t)
    /\ UNCHANGED <<core, open, rows, registry, streams, beats, caught, raced>>

KeyFails(t) ==
    /\ tasks[t].op = "register" /\ tasks[t].at = "key"
    /\ AbandonRegistration(t)

\* stop() has no await: nothing sees the state "stopping".
Stop ==
    /\ core \in {"local", "running", "error"}
    /\ core' = "stopped" /\ StopHeartbeat /\ streams' = {} /\ open' = FALSE
    /\ registry' = [i \in Ids |-> 0]
    /\ caught' = {t \in Slots : tasks[t].op # "none"}
    /\ UNCHANGED <<rows, tasks, raced>>

\* inbox.rm: detach, then the database files, then the row.
RemoveInbox(i) ==
    /\ open /\ rows[i] \in Present /\ HasSlot
    /\ Detach(i)
    /\ Begin(FreeSlot, [NoTask EXCEPT !.op = "rm", !.id = i, !.at = "files"], {i})
    /\ UNCHANGED <<core, open, rows, beats>>

FilesRemoved(t) ==
    /\ tasks[t].op = "rm"
    /\ RemoveRow(tasks[t].id) /\ End(t)
    /\ UNCHANGED <<core, open, registry, streams, beats, caught, raced>>

FilesFail(t) ==
    /\ tasks[t].op = "rm" /\ End(t)
    /\ UNCHANGED <<core, open, rows, registry, streams, beats, caught, raced>>

\* cleanupLocalState of chat.rm and chat.leave: the client is unregistered
\* and the row removed, the streams of the identity are not aborted.  Nothing
\* is promised of the streams it leaves, so it counts as raced in any case.
Purge(i) ==
    /\ open /\ rows[i] \in Present
    /\ registry' = [registry EXCEPT ![i] = 0]
    /\ RemoveRow(i)
    /\ raced' = raced \union {i}
    /\ UNCHANGED <<core, open, streams, beats, tasks, caught>>

TaskStep(t) ==
    \/ ClientReady(t) \/ StoreClosed(t) \/ HydrateFails(t) \/ OpenStream(t)
    \/ KeyReady(t) \/ KeyFails(t) \/ FilesRemoved(t) \/ FilesFail(t)

-----------------------------------------------------------------------------
(* Properties.                                                              *)

\* Every variable has its type, and a call that hydrates works on an identity.
CoreTypeOK ==
    /\ core \in CoreStates /\ open \in BOOLEAN /\ beats \in BOOLEAN
    /\ rows \in [Ids -> RowStates] /\ registry \in [Ids -> Slots \union {0}]
    /\ streams \subseteq [id : Ids, kind : Kinds, by : Slots]
    /\ tasks \in [Slots -> Tasks]
    /\ \A t \in Slots : tasks[t].op # "none" => tasks[t].id \in Ids
    /\ caught \subseteq Slots /\ raced \subseteq Ids

\* The heartbeat and liveness timers are set exactly while the core runs: a
\* failed start, a stop and a second start leave no timer behind.
BeatsWhileRunning == beats = (core = "running")

\* stop() empties the registry for good, and the only streams that can be
\* running afterwards belong to hydrations that were under way when it ran
\* (they do not look at the state again before they open one).
StopLeavesOnlyCaught ==
    core = "stopped" => /\ \A i \in Ids : registry[i] = 0
                        /\ \A s \in streams : s.by \in caught

\* Unless two calls worked on an identity at the same time, or a purge removed
\* it, the streams that run for it are those of its registered client, so no
\* message is emitted twice and none by a client nobody can look up.
StreamsMatchRegistry ==
    \A s \in streams : s.id \in raced \/ s.by \in caught \/ registry[s.id] = s.by

\* Unless it raced, an identity whose row is removed has no client and no
\* stream: neither a failed registration nor inbox.rm leaves one behind.
RemovedIsDown ==
    \A i \in Ids \ raced :
        rows[i] = "removed" => registry[i] = 0 /\ StreamsOf(i) = {}

\* A registration that fails while the store is open (and the process lives)
\* takes its row, its client and its streams with it, also when another call
\* worked on the identity.
FailedRegistrationCleans ==
    \A t \in Slots :
        (/\ tasks[t].op = "register" /\ tasks[t].at # "key" /\ open
         /\ tasks'[t].op = "none" /\ core' # "idle")
        => /\ rows'[tasks[t].id] = "removed" /\ registry'[tasks[t].id] = 0
           /\ \A s \in streams' : s.id # tasks[t].id

\* When start() declares the core running, every identity in the store has its
\* inbox id and a client, those included whose registration a crash cut off.
RunningHasAll ==
    core = "starting" /\ core' = "running" =>
        \A i \in Ids \ raced' :
           rows'[i] \in Present => rows'[i] = "ready" /\ registry'[i] # 0

\* Every call ends (the native calls it awaits settle).
CallsEnd == \A t \in Slots : tasks[t].op # "none" ~> tasks[t].op = "none"
=============================================================================
