# A TLA+ model of xmtp-signet

xmtp-signet is a daemon that owns an XMTP client and lends parts of it to agent
harnesses. This directory specifies the parts of the daemon whose correctness
depends on the order in which things happen, model-checks them with TLC and
proves the central invariants with TLAPS. Every definition is translated from
the TypeScript source; `PROJECT.json` maps each one to its lines.

## 1. The system

Everything the daemon does runs on one JavaScript thread. Two pieces of code
interleave only where one of them awaits, so a *step* of every specification here
is the code between two awaits, and a handler that is suspended is a value in the
state which holds the locals it will use when it resumes. Awaits that are answered
from memory (a credential lookup in the runtime that `start.ts` wires) end before
another external event is handled; awaits on I/O, on a native client or on
cryptography do not.

```
 harness process                 signet daemon
 +-------------+   WebSocket    +-----------+   lookups    +--------------------+
 | SdkHandler  | <============> | WsServer  | -----------> | CredentialManager  |
 +-------------+  frames, auth, +-----------+ <----------- | (service, actions) |
                  requests            ^      onCredential- +--------------------+
                                      |        Mutated       | onCredentialRevoked
                       projected      |                      v
                       raw events  +------+  sendMessage  +-------------+
                                   | core | <------------ | SealManager |
                                   +------+               +-------------+
```

### Inventory

For each part: its state, its operations, what is hard, what correctness means.

| part | state | operations | hard | correct means |
| --- | --- | --- | --- | --- |
| **WebSocket server** (`ws/src`) | connections with phase, cached credential, in-flight requests, send depth; registry; per credential sequence counter and replay buffer; pending invalidations with refcount and generation | open, auth, request, close, drain, heartbeat, broadcast, invalidate, stop | five kinds of handler suspended at lookups, token fingerprint and request handlers; timers; blocked sockets | a resuming harness gets what it is owed once; no event is projected with an outdated policy; one answer per request; stop ends |
| **Replay buffer** (`ws/src/replay-buffer.ts`) | array, head, count | push, itemsSince, oldest, toArray, clear | wrap-around | it is the window of the last *cap* pushes |
| **Harness SDK** (`sdk/src`) | state, socket, timers, reconnection counter, event stream, request tracker | connect, disconnect, frames, close, timeouts, heartbeat monitor | events of an old socket arriving after a new one exists | one live socket; bounded retries; streams lose nothing |
| **Credential manager and service** (`sessions/src`) | records by id, operator, token and policy hash; reveal stores | issue (with eviction and idempotence), sweep, heartbeat, renew, update, revoke | three update paths, four revocation paths, a policy lookup inside issue | permissions never grow, nothing is reactivated, the limit holds, every change is announced |
| **Seal manager** (`seals/src/manager.ts`) | current seal per credential+chat, seals by id, revoked pairs | issue, refresh, revoke | three awaits between check and update; signer and publisher fail | chains are valid and published; revoked is final |
| **Request handler, MCP and HTTP tools, reveals** (`cli/src/ws`, `mcp/src`, `cli/src/http`, `core/src/message-actions.ts`, `policy/src`) | the copy of the credential a request holds; recorded reveals; the core's lazy start | send, reply, read, search, reveal, confirm | the owner edits, suspends or revokes during each await | what is sent and shown was allowed during that request |
| **Operators, policies, inboxes** (`sessions/src`, `core/src/inbox-actions.ts`) | operator and policy records, links, identity rows, mappings, database files | create, link, unlink, update, remove | read, await, write back | removed stays removed; nothing without its row |
| **Conversations** (`core/src/conversation-actions.ts`, purge in `cli/src/start.ts`) | id mappings, membership, scoped credentials, databases | create, list, command, leave, remove with purge | one step of a purge fails; two calls on one chat | ids are stable; a purge leaves nothing |
| **Signet core** (`core/src/signet-core.ts`) | lifecycle state, rows, registry, streams, timers | start, startLocal, stop, register, attach, detach, remove | hydration awaits seven calls during which stop and detach run | streams belong to registered clients; nothing half registered |
| **Daemon runtime** (`cli/src/runtime.ts`, `start.ts`, `daemon/`) | lifecycle, servers, PID file | start with rollback, shutdown, signals, crash, restart | a later part failing while requests arrive | what it reports is what is up; start and shutdown end |
| **Convos onboarding, invite host listener** (`core/src/schemes`, `cli/src/invite-host-*`) | joiner's identity and polls; processed messages, keys in flight, retries, current tag | join, live message, DM scan, retry, key expiry, restart | one request as two messages from two sources | one admission per request, none for a replaced invite; joins end |
| **Admin read elevation** (`cli/src/admin`) | elevation cache, expiry timers, disclosures per chat and session, seal of the chat | resolveForRequest, expire, roll back | timers against renewals, refreshes failing half way | what is readable was approved and is disclosed |
| **Admin channel and commands** (`cli/src/admin`, `cli/src/commands`, `cli/src/http`) | connection, pending request, steps done | mint token, connect, authenticate, request, stop | a daemon that dies with requests pending; commands of many steps | exit status tells the truth; commands end |
| **Keys and vault** (`keys/src`) | secret and its providers, entries, legacy directory; operational and credential keys, enclave gate key; wallets, accounts, API keys | open, get, set, delete, migrate, rotate, stamp, derive, sign | crashes in the middle of writes, two callers, restarts with another provider | nothing is stranded, mixed up or handed out twice; gated is approved |
| **Verifier** (`verifier/src`) | limiter's timestamps, shared self seal | handleRequest, six checks, selfSeal; `seal.verify` | window edges, fetches that fail, concurrent callers | the limit holds; verdicts match what is wrong |
| **SDK adapter, schemas, contracts, configuration** | none of their own | | | |

`PROJECT.json` lists all of them under `components` with their status, and under
`hazards` the places where this code is hard to test, each with the properties that
watch it or the reason none does.

## 2. Modules

| module | models | role |
| --- | --- | --- |
| `ReplayLog` | abstract: the window of the last `Cap` pushes | the abstraction the replay path relies on |
| `ReplayBuffer` | `CircularBuffer` | implements `ReplayLog`; its read loops are recursive functions |
| `WsServer` | `ws/src/server.ts` and its helpers | holds the window itself, as the refinement allows |
| `SdkHandler` | `sdk/src/handler.ts`, event stream, reconnection and request trackers | the other end of the connection |
| `CredentialManager` | `sessions/src/credential-manager.ts` with its callers | decides what a harness may do |
| `Access` | WebSocket request handler, MCP tools, credential routes | what a harness does with it |
| `SealManager` | `seals/src/manager.ts`, `build.ts`, `publisher.ts` | discloses it to the chats |
| `SignetCore` | `core/src/signet-core.ts`, registry, identity store | identities, clients and streams |
| `Runtime` | `cli/src/runtime.ts`, process and signals | composes `SignetCore` with the servers around it (EXTENDS) |
| `Onboarding` | `join.ts` and the invite host listener | two sides of one protocol |
| `ReadElevation` | read elevation, disclosure store, seal input | owner-approved reads |
| `AdminChannel` | admin client, server, dispatcher, commands, HTTP admin routes | how the owner talks to the daemon |
| `Inboxes` | operator and policy managers, inbox actions | who is whose |
| `Chats` | conversation actions, id mappings, purge | conversations on this machine |
| `KeyStore` | vault secret, vault entries, compat store | secrets on disk |
| `KeyRing` | operational and credential keys, stamper, biometric gate | keys in memory |
| `Wallets` | key backend, wallet files, `keys.init` | accounts and API keys |
| `Verifier` | limiter, checks, verdict, self seal | statements about others |
| `MC*` | small instances for TLC | constants, symmetry, and for three runs the choice of a part |
| `WsServerProofs`, `SdkHandlerProofs`, `CredentialManagerProofs`, `SealManagerProofs`, `RuntimeProofs`, `HostProofs`, `RoomsProofs`, `StoresProofs` | theorems | about the modules they extend; the last three follow the parts of the runs `host`, `rooms` and `stores` |

**WsServer.** `conn[c]` is `ws.data` of a socket together with the socket itself:
phase, credential, cached record (`rec`), timers, in-flight requests, send depth.
`store` is the credential manager seen from here: a version that grows with every
mutation and a status. `tasks` holds the handlers suspended at an await (`auth`,
`fingerprint`, `heartbeat`, `request`, `handler`, `refresh`, `invalidate`, `drain`,
`stopping`), each with the lookup result it was given when the lookup was *called*.
A loop that sends to several sockets is atomic in the code; here it is `loop`, which
disables everything else until it is done. `wire[c]` records frames in the order they
were handed to the socket. `resume`, and the two versions in a frame, are history
variables for the properties.

**SdkHandler.** `link[n]` is the state of the n-th socket, `ws` the one the handler
points to; listeners of old sockets stay attached, as in the code. `stream` is the
event queue with its waiter, `timers` the armed reconnection timeouts, `handled` and
`authTimer` the locals of `connectInternal`.

**CredentialManager.** The maps of the manager are one function `byId`, of which byToken
and byOperator are indexes, and the set `reveals` of credentials that hold reveals. The
methods are operators from stores to stores, so that a caller which sweeps, evicts and
issues is one step, as in the code. `mutated` and `notified` are what the last call passed
to the two callbacks.

**SealManager.** A task is an operation under way and the await it is suspended on.
Seals are numbered in the order they are built. `chat` is what members received;
`overlapped` is history.

**Access.** A request holds the copy of the scopes it decided with (`held`) and, as
history, what the store said during its life of the credential's activity and of the one scope
that decides about its kind (`facts`, `ScopeFor`), which is what the property compares its
effects with. The three surfaces differ in what they check again, and when.
A send has two steps after its last check: the network takes the message (`Delivers`), and
the client reports (`SendsOk`, `SendFails`, an error possible in either order). `answer` is
what the caller was told, which may happen before: the request timer of the WebSocket server
fires (`RequestTimesOut`) or the socket closes (`SocketCloses`), neither cancels the handler,
and its own answer is dropped. `WsServer` models the same timer with the frames, sockets and
draining around it, and not what the handler does; `Access` the other way round.

**SignetCore and Runtime.** A slot of `tasks` is a call of the core (register, attach,
start, remove) at its next await; `registry` and `streams` name the slot that opened
them, so a stream of another hydration is told apart from that of the registered client.
`raced` marks identities two calls worked on at once, and those a purge removed while
their streams run on; `caught` the hydrations a stop ran into: for these the code promises
less, and the properties say how much. `Runtime` adds the servers and the sequence of start
and shutdown steps (`work`), crashes, and the next process that finds the rows and the PID
file.

**Onboarding.** A joiner is a join attempt with a new inbox; its request is two messages,
which reach the host on the stream, by a scan of the DM, or both. The host tries its
identities in turn. A key forgotten by its timer and a restart are explicit.

**ReadElevation.** One chat, sessions and requests. A process is a request or a timer
callback at its next await; `entries` is the disclosure store, `shown` the expiry that the
published seal carries.

**AdminChannel.** A command is a plan: steps with the session they belong to and whether
their failure counts. The plans are those of the `xs` commands. The client's end, the
connection and the daemon's end move independently; `DaemonEnds` loses what is in flight.

**Inboxes and Chats.** Calls at their awaits over the records, rows, mappings and files. A
group that was created and whose sync then failed is on the network although its caller was
told of an error.
Histories (`overlapped`, `told`, `unmapped`, `verdicts`) hold what callers were told and
which writes overtook a read.

**KeyStore, KeyRing, Wallets.** A value or key is the number of its generation, an encrypted
entry the secret it was written under. A crash leaves a write undone, done or torn; the next
opening may detect another provider. `excused` and `contested` name the overlaps after which
the code promises nothing.

**Verifier.** A request is the set of parts it brings and the set of their defects, so that
every error path of a check is a defect it finds; verdicts are operators of that set, checked
for every request with up to two defects. The limiter, the two checks that fetch, the
signature and the self seal are actions.

## 3. Runs

| run | checks | instance |
| --- | --- | --- |
| `ws_replay` | ReplayConsistent, ResumeComplete | two sockets of one credential, buffer of 2, four sequence numbers: eviction between disconnect and resume, frames sequenced by the other socket during the fingerprint await |
| `ws_invalidate` | SnapshotsConsistent, SnapshotsSettle | two mutations, so that two invalidations overlap and answer in either order or fail; the second hides the event |
| `ws_requests` | ResponsesSound, RequestsSettle | one request of each kind, slow and failing lookups, blocking socket, stop |
| `sdk_connection` | SocketsConsistent, StreamAndRetries, AuthResolves | five sockets, two attempts, two requests |
| `cred_lifecycle` | CredInv, CredentialsOnlyShrink, MutationsAnnounced | two credentials of one operator with a limit of 1, one scope (allowed, denied, both or neither), four clock values: renewal window, expiry and heartbeat timeout all fall inside |
| `seal_chain` | SealsSound, SerialChain, NothingBegunAfterRevocation | one pair, two inputs, four operations, three at once |
| `daemon` | IdentitiesConsistent, DaemonConsistent, NothingHalfDone, DaemonProgress | two identities, two calls of the core at once, two processes one after the other, two admin requests; deadlock is checked |
| `host` | AcceptancesSound, JoinOutcome, OnboardingEnds (`Onboarding`); ReadsApproved, StoreDiscloses, ElevationEnds (`ReadElevation`); CommandsTruthful, CommandEnds (`AdminChannel`) | one joiner, two host identities, two invites, a retry and a restart; two requests over two sessions with a window of two ticks; two commands and one death of the daemon |
| `stores` | ReadsEverything, ImplementsLog (`ReplayBuffer`); SecretKept, AdminPairMatches, ReadsLastWrite (`KeyStore`); RingSound (`KeyRing`); WalletsSound (`Wallets`); VerifierSound (`Verifier`) | capacity 4 with three items; two callers, three to five calls and one crash, fault or restart in each key store; limit and window of 2 for the limiter |
| `rooms` | InboxesConsistent, RemovedStaysRemoved (`Inboxes`); ConvIdsStable, PurgeLeavesNothing (`Chats`); AccessPermitted (`Access`) | two callers, two operators and inboxes; two identities, two groups and three ids; two requests against two changes of the credential or stops of the core, each with its timer and its socket |
| `seal_revoked` | RevokedHasNoCurrent (violated) | one pair, three operations, two at once |
| `elevation_disclosed` | SealDiscloses (violated) | as in `host` |

**Runs of several parts.** `host`, `stores` and `rooms` check modules that share no state. The
MC module extends them, a variable `part` is chosen in the initial state, and only that part
steps; the states of the run are the sum of the parts' states, not their product. Fairness is
stated for the chosen part.

**Named conjunctions.** Several properties are the conjunction of the facts that are one
promise together, each defined and explained in its module: `ReplayConsistent` (types,
ReplayWindow, NoDuplicateOnWire), `SnapshotsConsistent` (LatestInvalidationIsCurrent,
RefsCountTasks, FreshSends, FreshProjection), `SnapshotsSettle`, `ResponsesSound`, `RequestsSettle`,
`SocketsConsistent`, `CredInv`, `SealsSound`, `DaemonConsistent`, `VerifierSound` and others.

**Bounds.** Every bound is a constant. Credentials, pairs and sockets of different
credentials share no state, so one credential with two sockets, one pair and one operator
are enough for the interactions the code has; the same holds for one chat in `ReadElevation`
and one group in `Onboarding`. Two callers are enough for a read before and a write after
another's write, three operations for a third that sees the outcome. In `rooms` the core
starts local, as with `env` "local" or after a failed network start; a request that finds it
ready comes after the upgrade of the other one (the theorem covers both initial states). `MaxAuth` is 1
because the SDK sends one auth frame per socket; a client that sends two while the first
is suspended would be replayed to twice. Symmetry permutes ids and callers that no
definition distinguishes, in runs without liveness properties. Deadlock is checked in
`daemon`; the other systems may stop (all sockets closed, the clock at its bound, all
calls ended).

**Mutants.** Every property of a passing run has a mutant in `PROJECT.json`: a
plausible slip in one definition under which TLC finds the property violated.

## 4. Fairness

Liveness is stated under `FairSpec` of `WsServer` and `SdkHandler` and the specifications
of `Runtime`, `Onboarding`, `ReadElevation` and `AdminChannel`.

* Armed timers fire (`setTimeout`, `setInterval`): weak fairness of the auth, request,
  heartbeat and drain timers, and of the SDK's auth, request and reconnection timers.
* A socket the code has closed gets its close event.
* A suspended task whose promise settles resumes: weak fairness per kind of task. There
  is **none** for the request handler's own promise, which may never settle: that is
  what the request timer and the drain deadline are for.
* Invalidation lookups get strong fairness: one of several may be chosen each time, and
  each promise settles on its own.
* `Runtime`: the daemon's own sequence and the core's calls go on: the native calls settle.
  No crash, signal or request has to happen.
* `Onboarding`: poll and retry timers fire and calls settle; nothing makes the stream deliver
  a message or a scan find it, so a join may end in failure.
* `ReadElevation`: the clock moves, expiry timers fire, log, prompt and publisher answer.
* `AdminChannel`: a started command and the daemon's handlers go on; a daemon that ended need
  not start again.
* Nothing is assumed of the harness, of broadcasts, mutations, the kernel draining a
  blocked socket, or a sweep of the credential manager, which the code starts only when
  somebody calls it.

## 5. Theorems

All theorems hold for every value of the constants under the `ASSUME`s of the modules: bounds
are natural numbers, the markers `None`, `NoOne`, `NoFile`, `Boot` and the like are none of
the things they stand beside, and the sets whose elements are counted or minimised are finite.
`PROJECT.json` lists the theorems with the property each states. For a component, the
invariant was first model-checked on the run's instance, then proved in three facts (initially,
preserved by every action, implies the property); the step lemmas have one case per action.

**WsServerProofs** (`WsServer`). `TypeInv` types the connections and the locals of every
suspended handler; `SnapInv` counts the references of pending invalidations and orders their
generations. On these rest:
* `ResumesComplete` (ResumeComplete). `ResumeInv` says what an authentication that is suspended
  will still find in the buffer: the window reaches up to the sequence counter, and a harness
  that is not told to resync is owed only what is in it.
* `ReplayIsConsistent` (ReplayConsistent), for `MaxAuth <= 1`, as the SDK behaves. `OnceInv`:
  a connection has at most one authentication under way and none once it has resumed, and the
  numbers it will be sent live lie beyond everything it was sent or is still owed.
* `ResponsesAreSound` (ResponsesSound). `ResponseInv`: what is in
  flight was asked and is not yet answered; a request that awaits its lookup is neither in flight
  nor answered, and is the only one of its id.
* `ReplaysAreLogs`: the replay buffer of each credential is a behaviour of `ReplayLog`, whose
  pushes are the frames numbered for it and whose only clear is `stop()`. With
  `BufferImplementsLog` below, the window `WsServer` reasons with is what the array of the code gives.
* `SendsAreFresh` (FreshSends), for servers wired as `start.ts` does it: lookups answered from
  memory (`~SlowLookups`), whether or not they can fail. `CacheInv`: one lookup is out at a time; an
  active connection with an open socket has cached the stored version unless the invalidation that
  will write it is out; queued events are no newer than the store, and the loop that sends them
  runs when no invalidation is out.
* `SnapshotsAreConsistent` (SnapshotsConsistent), when moreover lookups find every issued record
  (`~MayFail`): then what was kept for replay carries no older projection either (`FramesFresh`).
  Section 6 says what a failing lookup changes.

**SdkHandlerProofs.** `SocketsAgree` (SocketsConsistent) is not inductive in the part that says
one socket is live: a new socket may be opened by connect, by a timer or by a heartbeat death,
and is safe only because in the states that allow it the previous one is finished.
`SocketInv` says which sockets can be unfinished in which state (`SdkInvariant`).
`StreamsAndRetriesHold` (StreamAndRetries) adds `StreamInv` (what was taken and what is queued
is what was pushed, and a reader waits only on an empty queue) and `RetryInv` (at most one
armed timer, and only without a live socket; tries made and armed never exceed the attempt
counter, nor that its limit).

**CredentialManagerProofs.** The invariant is the conjunction of types and dates, the limit and
the reveals of revoked credentials (`CredInvariant`); the method operators are each shown to
preserve it on arbitrary stores, so that the callers compose. `LimitHolds` needs the cardinality
argument of eviction: revoking the oldest of the active credentials makes exactly one place.
`OnlyShrink` (CredentialsOnlyShrink) and `ChangesAreAnnounced` (MutationsAnnounced) are action
properties proved over the same operators: `Follows` (no scope gained, nothing reactivated) and
`Told` (what differs from the stores the call found is in its report) survive each of them.

**SealManagerProofs.** `SealsAreSound` needs, for the chain, that a seal which an operation has
built but not tracked yet points to a tracked predecessor of its own pair, and keeps doing so
whatever other operations track or revoke meanwhile; for publication
(`PublishedInv`), that a task reaches the maps only through the chat (`SealInvariant`).
`SerialChainsHold` (SerialChain) adds `SerialInv`:
a pair whose operations never overlapped has one task at most, built on the head of its chain.
`RevocationStops` (NothingBegunAfterRevocation) is what survives the race of `seal_revoked`.

**RuntimeProofs** (`SignetCore`, `Runtime`). `CoreInv` follows a call of the core from the row it
read to its client and its streams and says what holds at each await, for identities on which
no other call works: until the call has its client nothing streams for the identity, from then
on the registered client is the call's own; a removal has taken the identity down before it
deletes; `start()` has brought up what it has done of its list. `DaemonInv` says, for each list of
steps that `start()`, its rollback or `shutdown()` can still have before it, which servers listen
and whether a core is behind them; the lists themselves are computed in `ListsAre`. From the two
(`RuntimeInvariant`): `IdentitiesStayConsistent`, `DaemonStaysConsistent` and the action property
`NothingIsHalfDone`, for any number of identities, calls, crashes and processes, with or without
a network and an HTTP server.

**HostProofs.**
* `ReadElevation`: `ReadsStayApproved` speaks of the moment of the read; `ElevInvariant` follows an
  elevation from its approval on: a call that holds one, wherever it is suspended, holds one of its
  own session whose window has begun. `StoreAlwaysDiscloses` needs to know (`DiscInv`) that the
  armed timers are exactly those of the cached elevations and that a session whose calls never
  overlapped has one call in flight and nothing in the cache unless the call uses it, and that
  the counter of rollbacks is the number of timer calls that are restoring (`RollInv`).
* `Onboarding`: `AcceptancesAreSound`, `JoinOutcomesHold`. A joiner has one message in flight
  (`TaskInv`), and none that could still add it once its key is processed; the tag the host compares
  with is that of the last invite as long as it was not restarted.
* `AdminChannel`: `CommandsTellTheTruth`. What lies behind a command and is required ran once; the
  step under way has run exactly when its answer is on the way back.

**RoomsProofs.** 
* `Access`: `AccessIsPermitted`. `AccessInv` says what each step of a request has established for
  the next (`Entitled`), that the history of a request contains what the store says now, that before
  its end a request is answered by its timer or by nobody (`Early`), and that a request whose message
  is out is past every step that turns it down (`Committed`). An early answer changes none of this,
  so the checks hold for a handler that runs on after it. Nothing is said of the chat and
  scope of what the MCP tools send.
* `Inboxes`: `InboxesAreConsistent`, `RemovedIsFinal`. `DirInv`: unless calls overlapped, an inbox has one
  operator and a row for whatever exists of it, and what a call holds is current unless it was overtaken.
* `Chats`: `ConvIdsAreStable`, `PurgesLeaveNothing`. `ChatInv`: the mapping of conversation ids agrees
  with what callers were told, and an identity without a row has no client.

**StoresProofs.** The parts of the `stores` run, each with its own invariant.
* `ReplayBuffer`: `RingInvariant` (head, count and the filled slots agree), and from it
  `BufferImplementsLog`: every step of the buffer is a step of `ReplayLog`. The lemmas reduce
  `%` to its two cases, since positions stay below twice the capacity. `ReadsAreExact`
  (ReadsEverything): `itemsSince` returns every item of the window its predicate accepts, as often
  as the window holds it and in its order, and `toArray` the window; `RisingReadsAreTails`: when the
  predicate accepts the end of the window, as `seq > lastSeen` does on rising numbers, the result is
  that end, which is how `ItemsSince` of `WsServer` puts it. The loops are recursive functions;
  what they compute after `n` rounds follows by induction on `n`, which the set
  `{n : the claim holds after n rounds}` and the well-foundedness of `<` on the naturals make a
  first-order argument (`Induction`).
* `KeyStore`: `SecretIsKept`, `AdminPairsMatch` and `ReadsAreLastWrites`, over any number of crashes.
  `SecretInv` follows the secret of the directory through resolution and creation; `PairInv` reads
  the two admin keys through `Held` (the entry or, before its migration, the legacy value) and uses
  that a create runs only while no public key is held; `ReadInv`: a name on which calls do
  not overlap holds what was acknowledged last, or what its only call is about to acknowledge.
* `KeyRing`: `RingIsSound`. One caller at a time creates the gate key, and a signature under way
  knows whether its key was replaced.
* `Wallets`: `WalletsAreSound`. The accounts of a wallet are numbered without gaps; a call that
  read them is the only one changing them unless calls on the wallet overlapped.
* `Verifier`: `VerifierIsSound`. The limiter's list is what was admitted in the last window,
  which bounds every window of time by an argument about sorted sequences; the verdicts of the
  six checks are proved for every set of defects, not only for two.

Model-checked only:
* every liveness property (fairness and ENABLED are out of the prover's reach);
* `FreshProjection`, a part of `SnapshotsConsistent`, with failing lookups and one connection
  (`ws_invalidate`): what is kept for replay then stays fresh only because nobody else is there to
  number a frame;
* that `ItemsSince` of `WsServer` is the filter of the code on rising numbers (the assumption
  `ItemsSinceFilters` of `MCWsServer`), where `SelectSeq` is out of the prover's reach; the same fact
  about the loop of the code is `RisingReadsAreTails`.

## 6. What the runs found

* `seal_revoked`: a refresh or issue that was waiting for its signer or publisher when the
  pair was revoked publishes and tracks a seal afterwards. `RevocationStops` bounds this:
  only operations that had begun.
* `elevation_disclosed`: granting an admin session read access refreshes the seals of the
  chat, but a refresh rebuilds a seal from the input it was issued with, so the published seal
  does not disclose the access until the next issue.

Differences between code and docs or comments that the modules reproduce and the properties
leave room for:

* The docs say that scopes are enforced "before any harness action executes"
  (`docs/concepts.md:20`) and that a harness gains "nothing beyond the current credential's
  scope" (`docs/security.md:336`). The MCP tools `message.send`, `reply`, `react` and `read`
  check that the credential is active, and neither its chats nor its scopes
  (`core/src/message-actions.ts:195-220`, `450-630`). `AccessPermitted` therefore claims chat and scope
  of a sent message for the WebSocket only; of the tools it claims an active credential, and
  chat and scope of what they read.
* "If the agent has a message in transit when revocation hits, it is dropped"
  (`docs/security.md:437-442`). The request handler looks the credential up a last time after
  the core became ready (`cli/src/ws/request-handler.ts:135-149`) and then sends: a revocation during the
  awaits of `sendMessage` does not stop the message, and an MCP call does not look again
  after its check at the start. Nor does a revocation "cancel in-flight" requests
  (`docs/security.md:432-433`): the socket is closed and the handler runs on. `AccessPermitted`
  promises that the credential was active after the core became ready, not when the message went out.
* A caller told "Request timed out" may have its message sent all the same, at any time
  later: the timer (`ws/src/server.ts:431-447`) does not cancel the handler, and its "ok" is dropped
  (475-478). The request has no key by which a retry would be recognised, so a harness that
  sends again may send twice. The same holds for an error of the client.
* Frames broadcast while the auth handler awaits the token fingerprint reach the wire before
  the replayed ones (`ws/src/server.ts:328`): nothing is lost or duplicated, but the order on
  the wire is not that of the sequence numbers, and the SDK takes the last frame's number as
  its resume point.
* `disconnect()` during a connection attempt is undone by the close event of the socket it
  closed (`sdk/src/handler.ts:365`), and a handler closed by an auth failure or timeout does
  not end its event stream (`handler.ts:263`).
* An expired credential can still become revoked, and a revoked one expired
  (`sessions/src/credential-manager.ts:452`). Expiry is noticed only when somebody issues,
  lists or looks up: there is no timer.
* Deleting a wallet leaves the copies of its mnemonic that API keys hold; they no longer sign
  (`WalletsSound`), but they stay on disk.
* A request on a socket the admin client already knows to be lost is never answered:
  `CommandEnds` excepts the optional steps of `chat create`, the only ones that can make it.
* An envelope whose key is rotated during its signature names the new key (`RingSound`).
* Two derivations on one wallet at the same time can get one index (`WalletsSound` excepts
  wallets with overlapping calls), and hydrations that a stop or a second call ran into can
  leave streams behind (`IdentitiesConsistent`). So does a purge, which unregisters a client
  without aborting its streams (`SignetCore`'s `Purge`).
* Links, rows and operators agree unless a call wrote over what another had changed since it
  read (`InboxesConsistent` excepts it, by `overlapped`); that such a write brings nothing
  removed back is `RemovedStaysRemoved`.
* The verifier announces the tier `source-verified`, but `build_provenance` never passes, so
  no statement of the default service is `verified` or carries a tier above `unverified`
  (`VerifierSound`).

`FreshProjection` holds because `start.ts` answers lookups from memory. With lookups that
take time (`SlowLookups` TRUE) it does not, nor does `FreshSends`: only `invalidateCredential` checks a generation,
the other paths that write the cached record do not. The proof showed a second limit. When the
lookup of an invalidation fails the server closes the connection, which then stays active with its
old record until the close event arrives; a broadcast before that is projected with the old
record, numbered into the replay buffer, and replayed to a connection that resumes later. It needs
a failing lookup and a second connection, and depends on when Bun delivers the close event of
`ws.close`, which is outside this code. `SendsAreFresh` shows that this is the only way: with failing lookups
still no event is handed to an open socket with an older projection. The credential manager never deletes an issued record, so
in the wiring of `start.ts` the lookup does not fail.

The proof of the limiter showed that the branches of three checks of `Verifier` overlapped as they
were first written; they are tried in the order of the code now.

## 7. Not modelled

* Cryptography, key derivation and the BIP-39 word list, DER and base64: a signature is the key
  it was made with, a document the defects a check can find in it.
* Encodings, schemas and validators, the text of errors, output formats, argument parsing,
  configuration and its defaults.
* The native XMTP client, a source of answers, events and failures, and of the adapter around
  it everything but the calls that change memberships (`Chats`); consent and lookup actions,
  which keep nothing.
* Logging, the audit trail, status reports, health routes.
* Code that the runtime does not use: `detectMode` and `createDirectClient`, seal republishing
  and message binding; the identity init command and `members --watch`, which only print.
  Nothing in the daemon adds a pending action, and the command line does not start the MCP
  server; its tools are in `Access` as an embedding would run them.
* In `KeyStore`, a write that reports an error after its bytes are on disk: a write is complete,
  refused, or torn by a crash.
* A lost daemon as a resuming harness sees it: sequence numbers start again and the protocol
  has no epoch to notice it by, so there is no promise to check.

Event payloads are model values, a policy is the set of events it lets through, and
latency is the absence of an ordering.

## 8. Plan

1. `Session`: `WsServer` composed with `SdkHandler` over a lossy connection; delivery of every
   sequenced frame or an announced gap.
2. Composition of `CredentialManager` with `SealManager` for revocations published in the
   background (`start.ts:284`).
3. Proofs: `FreshProjection` with failing lookups for one connection per credential.
4. Pure algorithms against reference definitions: reveal matching in its five granularities,
   seal delta.
