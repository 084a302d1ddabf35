------------------------------- MODULE Inboxes -------------------------------
(***************************************************************************)
(* Operators, policies and managed inboxes: the in-memory managers         *)
(* (sessions/src/operator-manager.ts, policy-manager.ts) and the inbox     *)
(* actions (core/src/inbox-actions.ts) that link inboxes to operators.     *)
(* A handler gives up the event loop at every await, so calls pipelined on *)
(* one admin socket interleave between their steps.  What core does to     *)
(* register or detach an inbox is one step here (SignetCore has its        *)
(* interior).                                                              *)
(***************************************************************************)
EXTENDS Naturals, FiniteSets

CONSTANTS
    DirCallers,    \* calls under way at once
    OperatorIds,   \* ids createResourceId("operator") may return
    PolicyIds,     \* ids createResourceId("policy") may return
    InboxIds,      \* ids of the identities that may be registered
    MaxDirOps,     \* bound on the calls begun
    MaxDirStops    \* bound on restarts

ASSUME DirBounds == MaxDirOps \in Nat /\ MaxDirStops \in Nat

VARIABLES
    operators,   \* [OperatorIds -> [status, inboxIds]]
    policies,    \* [PolicyIds -> "none", "active" or "removed"]
    rows,        \* identity rows, by id
    idMapped,    \* inboxes with a row in id_mappings
    dbFiles,     \* inboxes whose XMTP database is on disk
    managed,     \* inboxes with a managed client
    dirCall,     \* [DirCallers -> the call under way]
    dirOps, dirStops,
    everInbox,   \* history: inboxes ever registered
    overlapped   \* history: a write by a call that another's write had overtaken

dirVars == <<operators, policies, rows, idMapped, dbFiles, managed, dirCall, dirOps, dirStops,
             everInbox, overlapped>>

NoOne      == "none"
ASSUME DirIds == NoOne \notin OperatorIds
Unborn     == [status |-> "none", inboxIds |-> {}]
DirIdle    == [at |-> "idle", op |-> "none", inbox |-> NoOne, target |-> NoOne, ids |-> {},
               old |-> Unborn, execute |-> FALSE, mapping |-> FALSE, overtaken |-> FALSE]

InboxesInit ==
    /\ operators = [o \in OperatorIds |-> Unborn]
    /\ policies = [p \in PolicyIds |-> "none"]
    /\ rows = {} /\ idMapped = {} /\ dbFiles = {} /\ managed = {}
    /\ dirCall = [c \in DirCallers |-> DirIdle]
    /\ dirOps = 0 /\ dirStops = 0
    /\ everInbox = {} /\ overlapped = FALSE

-----------------------------------------------------------------------------
(* Calls.                                                                   *)

CallAt(c, step)  == dirCall[c].at = step
Continue(c, r)   == dirCall' = [dirCall EXCEPT ![c] = r] /\ UNCHANGED overlapped
Answer(c)        == Continue(c, DirIdle)

\* A step of c that writes: calls under way hold what they read before it, and
\* the history notes when c itself had been overtaken that way.
WriteThen(c, r) ==
    /\ dirCall' = [d \in DirCallers |->
           IF d = c THEN r
           ELSE IF dirCall[d] = DirIdle THEN DirIdle
           ELSE [dirCall[d] EXCEPT !.overtaken = TRUE]]
    /\ overlapped' = (overlapped \/ dirCall[c].overtaken)

MayBegin(c) == dirCall[c] = DirIdle /\ dirOps < MaxDirOps /\ dirOps' = dirOps + 1

Active(o) == operators[o].status = "active"

\* resolveOperator of the inbox actions: a removed operator is not found.
ResolvesActive(o) == o \in OperatorIds /\ Active(o)

\* buildInboxLinkMap: fails when two listed operators hold the same inbox.
LinkedTo(i)   == {o \in OperatorIds : Active(o) /\ i \in operators[o].inboxIds}
MapBuilds     == \A i \in InboxIds : Cardinality(LinkedTo(i)) <= 1
OperatorOf(i) == IF LinkedTo(i) = {} THEN NoOne ELSE CHOOSE o \in LinkedTo(i) : TRUE

-----------------------------------------------------------------------------
(* operator.create, info, update and remove; policy.create, info, update    *)
(* and remove.                                                              *)

CreateOperator(o) ==
    /\ operators[o].status = "none" /\ dirOps < MaxDirOps
    /\ operators' = [operators EXCEPT ![o] = [status |-> "active", inboxIds |-> {}]]
    /\ dirOps' = dirOps + 1
    /\ UNCHANGED <<policies, rows, idMapped, dbFiles, managed, dirCall, dirStops, everInbox,
                   overlapped>>

\* resolveOperatorId takes an id as it is and a label only if exactly one listed
\* operator carries it: either way the call goes on with an id.
BeginOperator(c, op, o) ==
    /\ MayBegin(c)
    /\ Continue(c, [DirIdle EXCEPT !.at = op, !.op = op, !.target = o])
    /\ UNCHANGED <<operators, policies, rows, idMapped, dbFiles, managed, dirStops, everInbox>>

\* update: the changes (a label, scopes, or inboxIds) are merged into the record as
\* it is now; inboxIds are taken as given, without the checks of inbox.link.
UpdateOperator(c, given) ==
    /\ CallAt(c, "opupdate")
    /\ LET o   == dirCall[c].target
           ids == IF given THEN InboxIds ELSE operators[o].inboxIds IN
       IF operators[o].status = "none" THEN Answer(c) /\ UNCHANGED operators
       ELSE /\ operators' = [operators EXCEPT ![o].inboxIds = ids]
            /\ dirCall' = [dirCall EXCEPT ![c] = DirIdle]
            /\ overlapped' = (overlapped \/ ids # operators[o].inboxIds)
    /\ UNCHANGED <<policies, rows, idMapped, dbFiles, managed, dirOps, dirStops, everInbox>>

\* remove keeps the record it finds while the credentials are revoked ...
RemoveOperator(c) ==
    /\ CallAt(c, "opremove")
    /\ LET o == dirCall[c].target IN
       IF operators[o].status = "none" THEN Answer(c)
       ELSE Continue(c, [dirCall[c] EXCEPT !.at = "opremoved", !.old = operators[o]])
    /\ UNCHANGED <<operators, policies, rows, idMapped, dbFiles, managed, dirOps, dirStops,
                   everInbox>>

MarkRemoved(r) == [r EXCEPT !.status = "removed"]

\* ... and stores it, marked, over whatever was written meanwhile.
OperatorRemoved(c) ==
    /\ CallAt(c, "opremoved")
    /\ operators' = [operators EXCEPT ![dirCall[c].target] = MarkRemoved(dirCall[c].old)]
    /\ WriteThen(c, DirIdle)
    /\ UNCHANGED <<policies, rows, idMapped, dbFiles, managed, dirOps, dirStops, everInbox>>

OperatorInfo(c) ==
    /\ CallAt(c, "opinfo")
    /\ Answer(c)
    /\ UNCHANGED <<operators, policies, rows, idMapped, dbFiles, managed, dirOps, dirStops,
                   everInbox>>

CreatePolicy(p) ==
    /\ policies[p] = "none" /\ dirOps < MaxDirOps
    /\ policies' = [policies EXCEPT ![p] = "active"]
    /\ dirOps' = dirOps + 1
    /\ UNCHANGED <<operators, rows, idMapped, dbFiles, managed, dirCall, dirStops, everInbox,
                   overlapped>>

BeginPolicy(c, op, p) ==
    /\ MayBegin(c)
    /\ Continue(c, [DirIdle EXCEPT !.at = op, !.op = op, !.target = p])
    /\ UNCHANGED <<operators, policies, rows, idMapped, dbFiles, managed, dirStops, everInbox>>

\* Mutant of PolicyThere: update makes the record it does not find.
PolicyThereOrNot(p) == TRUE

PolicyThere(p) == policies[p] = "active"

\* update needs the record, remove deletes it from the map.
PolicyStep(c) ==
    /\ dirCall[c].at \in {"polinfo", "polupdate", "polremove"}
    /\ LET p == dirCall[c].target IN
       policies' = IF ~PolicyThere(p) \/ CallAt(c, "polinfo") THEN policies
                   ELSE [policies EXCEPT ![p] =
                             IF CallAt(c, "polupdate") THEN "active" ELSE "removed"]
    /\ Answer(c)
    /\ UNCHANGED <<operators, rows, idMapped, dbFiles, managed, dirOps, dirStops, everInbox>>

-----------------------------------------------------------------------------
(* inbox.create, link, unlink, info and rm.                                 *)

\* inbox.create resolves the operator first, then registers.
CreateInbox(c, i, o) ==
    /\ MayBegin(c) /\ i \notin everInbox
    /\ o = NoOne \/ ResolvesActive(o)
    /\ everInbox' = everInbox \union {i}
    /\ Continue(c, [DirIdle EXCEPT !.at = "register", !.op = "create", !.inbox = i, !.target = o])
    /\ UNCHANGED <<operators, policies, rows, idMapped, dbFiles, managed, dirStops>>

\* registerInbox: the row, the database and the client, or a failure without them.
Registered(c) ==
    /\ CallAt(c, "register")
    /\ LET i == dirCall[c].inbox IN
       \/ /\ rows' = rows \union {i} /\ dbFiles' = dbFiles \union {i}
          /\ managed' = managed \union {i}
          /\ WriteThen(c, [dirCall[c] EXCEPT !.at = "map"])
       \/ Answer(c) /\ UNCHANGED <<rows, dbFiles, managed>>
    /\ UNCHANGED <<operators, policies, idMapped, dirOps, dirStops, everInbox>>

\* The mapping is stored; linking starts with a second look at the operator, and
\* when that or a later step of it fails the inbox stays, unlinked.
MapInbox(c) ==
    /\ CallAt(c, "map")
    /\ idMapped' = idMapped \union {dirCall[c].inbox}
    /\ LET o == dirCall[c].target IN
       WriteThen(c, IF o = NoOne \/ ~ResolvesActive(o) THEN DirIdle
                    ELSE [dirCall[c] EXCEPT !.at = "linkmap"])
    /\ UNCHANGED <<operators, policies, rows, dbFiles, managed, dirOps, dirStops, everInbox>>

\* inbox.link, unlink, info and rm begin with resolveInbox.
BeginInbox(c, op, i, o, execute) ==
    /\ MayBegin(c) /\ i \in rows
    /\ Continue(c, [DirIdle EXCEPT !.at = CASE op = "link" -> "resolve" [] op = "unlink" -> "unlinkmap"
                                            [] OTHER -> op,
                        !.op = op, !.inbox = i, !.target = o, !.execute = execute])
    /\ UNCHANGED <<operators, policies, rows, idMapped, dbFiles, managed, dirStops, everInbox>>

ResolveForLink(c) ==
    /\ CallAt(c, "resolve")
    /\ IF ResolvesActive(dirCall[c].target)
       THEN Continue(c, [dirCall[c] EXCEPT !.at = "linkmap"]) ELSE Answer(c)
    /\ UNCHANGED <<operators, policies, rows, idMapped, dbFiles, managed, dirOps, dirStops,
                   everInbox>>

\* Mutant of LinkAllowed: the inbox may be somebody else's.
LinkAllowedAlways(i, o) == MapBuilds

LinkAllowed(i, o) == MapBuilds /\ OperatorOf(i) \in {NoOne, o}

LinkMap(c) ==
    /\ CallAt(c, "linkmap")
    /\ IF LinkAllowed(dirCall[c].inbox, dirCall[c].target)
       THEN Continue(c, [dirCall[c] EXCEPT !.at = "linklookup"]) ELSE Answer(c)
    /\ UNCHANGED <<operators, policies, rows, idMapped, dbFiles, managed, dirOps, dirStops,
                   everInbox>>

\* lookup also returns a removed operator.
LinkLookup(c) ==
    /\ CallAt(c, "linklookup")
    /\ Continue(c, [dirCall[c] EXCEPT !.at = "setids",
                        !.ids = operators[dirCall[c].target].inboxIds \union {dirCall[c].inbox}])
    /\ UNCHANGED <<operators, policies, rows, idMapped, dbFiles, managed, dirOps, dirStops,
                   everInbox>>

\* unlinkInboxFromOperator, on its own or inside inbox.rm.
UnlinkMap(c) ==
    /\ CallAt(c, "unlinkmap")
    /\ LET o == OperatorOf(dirCall[c].inbox) IN
       IF ~MapBuilds THEN Answer(c)
       ELSE IF o # NoOne
            THEN Continue(c, [dirCall[c] EXCEPT !.at = "unlinklookup", !.target = o])
            ELSE IF dirCall[c].op = "rm" THEN Continue(c, [dirCall[c] EXCEPT !.at = "unmap"])
            ELSE Answer(c)
    /\ UNCHANGED <<operators, policies, rows, idMapped, dbFiles, managed, dirOps, dirStops,
                   everInbox>>

UnlinkLookup(c) ==
    /\ CallAt(c, "unlinklookup")
    /\ Continue(c, [dirCall[c] EXCEPT !.at = "setids",
                        !.ids = operators[dirCall[c].target].inboxIds \ {dirCall[c].inbox}])
    /\ UNCHANGED <<operators, policies, rows, idMapped, dbFiles, managed, dirOps, dirStops,
                   everInbox>>

\* operatorManager.update with the set computed from the lookup.
SetInboxIds(c) ==
    /\ CallAt(c, "setids")
    /\ operators' = [operators EXCEPT ![dirCall[c].target].inboxIds = dirCall[c].ids]
    /\ WriteThen(c, IF dirCall[c].op = "rm" THEN [dirCall[c] EXCEPT !.at = "unmap"] ELSE DirIdle)
    /\ UNCHANGED <<policies, rows, idMapped, dbFiles, managed, dirOps, dirStops, everInbox>>

\* inbox.info answers from the link map; inbox.rm looks at it too, and reports
\* what it would do unless execute is set.
ReadLinks(c) ==
    /\ dirCall[c].at \in {"info", "rm"}
    /\ IF CallAt(c, "info") \/ ~MapBuilds \/ ~dirCall[c].execute THEN Answer(c)
       ELSE Continue(c, [dirCall[c] EXCEPT !.at = "detach",
                             !.mapping = dirCall[c].inbox \in idMapped])
    /\ UNCHANGED <<operators, policies, rows, idMapped, dbFiles, managed, dirOps, dirStops,
                   everInbox>>

\* cleanupInbox: detachManagedIdentity, then the database files.
DetachInbox(c) ==
    /\ CallAt(c, "detach")
    /\ \/ /\ managed' = managed \ {dirCall[c].inbox}
          /\ Continue(c, [dirCall[c] EXCEPT !.at = "unfile"])
       \/ Answer(c) /\ UNCHANGED managed
    /\ UNCHANGED <<operators, policies, rows, idMapped, dbFiles, dirOps, dirStops, everInbox>>

DeleteFiles(c) ==
    /\ CallAt(c, "unfile")
    /\ \/ /\ dbFiles' = dbFiles \ {dirCall[c].inbox}
          /\ Continue(c, [dirCall[c] EXCEPT !.at = "unlinkmap"])
       \/ Answer(c) /\ UNCHANGED dbFiles
    /\ UNCHANGED <<operators, policies, rows, idMapped, managed, dirOps, dirStops, everInbox>>

\* The mapping goes, then the row; a row that is gone already is an error.
\* The mapping that create has not stored yet is not seen.
RemoveMapping(c) ==
    /\ CallAt(c, "unmap")
    /\ idMapped' = IF dirCall[c].mapping THEN idMapped \ {dirCall[c].inbox} ELSE idMapped
    /\ Continue(c, [dirCall[c] EXCEPT !.at = "unrow"])
    /\ UNCHANGED <<operators, policies, rows, dbFiles, managed, dirOps, dirStops, everInbox>>

RemoveInboxRow(c) ==
    /\ CallAt(c, "unrow")
    /\ rows' = rows \ {dirCall[c].inbox}
    /\ WriteThen(c, DirIdle)
    /\ UNCHANGED <<operators, policies, idMapped, dbFiles, managed, dirOps, dirStops, everInbox>>

\* Operators and policies are only in memory; the clients are rebuilt from the
\* rows, whose databases are opened or created again.
RestartDirectory ==
    /\ dirStops < MaxDirStops
    /\ dirStops' = dirStops + 1
    /\ operators' = [o \in OperatorIds |-> [operators[o] EXCEPT !.status =
                         IF operators[o].status = "none" THEN "none" ELSE "removed"]]
    /\ policies' = [p \in PolicyIds |-> IF policies[p] = "none" THEN "none" ELSE "removed"]
    /\ managed' = rows /\ dbFiles' = dbFiles \union rows
    /\ dirCall' = [c \in DirCallers |-> DirIdle]
    /\ UNCHANGED <<rows, idMapped, dirOps, everInbox, overlapped>>

InboxStep(c) ==
    \/ Registered(c) \/ MapInbox(c) \/ ResolveForLink(c) \/ LinkMap(c) \/ LinkLookup(c)
    \/ UnlinkMap(c) \/ UnlinkLookup(c) \/ SetInboxIds(c) \/ ReadLinks(c) \/ DetachInbox(c)
    \/ DeleteFiles(c) \/ RemoveMapping(c) \/ RemoveInboxRow(c)

InboxesNext ==
    \/ \E o \in OperatorIds : CreateOperator(o)
    \/ \E p \in PolicyIds : CreatePolicy(p)
    \/ \E c \in DirCallers :
           \/ InboxStep(c) \/ RemoveOperator(c) \/ OperatorRemoved(c) \/ OperatorInfo(c)
           \/ \E op \in {"opinfo", "opupdate", "opremove"}, o \in OperatorIds :
                  BeginOperator(c, op, o)
           \/ \E op \in {"polinfo", "polupdate", "polremove"}, p \in PolicyIds :
                  BeginPolicy(c, op, p)
           \/ PolicyStep(c) \/ \E given \in BOOLEAN : UpdateOperator(c, given)
           \/ \E i \in InboxIds, o \in OperatorIds \union {NoOne} : CreateInbox(c, i, o)
           \/ \E i \in InboxIds :
                  \/ \E o \in OperatorIds : BeginInbox(c, "link", i, o, FALSE)
                  \/ BeginInbox(c, "unlink", i, NoOne, FALSE)
                  \/ BeginInbox(c, "info", i, NoOne, FALSE)
                  \/ \E execute \in BOOLEAN : BeginInbox(c, "rm", i, NoOne, execute)
    \/ RestartDirectory

InboxesSpec == InboxesInit /\ [][InboxesNext]_dirVars

-----------------------------------------------------------------------------

\* Every inbox has at most one operator, and whatever exists for an inbox, its
\* row exists: a removal that stopped half-way can be asked for again, since
\* inbox.rm finds the inbox through its row and removes the row last.  Calls
\* that write after another call's write overtook their reads are excepted, and
\* inboxIds given to operator.update directly.
InboxesConsistent ==
    overlapped \/ \A i \in InboxIds :
        /\ Cardinality(LinkedTo(i)) <= 1
        /\ i \in idMapped \union managed \union dbFiles => i \in rows
        /\ LinkedTo(i) # {} => i \in rows

\* What was removed stays removed: no interleaving of update, link and remove
\* brings an operator back, and no update a policy.
RemovedStaysRemoved ==
    [][/\ \A o \in OperatorIds : operators[o].status = "removed" => operators'[o].status = "removed"
       /\ \A p \in PolicyIds : policies[p] = "removed" => policies'[p] = "removed"]_dirVars
=============================================================================
