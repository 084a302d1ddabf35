-------------------------------- MODULE Chats --------------------------------
(***************************************************************************)
(* Conversations and the local state kept about them: the chat actions     *)
(* (core/src/conversation-actions.ts), the id mappings between groups and  *)
(* conv_ ids (id-mapping-store.ts), the registry of managed clients with   *)
(* their groups, and the purge behind chat.rm and chat.leave               *)
(* (cleanupLocalState in cli/src/start.ts).  A group and the membership of *)
(* the local identities in it live on the network; calls interleave at     *)
(* their awaits.  No caller binds an identity to a group today, but the    *)
(* store keeps the binding and the purge follows it, so some identities    *)
(* start bound.                                                            *)
(***************************************************************************)
EXTENDS Integers, FiniteSets

CONSTANTS
    ChatCallers,     \* calls under way at once
    ChatIdentities,  \* local identities
    Groups,          \* groups of the network
    ConvIds,         \* ids createResourceId("conversation") may return, numbered
    ChatCreds,       \* credentials that may be issued
    MaxChatOps,      \* bound on the calls begun
    MaxChatFaults    \* bound on file removals that fail

ASSUME ChatBounds == ConvIds \subseteq Nat \ {0} /\ MaxChatOps \in Nat /\ MaxChatFaults \in Nat

VARIABLES
    identityRow,  \* [ChatIdentities -> [there, group]]: the identity store
    memberOf,     \* [ChatIdentities -> SUBSET Groups]: the network
    client,       \* [ChatIdentities -> [on, groups]]: the registry
    joined,       \* group events on their way to the registry
    localId,      \* [Groups -> ConvIds or NoConv]: id_mappings
    scoped,       \* [ChatCreds -> [status, chat]]: credentials with their chat id
    dbOf,         \* identities whose database is on disk
    chatCall, chatOps, chatFaults,
    told,         \* history: the conv ids answered, with their groups
    unmapped,     \* history: the conv ids a purge removed
    broken,       \* history: groups whose purge failed on the way
    verdicts      \* history: what each executed purge left behind

chatVars == <<identityRow, memberOf, client, joined, localId, scoped, dbOf, chatCall, chatOps,
              chatFaults, told, unmapped, broken, verdicts>>

NoConv   == 0
NoGroup  == -1
NoId     == "noid"
ASSUME ChatIds == NoConv \notin Groups /\ NoGroup \notin Groups /\ NoId \notin ChatIdentities
ChatIdle == [at |-> "idle", op |-> "none", who |-> NoId, ref |-> NoConv, group |-> NoGroup,
             execute |-> FALSE, creds |-> {}, conv |-> NoConv, bound |-> NoId,
             overtaken |-> FALSE]

ChatsInit ==
    /\ identityRow \in [ChatIdentities -> [there : {TRUE}, group : Groups \union {NoGroup}]]
    /\ \A m, n \in ChatIdentities : m # n =>  \* group_id is UNIQUE
           identityRow[m].group = NoGroup \/ identityRow[m].group # identityRow[n].group
    /\ memberOf = [n \in ChatIdentities |-> {identityRow[n].group} \ {NoGroup}]
    /\ client = [n \in ChatIdentities |-> [on |-> TRUE, groups |-> memberOf[n]]]
    /\ joined = {}
    /\ localId = [g \in Groups |-> NoConv]
    /\ scoped = [k \in ChatCreds |-> [status |-> "none", chat |-> NoConv]]
    /\ dbOf = ChatIdentities
    /\ chatCall = [c \in ChatCallers |-> ChatIdle]
    /\ chatOps = 0 /\ chatFaults = 0
    /\ told = {} /\ unmapped = {} /\ broken = {} /\ verdicts = {}

-----------------------------------------------------------------------------

AtStep(c, step)  == chatCall[c].at = step
ChatGoes(c, r)   == chatCall' = [chatCall EXCEPT ![c] = r]

\* A step that writes: the other calls under way hold what they read before.
ChatWrites(c, r) ==
    chatCall' = [d \in ChatCallers |->
        IF d = c THEN r ELSE IF chatCall[d] = ChatIdle THEN ChatIdle
        ELSE [chatCall[d] EXCEPT !.overtaken = TRUE]]

Begins(c, r) ==
    /\ chatCall[c] = ChatIdle /\ chatOps < MaxChatOps
    /\ chatOps' = chatOps + 1
    /\ ChatGoes(c, r)

\* getNetwork: the group a conv id denotes, if any.
NetworkOf(v) == {g \in Groups : localId[g] = v}

\* resolveGroupId: a chat id that has no mapping is taken for a group id.
ResolveGroup(ref) ==
    IF ref \in ConvIds /\ NetworkOf(ref) # {} THEN CHOOSE g \in NetworkOf(ref) : TRUE ELSE ref

\* resolveIdentity and getManagedClient.
Usable(n) == identityRow[n].there /\ client[n].on

\* resolveManagedClientForGroup without a label: the client responsible for the
\* group, else the first identity's (any, since the store orders by creation).
ClientsFor(g) ==
    LET owners == {n \in ChatIdentities : client[n].on /\ g \in client[n].groups} IN
    IF owners # {} THEN owners ELSE {n \in ChatIdentities : Usable(n)}

\* Mutant of EnsureLocalId: an existing mapping is not looked for.
EnsureLocalIdAnew(G, fresh) == [g \in Groups |-> IF g \in G THEN fresh[g] ELSE localId[g]]

\* ensureLocalId for every group of G: one that has no conv id gets a fresh one.
EnsureLocalId(G, fresh) ==
    [g \in Groups |-> IF g \in G /\ localId[g] = NoConv THEN fresh[g] ELSE localId[g]]

\* Fresh ids for the groups of G: never used before, one each.  Ids are random,
\* so which of the unused ones are drawn makes no difference: the least are.
FreshIds(G) ==
    LET unused == ConvIds \ {t.conv : t \in told}
    IN  {f \in [G -> unused] :
            /\ \A g, h \in G : g # h => f[g] # f[h]
            /\ \A g \in G, v \in unused : v < f[g] => \E h \in G : f[h] = v}

-----------------------------------------------------------------------------
(* chat.create, chat.join (whose network part is in Onboarding), chat.list. *)

BeginChat(c, op, n) ==
    /\ Usable(n)
    /\ Begins(c, [ChatIdle EXCEPT !.at = op, !.op = op, !.who = n])
    /\ UNCHANGED <<identityRow, memberOf, client, joined, localId, scoped, dbOf, chatFaults, told,
                   broken, verdicts, unmapped>>

\* createGroup of the adapter: n is in the new group, which the group stream
\* announces, before the adapter syncs it.
AdapterCreates(n, g) ==
    /\ memberOf' = [memberOf EXCEPT ![n] = @ \union {g}]
    /\ joined' = joined \union {<<n, g>>}

\* chat.create makes a group without members so far.  When the sync after the
\* creation fails the caller is told of an error, and the group is there.
CreateGroup(c, g) ==
    /\ AtStep(c, "create") /\ \A n \in ChatIdentities : g \notin memberOf[n]
    /\ \A t \in told : t.group # g
    /\ AdapterCreates(chatCall[c].who, g)
    /\ \E synced \in BOOLEAN :
           ChatGoes(c, IF synced THEN [chatCall[c] EXCEPT !.at = "ensure", !.group = g]
                       ELSE ChatIdle)
    /\ UNCHANGED <<identityRow, client, localId, scoped, dbOf, chatOps, chatFaults, told, broken,
                   verdicts, unmapped>>

NetworkRefuses(c) ==
    /\ chatCall[c].at \in {"create", "list", "command", "leave"}
    /\ ChatGoes(c, ChatIdle)
    /\ UNCHANGED <<identityRow, memberOf, client, joined, localId, scoped, dbOf, chatOps,
                   chatFaults, told, broken, verdicts, unmapped>>

\* The answer of create (and join), and of list, names the conv id of each group.
AnswerIds(c) ==
    /\ chatCall[c].at \in {"ensure", "list"}
    /\ LET G == IF AtStep(c, "ensure") THEN {chatCall[c].group} ELSE memberOf[chatCall[c].who]
       IN \E fresh \in FreshIds(G) :
              /\ localId' = EnsureLocalId(G, fresh)
              /\ told' = told \union {[conv |-> localId'[g], group |-> g] : g \in G}
    /\ ChatWrites(c, ChatIdle)
    /\ UNCHANGED <<identityRow, memberOf, client, joined, scoped, dbOf, chatOps, chatFaults,
                   broken, verdicts, unmapped>>

\* consumeGroupStream registers the group with the client, if it is still there.
GroupEvent(n, g) ==
    /\ <<n, g>> \in joined
    /\ joined' = joined \ {<<n, g>>}
    /\ client' = IF client[n].on THEN [client EXCEPT ![n].groups = @ \union {g}] ELSE client
    /\ UNCHANGED <<identityRow, memberOf, localId, scoped, dbOf, chatCall, chatOps, chatFaults,
                   told, broken, verdicts, unmapped>>

-----------------------------------------------------------------------------
(* chat.info, members, update, update-profile, invite, add-member,          *)
(* remove-member, promote and demote: the chat id is resolved, a client     *)
(* chosen, and the network asked through it.                                *)

BeginCommand(c, op, ref) ==
    \E n \in ClientsFor(ResolveGroup(ref)) :
        /\ Begins(c, [ChatIdle EXCEPT !.at = op, !.op = op, !.who = n, !.ref = ref,
                          !.group = ResolveGroup(ref)])
        /\ UNCHANGED <<identityRow, memberOf, client, joined, localId, scoped, dbOf, chatFaults,
                       told, broken, verdicts, unmapped>>

\* addMembers and removeMembers of the adapter, for a local identity n.
AdapterMembers(n, g) ==
    \/ /\ g \notin memberOf[n]
       /\ memberOf' = [memberOf EXCEPT ![n] = @ \union {g}]
       /\ joined' = joined \union {<<n, g>>}
    \/ memberOf' = [memberOf EXCEPT ![n] = @ \ {g}] /\ UNCHANGED joined

\* The network answers a member of the group; the commands that are not about
\* members change nothing kept here.
Command(c, n) ==
    /\ AtStep(c, "command") /\ chatCall[c].group \in memberOf[chatCall[c].who]
    /\ UNCHANGED <<memberOf, joined>> \/ AdapterMembers(n, chatCall[c].group)
    /\ ChatGoes(c, ChatIdle)
    /\ UNCHANGED <<identityRow, client, localId, scoped, dbOf, chatOps, chatFaults, told, broken,
                   verdicts, unmapped>>

\* leaveGroup of the adapter.  It refuses a super admin, a level the network
\* gives: NetworkRefuses covers that.
AdapterLeaves(n, g) ==
    g \in memberOf[n] /\ memberOf' = [memberOf EXCEPT ![n] = @ \ {g}]

\* chat.leave: out of the group first, then the purge if asked for.  A sync
\* that fails after the departure ends the call before the purge.
Leave(c) ==
    /\ AtStep(c, "leave")
    /\ AdapterLeaves(chatCall[c].who, chatCall[c].group)
    /\ \E purge \in BOOLEAN :
           ChatGoes(c, IF purge THEN [chatCall[c] EXCEPT !.at = "match", !.execute = TRUE]
                       ELSE ChatIdle)
    /\ UNCHANGED <<identityRow, client, joined, localId, scoped, dbOf, chatOps, chatFaults, told,
                   broken, verdicts, unmapped>>

-----------------------------------------------------------------------------
(* chat.rm and the purge.                                                   *)

BeginRemove(c, ref, force) ==
    /\ Begins(c, [ChatIdle EXCEPT !.at = "match", !.op = "rm", !.ref = ref,
                      !.group = ResolveGroup(ref), !.execute = force])
    /\ UNCHANGED <<identityRow, memberOf, client, joined, localId, scoped, dbOf, chatFaults, told,
                   broken, verdicts, unmapped>>

\* Mutant of MatchChatIds: only the ids the caller and the mapping gave.
MatchGivenIds(ref, g) == {ref, g} \ {NoConv, NoGroup}

\* matchChatIds: the id given, the group, and what the mapping has for either.
MatchChatIds(ref, g) ==
    ({ref, g} \union {localId[h] : h \in {g, ref} \intersect Groups}
              \union UNION {NetworkOf(v) : v \in {ref, g} \intersect ConvIds}) \ {NoConv, NoGroup}

\* credentialManager.list: the records with one of those chat ids, of any status.
MatchCredentials(c) ==
    /\ AtStep(c, "match")
    /\ LET ids == MatchChatIds(chatCall[c].ref, chatCall[c].group) IN
       ChatGoes(c, [chatCall[c] EXCEPT !.at = "plan",
           !.creds = {k \in ChatCreds : scoped[k].status # "none" /\ scoped[k].chat \in ids}])
    /\ UNCHANGED <<identityRow, memberOf, client, joined, localId, scoped, dbOf, chatOps,
                   chatFaults, told, broken, verdicts, unmapped>>

\* The identity bound to group g.
BoundTo(g) == {n \in ChatIdentities : identityRow[n].there /\ identityRow[n].group = g}

\* The mapping and the bound identity are read; a dry run ends here.
PlanPurge(c) ==
    /\ AtStep(c, "plan")
    /\ LET g == chatCall[c].group  r == chatCall[c].ref
           v == IF r \in ConvIds /\ NetworkOf(r) # {} THEN r
                ELSE IF g \in Groups THEN localId[g] ELSE NoConv
       IN ChatGoes(c, IF ~chatCall[c].execute THEN ChatIdle
                      ELSE [chatCall[c] EXCEPT !.at = "revoke", !.conv = v,
                                !.bound = IF BoundTo(g) = {} THEN NoId
                                          ELSE CHOOSE n \in BoundTo(g) : TRUE])
    /\ UNCHANGED <<identityRow, memberOf, client, joined, localId, scoped, dbOf, chatOps,
                   chatFaults, told, broken, verdicts, unmapped>>

\* One credential after the other; revoking a revoked one succeeds.
RevokeNext(c) ==
    /\ AtStep(c, "revoke")
    /\ \E k \in chatCall[c].creds :
           /\ scoped' = [scoped EXCEPT ![k].status = "revoked"]
           /\ ChatWrites(c, [chatCall[c] EXCEPT !.creds = @ \ {k}])
    /\ UNCHANGED <<identityRow, memberOf, client, joined, localId, dbOf, chatOps, chatFaults,
                   told, broken, verdicts, unmapped>>

\* Whether an executed purge leaves nothing of the group it resolved when it began.
Concerns(r) == {r.group} \intersect Groups
Clean(c) ==
    \A g \in Concerns(chatCall[c]) :
        /\ localId[g] = NoConv
        /\ \A k \in ChatCreds : scoped[k].status = "active" =>
               scoped[k].chat \notin {g, chatCall[c].ref, chatCall[c].conv}
        /\ \A n \in ChatIdentities : identityRow[n].group = g =>
               ~identityRow[n].there /\ n \notin dbOf /\ ~client[n].on
Excused(c) ==
    \/ chatCall[c].overtaken
    \/ Concerns(chatCall[c]) \intersect broken # {}
    \/ \E d \in ChatCallers \ {c} : chatCall[d].at \in {"unrow", "unfile"}

\* remove the mapping, forgetGroup (of the first client that has it), and
\* unregister the client of the bound identity.
ForgetChat(c) ==
    /\ AtStep(c, "revoke") /\ chatCall[c].creds = {}
    /\ localId' = [g \in Groups |-> IF chatCall[c].conv # NoConv /\ localId[g] = chatCall[c].conv
                                    THEN NoConv ELSE localId[g]]
    /\ unmapped' = unmapped \union ({chatCall[c].conv} \ {NoConv})
    /\ LET g == chatCall[c].group
           owners == {n \in ChatIdentities : client[n].on /\ g \in client[n].groups}
       IN \E n \in IF owners = {} THEN ChatIdentities ELSE owners :
              client' = [m \in ChatIdentities |->
                  [on |-> client[m].on /\ m # chatCall[c].bound,
                   groups |-> IF m = n THEN client[m].groups \ {g} ELSE client[m].groups]]
    /\ ChatWrites(c, [chatCall[c] EXCEPT !.at = IF chatCall[c].bound = NoId THEN "purged" ELSE "unrow"])
    /\ UNCHANGED <<identityRow, memberOf, joined, scoped, dbOf, chatOps, chatFaults, told, broken,
                   verdicts>>

\* identityStore.remove: a row that is gone already ends the purge with an error.
RemoveIdentity(c) ==
    /\ AtStep(c, "unrow")
    /\ LET n == chatCall[c].bound IN
       IF identityRow[n].there
       THEN /\ identityRow' = [identityRow EXCEPT ![n].there = FALSE]
            /\ ChatWrites(c, [chatCall[c] EXCEPT !.at = "unfile"])
            /\ UNCHANGED broken
       ELSE /\ ChatGoes(c, ChatIdle) /\ broken' = broken \union Concerns(chatCall[c])
            /\ UNCHANGED identityRow
    /\ UNCHANGED <<memberOf, client, joined, localId, scoped, dbOf, chatOps, chatFaults, told,
                   verdicts, unmapped>>

\* The database files, which may fail to go: by then the row and the mapping are
\* gone: asked again by the conv id, chat.rm resolves nothing and reports success.
RemoveDb(c) ==
    /\ AtStep(c, "unfile")
    /\ \/ /\ dbOf' = dbOf \ {chatCall[c].bound}
          /\ ChatGoes(c, [chatCall[c] EXCEPT !.at = "purged"])
          /\ UNCHANGED <<chatFaults, broken>>
       \/ /\ chatFaults < MaxChatFaults /\ chatFaults' = chatFaults + 1
          /\ broken' = broken \union Concerns(chatCall[c])
          /\ ChatGoes(c, ChatIdle)
          /\ UNCHANGED dbOf
    /\ UNCHANGED <<identityRow, memberOf, client, joined, localId, scoped, chatOps, told,
                   verdicts, unmapped>>

Purged(c) ==
    /\ AtStep(c, "purged")
    /\ verdicts' = verdicts \union {[clean |-> Clean(c), excused |-> Excused(c)]}
    /\ ChatGoes(c, ChatIdle)
    /\ UNCHANGED <<identityRow, memberOf, client, joined, localId, scoped, dbOf, chatOps,
                   chatFaults, told, broken, unmapped>>

\* A credential for a chat, by its conv id or its group id (CredentialManager).
IssueScoped(k, chat) ==
    /\ scoped[k].status = "none"
    /\ chat \in {t.conv : t \in told} \union {t.group : t \in told}
    /\ scoped' = [scoped EXCEPT ![k] = [status |-> "active", chat |-> chat]]
    /\ chatCall' = [d \in ChatCallers |-> IF chatCall[d] = ChatIdle THEN ChatIdle
                                          ELSE [chatCall[d] EXCEPT !.overtaken = TRUE]]
    /\ UNCHANGED <<identityRow, memberOf, client, joined, localId, dbOf, chatOps, chatFaults, told,
                   broken, verdicts, unmapped>>

ChatsNext ==
    \/ \E c \in ChatCallers :
           \/ \E n \in ChatIdentities : BeginChat(c, "create", n) \/ BeginChat(c, "list", n)
                                        \/ Command(c, n)
           \/ \E g \in Groups : CreateGroup(c, g)
           \/ NetworkRefuses(c) \/ AnswerIds(c) \/ Leave(c) \/ MatchCredentials(c) \/ PlanPurge(c)
           \/ RevokeNext(c) \/ ForgetChat(c) \/ RemoveIdentity(c) \/ RemoveDb(c) \/ Purged(c)
           \/ \E ref \in {t.conv : t \in told} \union Groups :
                  \/ BeginCommand(c, "command", ref) \/ BeginCommand(c, "leave", ref)
                  \/ \E force \in BOOLEAN : BeginRemove(c, ref, force)
    \/ \E n \in ChatIdentities, g \in Groups : GroupEvent(n, g)
    \/ \E k \in ChatCreds, chat \in ConvIds \union Groups : IssueScoped(k, chat)

ChatsSpec == ChatsInit /\ [][ChatsNext]_chatVars

-----------------------------------------------------------------------------

\* A conv id answered to a caller denotes its group until a purge of the chat
\* removes it, whatever calls create, list and purge at once, and never another
\* group.
ConvIdsStable ==
    \A t \in told : NetworkOf(t.conv) = {t.group} \ (IF t.conv \in unmapped THEN Groups ELSE {})

\* A purge that found its chat and answers "executed" has left nothing of the chat: no mapping, no
\* active credential scoped to it by the group or the conv id it had, and neither row, client
\* nor database of the identity bound to it; unless something was written during
\* the purge, another one is under way, or an earlier purge of the chat failed
\* half-way (its mapping goes before its row and files).
PurgeLeavesNothing == \A v \in verdicts : v.clean \/ v.excused
=============================================================================
