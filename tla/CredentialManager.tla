------------------------- MODULE CredentialManager -------------------------
(***************************************************************************)
(* The credential manager (sessions/src/credential-manager.ts) with the    *)
(* callers that drive it: the credential service (sessions/src/service.ts),*)
(* the update and reveal actions, the WebSocket request handler            *)
(* (cli/src/ws/request-handler.ts) and the operator manager.               *)
(*                                                                         *)
(* Every method of the manager runs without giving up the event loop, and  *)
(* the lookups its callers await are answered from memory, so each caller  *)
(* is one step.  The exception is an issue with a policyId, which awaits   *)
(* the policy manager between its sweep and the issuance: its second half  *)
(* is the action IssueResolved.                                            *)
(*                                                                         *)
(* Time is a discrete clock.  The token of a credential is its id, the     *)
(* policy hash is the scope set it is computed from (every credential here *)
(* has the same chat ids) and a reveal store is the fact that the          *)
(* credential holds reveals.                                               *)
(***************************************************************************)
EXTENDS Integers, FiniteSets

CONSTANTS
  Ids,              \* the credential ids generateCredentialId can still return
  Operators,
  Scopes,           \* permission scopes
  Ttls,             \* lifetimes a configuration may ask for
  MaxConcurrent,    \* config.maxConcurrentPerOperator
  RenewalWindow,    \* config.renewalWindowSeconds
  HeartbeatTimeout, \* heartbeatInterval + config.heartbeatGracePeriod
  MaxTime,          \* bound of the clock
  None

ASSUME IdsAssumption == IsFiniteSet(Ids)
ASSUME LimitsAssumption ==
  /\ MaxConcurrent \in Nat \ {0}
  /\ RenewalWindow \in Nat /\ HeartbeatTimeout \in Nat /\ MaxTime \in Nat
  /\ Ttls \subseteq Nat
ASSUME NoneAssumption == None \notin Int

VARIABLES
  now,      \* the clock
  byId,     \* the records, Unissued for the ids not generated yet
  reveals,  \* the credentials whose reveal store is not empty
  mutated,  \* the ids the last call passed to onCredentialMutated
  notified  \* the ids the last call passed to onCredentialRevoked

vars == <<now, byId, reveals, mutated, notified>>

ScopeSets == [allow : SUBSET Scopes, deny : SUBSET Scopes]

Statuses == {"none", "pending", "active", "expired", "revoked"}

Records ==
  [operator : Operators \cup {None}, scopes : ScopeSets, status : Statuses,
   lastHeartbeat : Nat, issuedAt : Nat, expiresAt : Nat, ttl : Nat,
   revokedAt : Nat \cup {None}]

Unissued ==
  [operator |-> None, scopes |-> [allow |-> {}, deny |-> {}], status |-> "none",
   lastHeartbeat |-> 0, issuedAt |-> 0, expiresAt |-> 0, ttl |-> 0, revokedAt |-> None]

Init ==
  /\ now = 0
  /\ byId = [k \in Ids |-> Unissued]
  /\ reveals = {}
  /\ mutated = {}
  /\ notified = {}

Issued == {k \in Ids : byId[k].status # "none"}

-----------------------------------------------------------------------------
(* The manager: a call maps the stores it finds to the stores it leaves. *)

Stores == [byId |-> byId, reveals |-> reveals, mutated |-> {}, notified |-> {}]

\* The end of a call.
Commit(s) ==
  /\ byId' = s.byId
  /\ reveals' = s.reveals
  /\ mutated' = s.mutated
  /\ notified' = s.notified
  /\ UNCHANGED now

getActiveForOperator(b, op) == {k \in Ids : b[k].status = "active" /\ b[k].operator = op}

\* byId.set(k, r), of a new record or with updates that are not policy-relevant.
SetRecord(s, k, r) ==
  [byId |-> [s.byId EXCEPT ![k] = r],
   reveals |-> s.reveals, mutated |-> s.mutated, notified |-> s.notified]

\* Mutant of SetStatus: the status is not among the policy-relevant updates.
SetStatusQuietly(s, K, status) ==
  [byId |-> [k \in Ids |->
     IF k \in K THEN [s.byId[k] EXCEPT !.status = status] ELSE s.byId[k]],
   reveals |-> s.reveals, mutated |-> s.mutated, notified |-> s.notified]

\* mutateRecord(k, { status }) for every k of K.
SetStatus(s, K, status) ==
  [byId |-> [k \in Ids |->
     IF k \in K THEN [s.byId[k] EXCEPT !.status = status] ELSE s.byId[k]],
   reveals |-> s.reveals, mutated |-> s.mutated \cup K, notified |-> s.notified]

\* store.restore({ activeReveals: [] }) for every k of K.
cleanupRevealState(s, K) ==
  [byId |-> s.byId, reveals |-> s.reveals \ K, mutated |-> s.mutated, notified |-> s.notified]

revokeRecord(s, K) ==
  [byId |-> [k \in Ids |->
     IF k \in K THEN [s.byId[k] EXCEPT !.status = "revoked", !.revokedAt = now]
     ELSE s.byId[k]],
   reveals |-> cleanupRevealState(s, K).reveals,
   mutated |-> s.mutated \cup K,
   notified |-> s.notified \cup K]

HeartbeatStale(r) == now >= r.lastHeartbeat + HeartbeatTimeout

sweepExpired(s) ==
  LET active == {k \in Ids : s.byId[k].status = "active"}
      late   == {k \in active : now >= s.byId[k].expiresAt}
      silent == {k \in active \ late : HeartbeatStale(s.byId[k])}
  IN  revokeRecord(SetStatus(cleanupRevealState(s, late), late, "expired"), silent)

\* Mutant of AtLimit: the limit may be exceeded by one.
OverLimit(b, op) == Cardinality(getActiveForOperator(b, op)) > MaxConcurrent

AtLimit(b, op) == Cardinality(getActiveForOperator(b, op)) >= MaxConcurrent

\* Records of the same instant are evicted in the order they were issued in
\* the code; here any of them may be the one.
Oldest(b, op) ==
  {k \in getActiveForOperator(b, op) :
     \A j \in getActiveForOperator(b, op) : b[k].issuedAt <= b[j].issuedAt}

\* The stores that making room for one more credential of op can leave.
MakeRoom(s, op) ==
  IF AtLimit(s.byId, op) THEN {revokeRecord(s, {k}) : k \in Oldest(s.byId, op)} ELSE {s}

HasTwin(s, op, scopes) ==
  \E k \in getActiveForOperator(s.byId, op) : s.byId[k].scopes = scopes

NewRecord(op, scopes, ttl) ==
  [operator |-> op, scopes |-> scopes, status |-> "active", lastHeartbeat |-> now,
   issuedAt |-> now, expiresAt |-> now + ttl, ttl |-> ttl, revokedAt |-> None]

issueCredential(s, op, scopes, ttl) ==
  \E room \in MakeRoom(s, op) :
    \/ /\ HasTwin(room, op, scopes)
       /\ Commit(room)
    \/ /\ ~HasTwin(room, op, scopes)
       /\ \E k \in Ids \ Issued :
            Commit(SetRecord(room, k, NewRecord(op, scopes, ttl)))

-----------------------------------------------------------------------------
(* Materiality (sessions/src/materiality.ts) *)

Allowed(scopes) == scopes.allow \ scopes.deny

\* Mutant of requiresReauthorization: only scopes the old set never named.
OnlyAdded(old, new) == Allowed(new) \ (old.allow \cup old.deny) # {}

\* A scope was added, or moved from deny to allow.
requiresReauthorization(old, new) == Allowed(new) \ Allowed(old) # {}

-----------------------------------------------------------------------------
(* The callers *)

Tick ==
  /\ now < MaxTime
  /\ now' = now + 1
  /\ mutated' = {} /\ notified' = {}
  /\ UNCHANGED <<byId, reveals>>

\* service.list, service.lookup, and the first half of an issue by policy.
Sweep == Commit(sweepExpired(Stores))

Issue(op, scopes, ttl) == issueCredential(sweepExpired(Stores), op, scopes, ttl)

\* The policy manager has answered an issue by policy; the sweep of its first
\* half may be arbitrarily old.
IssueResolved(op, scopes, ttl) == issueCredential(Stores, op, scopes, ttl)

\* service.lookupByToken, at the moment it finds the credential past its
\* lifetime (otherwise it changes nothing).
LookupByToken(k) ==
  /\ k \in Issued
  /\ now >= byId[k].expiresAt
  /\ Commit(SetStatus(Stores, {k}, "expired"))

\* What a harness request or a reveal action starts with: a lookup by id, which
\* sweeps, and the test that the credential is active.
LookedUp == sweepExpired(Stores)
StillActive(k) == k \in Issued /\ LookedUp.byId[k].status = "active"

\* The heartbeat request.
Heartbeat(k) ==
  /\ StillActive(k)
  /\ Commit(SetRecord(LookedUp, k, [LookedUp.byId[k] EXCEPT !.lastHeartbeat = now]))

\* store.record of the credential's reveal store.
recordReveal(s, k) ==
  [byId |-> s.byId, reveals |-> s.reveals \cup {k}, mutated |-> s.mutated,
   notified |-> s.notified]

\* reveal_content and reveal.request.
Reveal(k) ==
  /\ StillActive(k)
  /\ Commit(recordReveal(LookedUp, k))

\* updateCredentialScopes of an active credential.
updateCredentialScopes(s, k, new) ==
  [byId |-> [s.byId EXCEPT ![k] = [s.byId[k] EXCEPT !.scopes = new]],
   reveals |-> s.reveals, mutated |-> s.mutated \cup {k}, notified |-> s.notified]

\* The update_scopes request: an escalation leaves the credential pending.
UpdateScopesRequest(k, new) ==
  /\ StillActive(k)
  /\ \/ /\ requiresReauthorization(LookedUp.byId[k].scopes, new)
        /\ Commit(SetStatus(LookedUp, {k}, "pending"))
     \/ /\ ~requiresReauthorization(LookedUp.byId[k].scopes, new)
        /\ Commit(updateCredentialScopes(LookedUp, k, new))

\* service.update, which does not sweep: an escalation revokes, whatever the
\* status.  The action credential.updateScopes is Sweep and then this step.
Update(k, new) ==
  /\ k \in Issued
  /\ \/ /\ requiresReauthorization(byId[k].scopes, new)
        /\ Commit(revokeRecord(Stores, {k}))
     \/ /\ ~requiresReauthorization(byId[k].scopes, new)
        /\ byId[k].status = "active"
        /\ Commit(updateCredentialScopes(Stores, k, new))

Renew(k) ==
  /\ byId[k].status = "active"
  /\ byId[k].expiresAt - now <= RenewalWindow
  /\ Commit(SetRecord(Stores, k, [byId[k] EXCEPT !.expiresAt = now + byId[k].ttl]))

\* service.revoke, whatever the status.
Revoke(k) ==
  /\ k \in Issued
  /\ Commit(revokeRecord(Stores, {k}))

\* The operator manager removes an operator.
RevokeAll(op) == Commit(revokeRecord(Stores, getActiveForOperator(byId, op)))

Next ==
  \/ Tick \/ Sweep
  \/ \E op \in Operators : RevokeAll(op)
  \/ \E op \in Operators, scopes \in ScopeSets, ttl \in Ttls :
       Issue(op, scopes, ttl) \/ IssueResolved(op, scopes, ttl)
  \/ \E k \in Ids : LookupByToken(k) \/ Heartbeat(k) \/ Reveal(k) \/ Renew(k) \/ Revoke(k)
  \/ \E k \in Ids, new \in ScopeSets : UpdateScopesRequest(k, new) \/ Update(k, new)

Spec == Init /\ [][Next]_vars

-----------------------------------------------------------------------------
(* Properties *)

\* Types, and the dates of a record: nothing was issued, heard of or revoked in
\* the future, and a revoked credential says when (upsertRecord, mutateRecord).
CredTypeOK ==
  /\ now \in Nat
  /\ byId \in [Ids -> Records]
  /\ reveals \subseteq Ids /\ mutated \subseteq Ids /\ notified \subseteq Ids
  /\ \A k \in Issued :
       /\ byId[k].operator \in Operators
       /\ byId[k].issuedAt <= byId[k].lastHeartbeat /\ byId[k].lastHeartbeat <= now
       /\ byId[k].status = "revoked" => byId[k].revokedAt \in byId[k].issuedAt..now

\* No operator ever holds more active credentials than the limit, however
\* issues, policy lookups that answer late, renewals and sweeps interleave
\* (issueCredential).
LimitRespected ==
  \A op \in Operators : Cardinality(getActiveForOperator(byId, op)) <= MaxConcurrent

\* The reveals of a credential do not survive its revocation, whichever path
\* revokes it: eviction, sweep, update, operator removal (revokeRecord).
RevokedHoldsNoReveals == \A k \in Ids : byId[k].status = "revoked" => k \notin reveals

\* The records are consistent whichever path issued, changed or revoked them:
\* dates, the limit per operator, and no reveals of a revoked credential.
CredInv == CredTypeOK /\ RevokedHoldsNoReveals /\ LimitRespected

\* The permissions of a credential never grow: a change that would allow more
\* ends it instead (checkMateriality and its three callers).
NoEscalation ==
  [][\A k \in Issued : Allowed(byId'[k].scopes) \subseteq Allowed(byId[k].scopes)]_vars

\* A credential that stopped being active never is again (renewCredential,
\* setCredentialStatus, issueCredential).
NeverReactivated ==
  [][\A k \in Issued : byId[k].status # "active" => byId'[k].status # "active"]_vars

\* A credential only ever loses: neither its scopes nor its life come back
\* (checkMateriality, renewCredential, setCredentialStatus).
CredentialsOnlyShrink == NoEscalation /\ NeverReactivated

\* Every change of status or scopes reaches onCredentialMutated, on which the
\* credential snapshots of the WebSocket server depend, and every revocation
\* reaches onCredentialRevoked, which publishes it (mutateRecord, revokeRecord).
MutationsAnnounced ==
  [][\A k \in Issued :
       /\ \/ byId'[k].status = byId[k].status /\ byId'[k].scopes = byId[k].scopes
          \/ k \in mutated'
       /\ byId'[k].status = "revoked" /\ byId[k].status # "revoked" => k \in notified']_vars

=============================================================================
