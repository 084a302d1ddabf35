---------------------- MODULE CredentialManagerProofs ----------------------
(***************************************************************************)
(* Proofs about CredentialManager, for every number of credentials,        *)
(* operators and scopes, every limit and every lifetime.                   *)
(*                                                                         *)
(* A call of the manager composes transformers of the stores.  Good is     *)
(* what they preserve; Follows relates the records before and after one,   *)
(* is transitive, and is all that the shrinking of credentials needs; Told *)
(* says that what differs from the stores a call found is in its report.   *)
(***************************************************************************)
EXTENDS CredentialManager, FiniteSetTheorems, TLAPS

AllStores ==
  [byId : [Ids -> Records], reveals : SUBSET Ids, mutated : SUBSET Ids, notified : SUBSET Ids]

Dated(r) ==
  r.status # "none" =>
    /\ r.operator \in Operators
    /\ r.issuedAt <= r.lastHeartbeat /\ r.lastHeartbeat <= now
    /\ r.status = "revoked" => r.revokedAt \in r.issuedAt..now

Good(s) ==
  /\ s \in AllStores
  /\ now \in Nat
  /\ \A k \in Ids : Dated(s.byId[k])
  /\ \A k \in Ids : s.byId[k].status = "revoked" => k \notin s.reveals

\* An issued credential stays issued, of the same operator, is not reactivated
\* and is not allowed more.
Follows(b, c) ==
  \A k \in Ids :
    /\ b[k].status = "none" => c[k].status = "none"
    /\ b[k].status # "none" =>
         /\ c[k].status # "none"
         /\ c[k].status = "active" => b[k].status = "active"
         /\ c[k].operator = b[k].operator
         /\ Allowed(c[k].scopes) \subseteq Allowed(b[k].scopes)

Within(b) == \A op \in Operators : Cardinality(getActiveForOperator(b, op)) <= MaxConcurrent

IssuedIn(b) == {k \in Ids : b[k].status # "none"}

-----------------------------------------------------------------------------
(* The transformers *)

LEMMA FollowsRefl == ASSUME NEW b PROVE Follows(b, b)
  BY DEF Follows

LEMMA FollowsTrans ==
  ASSUME NEW a, NEW b, NEW c, Follows(a, b), Follows(b, c)
  PROVE  Follows(a, c)
  BY DEF Follows

LEMMA SetStatusGood ==
  ASSUME NEW s, Good(s), NEW K, K \subseteq IssuedIn(s.byId),
         NEW st \in {"pending", "expired"}
  PROVE  Good(SetStatus(s, K, st)) /\ Follows(s.byId, SetStatus(s, K, st).byId)
  <1> DEFINE t == SetStatus(s, K, st)
  <1>1. K \subseteq Ids BY DEF IssuedIn
  <1>2. /\ t.byId = [k \in Ids |->
              IF k \in K THEN [s.byId[k] EXCEPT !.status = st] ELSE s.byId[k]]
        /\ t.reveals = s.reveals
        /\ t.mutated = s.mutated \cup K
        /\ t.notified = s.notified
        /\ t = [byId |-> t.byId, reveals |-> t.reveals, mutated |-> t.mutated,
                notified |-> t.notified]
    BY DEF SetStatus, Good, AllStores
  <1> HIDE DEF t
  <1>3. \A k \in Ids : /\ t.byId[k] \in Records
                       /\ t.byId[k].scopes = s.byId[k].scopes
                       /\ t.byId[k].operator = s.byId[k].operator
                       /\ t.byId[k].issuedAt = s.byId[k].issuedAt
                       /\ t.byId[k].lastHeartbeat = s.byId[k].lastHeartbeat
                       /\ t.byId[k].revokedAt = s.byId[k].revokedAt
                       /\ t.byId[k].status = IF k \in K THEN st ELSE s.byId[k].status
    BY <1>2 DEF Good, AllStores, Records, Statuses
  <1>4. t \in AllStores
    <2>1. t.byId \in [Ids -> Records] BY <1>2, <1>3
    <2> QED BY <2>1, <1>1, <1>2 DEF Good, AllStores
  <1>5. Good(t) BY <1>1, <1>2, <1>3, <1>4 DEF Good, Dated, IssuedIn
  <1>6. Follows(s.byId, t.byId) BY <1>3 DEF Follows, IssuedIn
  <1> QED BY <1>5, <1>6 DEF t

LEMMA CleanupGood ==
  ASSUME NEW s, Good(s), NEW K, K \subseteq Ids
  PROVE  Good(cleanupRevealState(s, K)) /\ cleanupRevealState(s, K).byId = s.byId
  BY DEF Good, AllStores, cleanupRevealState

LEMMA RevokeGood ==
  ASSUME NEW s, Good(s), NEW K, K \subseteq IssuedIn(s.byId)
  PROVE  /\ Good(revokeRecord(s, K))
         /\ Follows(s.byId, revokeRecord(s, K).byId)
         /\ \A k \in K : revokeRecord(s, K).byId[k].status = "revoked"
  <1> DEFINE t == revokeRecord(s, K)
  <1>1. K \subseteq Ids BY DEF IssuedIn
  <1>2. /\ t.byId = [k \in Ids |->
              IF k \in K THEN [s.byId[k] EXCEPT !.status = "revoked", !.revokedAt = now]
              ELSE s.byId[k]]
        /\ t.reveals = s.reveals \ K
        /\ t.mutated = s.mutated \cup K
        /\ t.notified = s.notified \cup K
        /\ t = [byId |-> t.byId, reveals |-> t.reveals, mutated |-> t.mutated,
                notified |-> t.notified]
    BY DEF revokeRecord, cleanupRevealState, Good, AllStores
  <1> HIDE DEF t
  <1>3. \A k \in Ids : /\ t.byId[k] \in Records
                       /\ t.byId[k].scopes = s.byId[k].scopes
                       /\ t.byId[k].operator = s.byId[k].operator
                       /\ t.byId[k].issuedAt = s.byId[k].issuedAt
                       /\ t.byId[k].lastHeartbeat = s.byId[k].lastHeartbeat
                       /\ t.byId[k].revokedAt = IF k \in K THEN now ELSE s.byId[k].revokedAt
                       /\ t.byId[k].status = IF k \in K THEN "revoked" ELSE s.byId[k].status
    <2> SUFFICES ASSUME NEW k \in Ids
                 PROVE  /\ t.byId[k] \in Records
                        /\ t.byId[k].scopes = s.byId[k].scopes
                        /\ t.byId[k].operator = s.byId[k].operator
                        /\ t.byId[k].issuedAt = s.byId[k].issuedAt
                        /\ t.byId[k].lastHeartbeat = s.byId[k].lastHeartbeat
                        /\ t.byId[k].revokedAt = IF k \in K THEN now ELSE s.byId[k].revokedAt
                        /\ t.byId[k].status = IF k \in K THEN "revoked" ELSE s.byId[k].status
      OBVIOUS
    <2>1. s.byId[k] \in Records /\ now \in Nat BY DEF Good, AllStores
    <2>2. t.byId[k] = IF k \in K
                      THEN [s.byId[k] EXCEPT !.status = "revoked", !.revokedAt = now]
                      ELSE s.byId[k]
      BY <1>2
    <2> QED BY <2>1, <2>2 DEF Records, Statuses
  <1>4. t \in AllStores
    <2>1. t.byId \in [Ids -> Records] BY <1>2, <1>3
    <2> QED BY <2>1, <1>1, <1>2 DEF Good, AllStores
  <1>5. \A k \in Ids : Dated(t.byId[k])
    BY <1>3, <1>4 DEF Good, AllStores, Records, Dated, IssuedIn
  <1>6. Good(t) BY <1>1, <1>2, <1>3, <1>4, <1>5 DEF Good
  <1>7. Follows(s.byId, t.byId) BY <1>3 DEF Follows, IssuedIn
  <1> QED BY <1>1, <1>3, <1>6, <1>7 DEF t

LEMMA SweepGood ==
  ASSUME NEW s, Good(s)
  PROVE  Good(sweepExpired(s)) /\ Follows(s.byId, sweepExpired(s).byId)
  <1> DEFINE active == {k \in Ids : s.byId[k].status = "active"}
             late   == {k \in active : now >= s.byId[k].expiresAt}
             silent == {k \in active \ late : HeartbeatStale(s.byId[k])}
             clean  == cleanupRevealState(s, late)
             aged   == SetStatus(clean, late, "expired")
  <1>1. Good(clean) /\ clean.byId = s.byId BY CleanupGood
  <1>2. Good(aged) /\ Follows(s.byId, aged.byId)
    <2>1. late \subseteq IssuedIn(clean.byId) BY <1>1 DEF IssuedIn
    <2> QED BY <1>1, <2>1, SetStatusGood
  <1>3. silent \subseteq IssuedIn(aged.byId) BY <1>2 DEF IssuedIn, Follows
  <1>4. Good(revokeRecord(aged, silent)) /\ Follows(aged.byId, revokeRecord(aged, silent).byId)
    <2> HIDE DEF aged, silent
    <2> QED BY <1>2, <1>3, RevokeGood
  <1>5. sweepExpired(s) = revokeRecord(aged, silent) BY DEF sweepExpired
  <1> HIDE DEF aged, silent
  <1> QED BY <1>2, <1>4, <1>5, FollowsTrans

LEMMA SetRecordGood ==
  ASSUME NEW s, Good(s), NEW k \in Ids, NEW r \in Records, Dated(r), r.status # "revoked"
  PROVE  Good(SetRecord(s, k, r)) /\ SetRecord(s, k, r).byId = [s.byId EXCEPT ![k] = r]
  <1> DEFINE t == SetRecord(s, k, r)
  <1>1. /\ t.byId = [s.byId EXCEPT ![k] = r]
        /\ t.reveals = s.reveals /\ t.mutated = s.mutated /\ t.notified = s.notified
        /\ t = [byId |-> t.byId, reveals |-> t.reveals, mutated |-> t.mutated,
                notified |-> t.notified]
    BY DEF SetRecord
  <1> HIDE DEF t
  <1>2. s.byId \in [Ids -> Records] BY DEF Good, AllStores
  <1>3. t.byId \in [Ids -> Records] BY <1>1, <1>2
  <1>4. t \in AllStores BY <1>1, <1>3 DEF Good, AllStores
  <1>5. \A j \in Ids : t.byId[j] = IF j = k THEN r ELSE s.byId[j] BY <1>1, <1>2
  <1>6. Good(t) BY <1>1, <1>4, <1>5 DEF Good
  <1> QED BY <1>1, <1>6 DEF t

LEMMA RecordRevealGood ==
  ASSUME NEW s, Good(s), NEW k \in Ids, s.byId[k].status # "revoked"
  PROVE  Good(recordReveal(s, k)) /\ recordReveal(s, k).byId = s.byId
  BY DEF Good, AllStores, recordReveal

LEMMA UpdateScopesGood ==
  ASSUME NEW s, Good(s), NEW k \in Ids, NEW new \in ScopeSets,
         s.byId[k].status # "none",
         Allowed(new) \subseteq Allowed(s.byId[k].scopes)
  PROVE  /\ Good(updateCredentialScopes(s, k, new))
         /\ Follows(s.byId, updateCredentialScopes(s, k, new).byId)
  <1> DEFINE t == updateCredentialScopes(s, k, new)
             r == [s.byId[k] EXCEPT !.scopes = new]
  <1>1. /\ t.byId = [s.byId EXCEPT ![k] = r]
        /\ t.reveals = s.reveals /\ t.mutated = s.mutated \cup {k} /\ t.notified = s.notified
        /\ t = [byId |-> t.byId, reveals |-> t.reveals, mutated |-> t.mutated,
                notified |-> t.notified]
    BY DEF updateCredentialScopes
  <1>2. s.byId \in [Ids -> Records] BY DEF Good, AllStores
  <1>3. /\ r \in Records /\ r.scopes = new
        /\ r.status = s.byId[k].status /\ r.operator = s.byId[k].operator
        /\ r.issuedAt = s.byId[k].issuedAt /\ r.lastHeartbeat = s.byId[k].lastHeartbeat
        /\ r.revokedAt = s.byId[k].revokedAt
    BY <1>2 DEF Records
  <1> HIDE DEF t, r
  <1>4. \A j \in Ids : t.byId[j] = IF j = k THEN r ELSE s.byId[j] BY <1>1, <1>2
  <1>5. t \in AllStores
    <2>1. t.byId \in [Ids -> Records] BY <1>1, <1>2, <1>3
    <2> QED BY <1>1, <2>1 DEF Good, AllStores
  <1>6. \A j \in Ids : Dated(t.byId[j])
    <2>1. Dated(r) BY <1>3 DEF Good, Dated
    <2> QED BY <1>4, <2>1 DEF Good
  <1>7. Good(t) BY <1>1, <1>3, <1>4, <1>5, <1>6 DEF Good
  <1>8. Follows(s.byId, t.byId) BY <1>3, <1>4 DEF Follows
  <1> QED BY <1>7, <1>8 DEF t

-----------------------------------------------------------------------------
(* The limit *)

LEMMA ActiveFinite ==
  ASSUME NEW b, NEW op
  PROVE  IsFiniteSet(getActiveForOperator(b, op)) /\ Cardinality(getActiveForOperator(b, op)) \in Nat
  <1>1. IsFiniteSet(getActiveForOperator(b, op))
    BY IdsAssumption, FS_Subset DEF getActiveForOperator
  <1> QED BY <1>1, FS_CardinalityType

LEMMA FollowsWithin ==
  ASSUME NEW b, NEW c, Follows(b, c), Within(b)
  PROVE  Within(c)
  <1> SUFFICES ASSUME NEW op \in Operators
               PROVE  Cardinality(getActiveForOperator(c, op)) <= MaxConcurrent
    BY DEF Within
  <1>1. getActiveForOperator(c, op) \subseteq getActiveForOperator(b, op)
    BY DEF Follows, getActiveForOperator
  <1>2. Cardinality(getActiveForOperator(c, op)) <= Cardinality(getActiveForOperator(b, op))
    BY <1>1, ActiveFinite, FS_Subset
  <1>3. Cardinality(getActiveForOperator(b, op)) <= MaxConcurrent BY DEF Within
  <1> QED BY <1>2, <1>3, ActiveFinite, LimitsAssumption

LEMMA MakeRoomGood ==
  ASSUME NEW s, Good(s), Within(s.byId), NEW op \in Operators, NEW room \in MakeRoom(s, op)
  PROVE  /\ Good(room) /\ Follows(s.byId, room.byId) /\ Within(room.byId)
         /\ Cardinality(getActiveForOperator(room.byId, op)) < MaxConcurrent
  <1>1. CASE ~AtLimit(s.byId, op)
    <2>1. room = s BY <1>1 DEF MakeRoom
    <2> QED BY <1>1, <2>1, FollowsRefl, ActiveFinite, LimitsAssumption DEF AtLimit
  <1>2. CASE AtLimit(s.byId, op)
    <2>1. PICK k \in Oldest(s.byId, op) : room = revokeRecord(s, {k}) BY <1>2 DEF MakeRoom
    <2>2. k \in getActiveForOperator(s.byId, op) BY DEF Oldest
    <2>3. {k} \subseteq IssuedIn(s.byId) BY <2>2 DEF getActiveForOperator, IssuedIn
    <2>4. /\ Good(room) /\ Follows(s.byId, room.byId)
          /\ room.byId[k].status = "revoked"
      BY <2>1, <2>3, RevokeGood
    <2>5. getActiveForOperator(room.byId, op) \subseteq getActiveForOperator(s.byId, op) \ {k}
      BY <2>4 DEF Follows, getActiveForOperator
    <2>6. /\ IsFiniteSet(getActiveForOperator(s.byId, op) \ {k})
          /\ Cardinality(getActiveForOperator(s.byId, op) \ {k})
               = Cardinality(getActiveForOperator(s.byId, op)) - 1
      BY <2>2, ActiveFinite, FS_RemoveElement
    <2>7. Cardinality(getActiveForOperator(room.byId, op))
            <= Cardinality(getActiveForOperator(s.byId, op)) - 1
      BY <2>5, <2>6, FS_Subset
    <2>8. Cardinality(getActiveForOperator(s.byId, op)) <= MaxConcurrent BY DEF Within
    <2>9. Within(room.byId) BY <2>4, FollowsWithin
    <2> QED BY <2>4, <2>7, <2>8, <2>9, ActiveFinite, LimitsAssumption
  <1> QED BY <1>1, <1>2

-----------------------------------------------------------------------------
(* The steps *)

\* Follows, of the credentials that existed before the step.
Ahead(b, c) ==
  \A k \in Ids : b[k].status # "none" =>
    /\ c[k].status = "active" => b[k].status = "active"
    /\ Allowed(c[k].scopes) \subseteq Allowed(b[k].scopes)

Advances(t) == Good(t) /\ Within(t.byId) /\ Ahead(byId, t.byId)

LEMMA StoresGood ==
  ASSUME CredInv
  PROVE  Good(Stores) /\ Within(Stores.byId) /\ Stores.byId = byId
  <1>1. /\ Stores.byId = byId /\ Stores.reveals = reveals
        /\ Stores \in AllStores
    BY DEF Stores, AllStores, CredInv, CredTypeOK
  <1>2. \A k \in Ids : Dated(byId[k]) BY DEF CredInv, CredTypeOK, Issued, Dated
  <1>3. Good(Stores) BY <1>1, <1>2 DEF Good, CredInv, CredTypeOK, RevokedHoldsNoReveals
  <1> QED BY <1>1, <1>3 DEF Within, CredInv, LimitRespected

LEMMA FollowsAdvances ==
  ASSUME CredInv, NEW t, Good(t), Follows(byId, t.byId)
  PROVE  Advances(t)
  <1>1. Within(byId) BY StoresGood
  <1> QED BY <1>1, FollowsWithin DEF Advances, Ahead, Follows

LEMMA CommitAdvances ==
  ASSUME CredInv, NEW t, Advances(t), Commit(t)
  PROVE  CredInv' /\ Ahead(byId, byId')
  <1>1. byId' = t.byId /\ reveals' = t.reveals /\ mutated' = t.mutated /\ notified' = t.notified
        /\ now' = now
    BY DEF Commit
  <1>2. t \in AllStores /\ now \in Nat /\ \A k \in Ids : Dated(t.byId[k])
    BY DEF Advances, Good
  <1>3. CredTypeOK'
    <2>1. /\ byId' \in [Ids -> Records]
          /\ reveals' \subseteq Ids /\ mutated' \subseteq Ids /\ notified' \subseteq Ids
      BY <1>1, <1>2 DEF AllStores
    <2>2. \A k \in Ids : byId'[k].status # "none" =>
            /\ byId'[k].operator \in Operators
            /\ byId'[k].issuedAt <= byId'[k].lastHeartbeat /\ byId'[k].lastHeartbeat <= now'
            /\ byId'[k].status = "revoked" => byId'[k].revokedAt \in byId'[k].issuedAt..now'
      BY <1>1, <1>2 DEF Dated
    <2> QED BY <1>1, <1>2, <2>1, <2>2 DEF CredTypeOK, Issued
  <1>4. RevokedHoldsNoReveals' BY <1>1 DEF RevokedHoldsNoReveals, Advances, Good
  <1>5. LimitRespected'
    BY <1>1 DEF LimitRespected, Advances, Within, getActiveForOperator
  <1> QED BY <1>1, <1>3, <1>4, <1>5 DEF CredInv, Advances

LEMMA IssueAdvances ==
  ASSUME CredInv, NEW s, Good(s), Follows(byId, s.byId),
         NEW op \in Operators, NEW scopes \in ScopeSets, NEW ttl \in Ttls,
         issueCredential(s, op, scopes, ttl)
  PROVE  CredInv' /\ Ahead(byId, byId')
  <1>1. Within(s.byId) BY FollowsWithin, StoresGood
  <1>2. PICK room \in MakeRoom(s, op) :
          \/ Commit(room)
          \/ \E k \in Ids \ Issued : Commit(SetRecord(room, k, NewRecord(op, scopes, ttl)))
    BY DEF issueCredential
  <1>3. /\ Good(room) /\ Follows(s.byId, room.byId) /\ Within(room.byId)
        /\ Cardinality(getActiveForOperator(room.byId, op)) < MaxConcurrent
    BY <1>1, MakeRoomGood
  <1>4. Follows(byId, room.byId) BY <1>3, FollowsTrans
  <1>5. CASE Commit(room)
    BY <1>3, <1>4, <1>5, FollowsAdvances, CommitAdvances
  <1>6. CASE \E k \in Ids \ Issued : Commit(SetRecord(room, k, NewRecord(op, scopes, ttl)))
    <2>1. PICK k \in Ids \ Issued : Commit(SetRecord(room, k, NewRecord(op, scopes, ttl)))
      BY <1>6
    <2> DEFINE r == NewRecord(op, scopes, ttl)
               t == SetRecord(room, k, r)
    <2>2. /\ r \in Records /\ Dated(r) /\ r.status = "active" /\ r.operator = op
      <3>1. now \in Nat /\ ttl \in Nat BY LimitsAssumption DEF Good
      <3> QED BY <3>1 DEF NewRecord, Records, Statuses, Dated
    <2> HIDE DEF r
    <2>3. Good(t) /\ t.byId = [room.byId EXCEPT ![k] = r] BY <1>3, <2>2, SetRecordGood
    <2>4. room.byId \in [Ids -> Records] BY <1>3 DEF Good, AllStores
    <2> HIDE DEF t
    <2>5. \A j \in Ids : t.byId[j] = IF j = k THEN r ELSE room.byId[j] BY <2>3, <2>4
    <2>6. Within(t.byId)
      <3> SUFFICES ASSUME NEW o \in Operators
                   PROVE  Cardinality(getActiveForOperator(t.byId, o)) <= MaxConcurrent
        BY DEF Within
      <3>1. CASE o = op
        <4>1. getActiveForOperator(t.byId, o)
                \subseteq getActiveForOperator(room.byId, op) \cup {k}
          BY <2>5, <3>1 DEF getActiveForOperator
        <4>2. /\ IsFiniteSet(getActiveForOperator(room.byId, op) \cup {k})
              /\ Cardinality(getActiveForOperator(room.byId, op) \cup {k})
                   <= Cardinality(getActiveForOperator(room.byId, op)) + 1
          <5> DEFINE A == getActiveForOperator(room.byId, op)
          <5>1. IsFiniteSet(A) /\ Cardinality(A) \in Nat BY ActiveFinite
          <5> HIDE DEF A
          <5>2. /\ IsFiniteSet(A \cup {k})
                /\ Cardinality(A \cup {k}) = IF k \in A THEN Cardinality(A) ELSE Cardinality(A) + 1
            BY <5>1, FS_AddElement, Zenon
          <5>3. Cardinality(A \cup {k}) <= Cardinality(A) + 1 BY <5>1, <5>2
          <5> QED BY <5>2, <5>3 DEF A
        <4>3. Cardinality(getActiveForOperator(t.byId, o))
                <= Cardinality(getActiveForOperator(room.byId, op) \cup {k})
          BY <4>1, <4>2, FS_Subset
        <4>4. Cardinality(getActiveForOperator(room.byId, op) \cup {k}) \in Nat
          BY <4>2, FS_CardinalityType
        <4> QED BY <1>3, <4>2, <4>3, <4>4, ActiveFinite, LimitsAssumption
      <3>2. CASE o # op
        <4>1. getActiveForOperator(t.byId, o) \subseteq getActiveForOperator(room.byId, o)
          BY <2>2, <2>5, <3>2 DEF getActiveForOperator
        <4>2. Cardinality(getActiveForOperator(t.byId, o))
                <= Cardinality(getActiveForOperator(room.byId, o))
          BY <4>1, ActiveFinite, FS_Subset
        <4>3. Cardinality(getActiveForOperator(room.byId, o)) <= MaxConcurrent
          BY <1>3 DEF Within
        <4> QED BY <4>2, <4>3, ActiveFinite, LimitsAssumption
      <3> QED BY <3>1, <3>2
    <2>7. Ahead(byId, t.byId) BY <1>4, <2>5 DEF Ahead, Follows, Issued
    <2>8. Advances(t) BY <2>3, <2>6, <2>7 DEF Advances
    <2>9. Commit(t) BY <2>1 DEF t, r
    <2> QED BY <2>8, <2>9, CommitAdvances
  <1> QED BY <1>2, <1>5, <1>6

LEMMA UpdateCases ==
  ASSUME NEW old \in ScopeSets, NEW new \in ScopeSets, ~requiresReauthorization(old, new)
  PROVE  Allowed(new) \subseteq Allowed(old)
  BY DEF requiresReauthorization

LEMMA CredStep ==
  ASSUME CredInv, Next
  PROVE  CredInv' /\ Ahead(byId, byId')
  <1> USE StoresGood
  <1>0. Good(Stores) /\ Stores.byId = byId /\ Follows(byId, Stores.byId)
    BY FollowsRefl
  <1>s. Good(LookedUp) /\ Follows(byId, LookedUp.byId)
    BY <1>0, SweepGood DEF LookedUp
  <1>r. byId \in [Ids -> Records] /\ LookedUp.byId \in [Ids -> Records] /\ now \in Nat
    BY <1>0, <1>s DEF Good, AllStores
  <1>u. \A k \in Ids : StillActive(k) =>
          LookedUp.byId[k].status = "active" /\ byId[k].status # "none"
    BY DEF StillActive, Issued
  <1>1. CASE Tick
    <2>1. byId' = byId /\ reveals' = reveals /\ now' = now + 1 /\ mutated' = {} /\ notified' = {}
      BY <1>1 DEF Tick
    <2>2. CredTypeOK'
      <3>1. \A k \in Ids : byId[k].status # "none" =>
              /\ byId[k].operator \in Operators
              /\ byId[k].issuedAt <= byId[k].lastHeartbeat /\ byId[k].lastHeartbeat <= now + 1
              /\ byId[k].status = "revoked" => byId[k].revokedAt \in byId[k].issuedAt..(now + 1)
        BY <1>0, <1>r DEF Good, Dated, Records
      <3> QED BY <1>r, <2>1, <3>1 DEF CredTypeOK, Issued, CredInv
    <2>3. RevokedHoldsNoReveals' BY <2>1 DEF CredInv, RevokedHoldsNoReveals
    <2>4. LimitRespected' BY <2>1 DEF CredInv, LimitRespected, getActiveForOperator
    <2> QED BY <2>1, <2>2, <2>3, <2>4 DEF CredInv, Ahead
  <1>2. CASE Sweep
    BY <1>2, <1>s, FollowsAdvances, CommitAdvances DEF Sweep, LookedUp
  <1>3. ASSUME NEW op \in Operators, RevokeAll(op) PROVE CredInv' /\ Ahead(byId, byId')
    <2>1. getActiveForOperator(byId, op) \subseteq IssuedIn(Stores.byId)
      BY <1>0 DEF getActiveForOperator, IssuedIn
    <2> DEFINE t == revokeRecord(Stores, getActiveForOperator(byId, op))
    <2>2. Good(t) /\ Follows(byId, t.byId) BY <1>0, <2>1, RevokeGood
    <2> QED BY <1>3, <2>2, FollowsAdvances, CommitAdvances DEF RevokeAll
  <1>4. ASSUME NEW op \in Operators, NEW scopes \in ScopeSets, NEW ttl \in Ttls,
               Issue(op, scopes, ttl) \/ IssueResolved(op, scopes, ttl)
        PROVE  CredInv' /\ Ahead(byId, byId')
    BY <1>0, <1>s, <1>4, IssueAdvances DEF Issue, IssueResolved, LookedUp
  <1>5. ASSUME NEW k \in Ids, LookupByToken(k) PROVE CredInv' /\ Ahead(byId, byId')
    <2>1. {k} \subseteq IssuedIn(Stores.byId) BY <1>0, <1>5 DEF LookupByToken, Issued, IssuedIn
    <2>2. Good(SetStatus(Stores, {k}, "expired"))
          /\ Follows(byId, SetStatus(Stores, {k}, "expired").byId)
      BY <1>0, <2>1, SetStatusGood
    <2> QED BY <1>5, <2>2, FollowsAdvances, CommitAdvances DEF LookupByToken
  <1>6. ASSUME NEW k \in Ids, Heartbeat(k) PROVE CredInv' /\ Ahead(byId, byId')
    <2> DEFINE r == [LookedUp.byId[k] EXCEPT !.lastHeartbeat = now]
               t == SetRecord(LookedUp, k, r)
    <2>1. LookedUp.byId[k].status = "active" BY <1>6, <1>u DEF Heartbeat
    <2>2. /\ r \in Records /\ r.status = "active"
          /\ r.operator = LookedUp.byId[k].operator /\ r.scopes = LookedUp.byId[k].scopes
          /\ r.issuedAt = LookedUp.byId[k].issuedAt /\ r.lastHeartbeat = now
      BY <1>r, <2>1 DEF Records
    <2> HIDE DEF r
    <2>3. Dated(r)
      <3>1. Dated(LookedUp.byId[k]) /\ LookedUp.byId[k] \in Records BY <1>s, <1>r DEF Good
      <3> QED BY <1>r, <2>1, <2>2, <3>1 DEF Dated, Records
    <2>4. Good(t) /\ t.byId = [LookedUp.byId EXCEPT ![k] = r] BY <1>s, <2>2, <2>3, SetRecordGood
    <2>5. Commit(t) BY <1>6 DEF Heartbeat, r
    <2> HIDE DEF t
    <2>6. \A j \in Ids : t.byId[j] = IF j = k THEN r ELSE LookedUp.byId[j] BY <1>r, <2>4
    <2>7. Follows(LookedUp.byId, t.byId) BY <2>1, <2>2, <2>6 DEF Follows
    <2> QED BY <1>s, <2>4, <2>5, <2>7, FollowsTrans, FollowsAdvances, CommitAdvances
  <1>7. ASSUME NEW k \in Ids, Reveal(k) PROVE CredInv' /\ Ahead(byId, byId')
    <2>1. LookedUp.byId[k].status # "revoked" BY <1>7, <1>u DEF Reveal
    <2>2. Good(recordReveal(LookedUp, k)) /\ recordReveal(LookedUp, k).byId = LookedUp.byId
      BY <1>s, <2>1, RecordRevealGood
    <2> QED BY <1>7, <1>s, <2>2, FollowsAdvances, CommitAdvances DEF Reveal
  <1>8. ASSUME NEW k \in Ids, Renew(k) PROVE CredInv' /\ Ahead(byId, byId')
    <2> DEFINE r == [byId[k] EXCEPT !.expiresAt = now + byId[k].ttl]
               t == SetRecord(Stores, k, r)
    <2>1. byId[k].status = "active" /\ byId[k] \in Records BY <1>8, <1>r DEF Renew
    <2>2. now + byId[k].ttl \in Nat BY <1>r, <2>1 DEF Records
    <2>3. /\ r \in Records /\ r.status = "active"
          /\ r.operator = byId[k].operator /\ r.scopes = byId[k].scopes
          /\ r.issuedAt = byId[k].issuedAt /\ r.lastHeartbeat = byId[k].lastHeartbeat
      BY <2>1, <2>2 DEF Records
    <2> HIDE DEF r
    <2>4. Dated(r)
      <3>1. Dated(byId[k]) BY <1>0 DEF Good
      <3> QED BY <2>1, <2>3, <3>1 DEF Dated
    <2>5. Good(t) /\ t.byId = [byId EXCEPT ![k] = r] BY <1>0, <2>3, <2>4, SetRecordGood
    <2>6. Commit(t) BY <1>8 DEF Renew, r
    <2> HIDE DEF t
    <2>7. \A j \in Ids : t.byId[j] = IF j = k THEN r ELSE byId[j] BY <1>r, <2>5
    <2>8. Follows(byId, t.byId) BY <2>1, <2>3, <2>7 DEF Follows
    <2> QED BY <2>5, <2>6, <2>8, FollowsAdvances, CommitAdvances
  <1>9. ASSUME NEW k \in Ids, k \in Issued, Commit(revokeRecord(Stores, {k}))
        PROVE  CredInv' /\ Ahead(byId, byId')
    <2>1. {k} \subseteq IssuedIn(Stores.byId) BY <1>0, <1>9 DEF Issued, IssuedIn
    <2>2. Good(revokeRecord(Stores, {k})) /\ Follows(byId, revokeRecord(Stores, {k}).byId)
      BY <1>0, <2>1, RevokeGood
    <2> QED BY <1>9, <2>2, FollowsAdvances, CommitAdvances
  <1>10. ASSUME NEW k \in Ids, NEW new \in ScopeSets, Update(k, new)
         PROVE  CredInv' /\ Ahead(byId, byId')
    <2>1. CASE Commit(revokeRecord(Stores, {k})) BY <1>9, <1>10, <2>1 DEF Update
    <2>2. CASE ~requiresReauthorization(byId[k].scopes, new)
               /\ Commit(updateCredentialScopes(Stores, k, new))
      <3>1. byId[k].scopes \in ScopeSets BY <1>r DEF Records
      <3>2. byId[k].status # "none" BY <1>10 DEF Update, Issued
      <3>3. Allowed(new) \subseteq Allowed(byId[k].scopes) BY <2>2, <3>1, UpdateCases
      <3>4. /\ Good(updateCredentialScopes(Stores, k, new))
            /\ Follows(byId, updateCredentialScopes(Stores, k, new).byId)
        BY <1>0, <3>2, <3>3, UpdateScopesGood
      <3> QED BY <2>2, <3>4, FollowsAdvances, CommitAdvances
    <2> QED BY <1>10, <2>1, <2>2 DEF Update
  <1>11. ASSUME NEW k \in Ids, NEW new \in ScopeSets, UpdateScopesRequest(k, new)
         PROVE  CredInv' /\ Ahead(byId, byId')
    <2>0. StillActive(k) /\ LookedUp.byId[k].status = "active"
      BY <1>11, <1>u DEF UpdateScopesRequest
    <2>1. CASE Commit(SetStatus(LookedUp, {k}, "pending"))
      <3>1. {k} \subseteq IssuedIn(LookedUp.byId) BY <2>0 DEF IssuedIn
      <3>2. /\ Good(SetStatus(LookedUp, {k}, "pending"))
            /\ Follows(LookedUp.byId, SetStatus(LookedUp, {k}, "pending").byId)
        BY <1>s, <3>1, SetStatusGood
      <3> QED BY <1>s, <2>1, <3>2, FollowsTrans, FollowsAdvances, CommitAdvances
    <2>2. CASE ~requiresReauthorization(LookedUp.byId[k].scopes, new)
               /\ Commit(updateCredentialScopes(LookedUp, k, new))
      <3>2. LookedUp.byId[k].scopes \in ScopeSets BY <1>r DEF Records
      <3>3. Allowed(new) \subseteq Allowed(LookedUp.byId[k].scopes)
        BY <2>2, <3>2, UpdateCases
      <3>4. /\ Good(updateCredentialScopes(LookedUp, k, new))
            /\ Follows(LookedUp.byId, updateCredentialScopes(LookedUp, k, new).byId)
        BY <1>s, <2>0, <3>3, UpdateScopesGood
      <3> QED BY <1>s, <2>2, <3>4, FollowsTrans, FollowsAdvances, CommitAdvances
    <2> QED BY <1>11, <2>1, <2>2 DEF UpdateScopesRequest
  <1> QED BY <1>1, <1>2, <1>3, <1>4, <1>5, <1>6, <1>7, <1>8, <1>9, <1>10, <1>11
          DEF Next, Revoke

-----------------------------------------------------------------------------
(* The theorems *)

\* Types and dates, the limit per operator and the reveals of revoked
\* credentials (upsertRecord, mutateRecord, issueCredential, revokeRecord).
THEOREM CredInvariant == Spec => []CredInv
  <1>1. Init => CredInv
    <2> SUFFICES ASSUME Init PROVE CredInv
      OBVIOUS
    <2>1. Unissued \in Records /\ Unissued.status = "none"
      BY DEF Unissued, Records, Statuses, ScopeSets
    <2>2. \A k \in Ids : byId[k] = Unissued BY DEF Init
    <2>3. CredTypeOK BY <2>1, <2>2 DEF Init, CredTypeOK, Issued
    <2>4. RevokedHoldsNoReveals BY DEF Init, RevokedHoldsNoReveals
    <2>5. LimitRespected
      <3> SUFFICES ASSUME NEW op \in Operators
                   PROVE  Cardinality(getActiveForOperator(byId, op)) <= MaxConcurrent
        BY DEF LimitRespected
      <3>1. getActiveForOperator(byId, op) = {} BY <2>1, <2>2 DEF getActiveForOperator
      <3>2. Cardinality(getActiveForOperator(byId, op)) = 0 BY <3>1, FS_EmptySet
      <3> QED BY <3>2, LimitsAssumption
    <2> QED BY <2>3, <2>4, <2>5 DEF CredInv
  <1>2. CredInv /\ [Next]_vars => CredInv'
    <2> SUFFICES ASSUME CredInv, [Next]_vars PROVE CredInv'
      OBVIOUS
    <2>1. CASE Next BY <2>1, CredStep
    <2>2. CASE UNCHANGED vars
      BY <2>2 DEF vars, CredInv, CredTypeOK, Issued, RevokedHoldsNoReveals, LimitRespected,
                  getActiveForOperator
    <2> QED BY <2>1, <2>2
  <1> QED BY <1>1, <1>2, PTL DEF Spec

\* No operator exceeds its limit of active credentials (issueCredential).
THEOREM LimitHolds == Spec => []LimitRespected
  <1>1. CredInv => LimitRespected BY DEF CredInv
  <1> QED BY <1>1, CredInvariant, PTL

\* The reveals of a credential do not survive its revocation (revokeRecord).
THEOREM RevealsEnd == Spec => []RevokedHoldsNoReveals
  <1>1. CredInv => RevokedHoldsNoReveals BY DEF CredInv
  <1> QED BY <1>1, CredInvariant, PTL

\* The permissions of a credential never grow (checkMateriality, update,
\* handleUpdateScopes, credential.updateScopes).
THEOREM PermissionsShrink == Spec => NoEscalation
  <1>1. CredInv /\ [Next]_vars =>
          [\A k \in Issued : Allowed(byId'[k].scopes) \subseteq Allowed(byId[k].scopes)]_vars
    <2> SUFFICES ASSUME CredInv, Next
                 PROVE  \A k \in Issued : Allowed(byId'[k].scopes) \subseteq Allowed(byId[k].scopes)
      OBVIOUS
    <2> QED BY CredStep DEF Ahead, Issued
  <1> QED BY <1>1, CredInvariant, PTL DEF Spec, NoEscalation

\* A credential that stopped being active never is again (renewCredential,
\* setCredentialStatus, issueCredential).
THEOREM NoReactivation == Spec => NeverReactivated
  <1>1. CredInv /\ [Next]_vars =>
          [\A k \in Issued : byId[k].status # "active" => byId'[k].status # "active"]_vars
    <2> SUFFICES ASSUME CredInv, Next
                 PROVE  \A k \in Issued : byId[k].status # "active" => byId'[k].status # "active"
      OBVIOUS
    <2> QED BY CredStep DEF Ahead, Issued
  <1> QED BY <1>1, CredInvariant, PTL DEF Spec, NeverReactivated

\* A credential only ever loses (checkMateriality, renewCredential,
\* setCredentialStatus).
THEOREM OnlyShrink == Spec => CredentialsOnlyShrink
  BY PermissionsShrink, NoReactivation DEF CredentialsOnlyShrink

-----------------------------------------------------------------------------
(* Announcements: what a call changes, it reports, however many transformers  *)
(* it composes.                                                               *)

Told(s) ==
  /\ s.byId \in [Ids -> Records]
  /\ \A k \in Issued :
       /\ \/ s.byId[k].status = byId[k].status /\ s.byId[k].scopes = byId[k].scopes
          \/ k \in s.mutated
       /\ s.byId[k].status = "revoked" /\ byId[k].status # "revoked" => k \in s.notified

LEMMA StoresTold == ASSUME CredInv PROVE Told(Stores)
  BY DEF Told, Stores, CredInv, CredTypeOK

LEMMA SetStatusTold ==
  ASSUME NEW s, Told(s), NEW K, NEW st \in {"pending", "expired"}
  PROVE  Told(SetStatus(s, K, st))
  <1> DEFINE t == SetStatus(s, K, st)
  <1>1. /\ t.byId = [k \in Ids |->
              IF k \in K THEN [s.byId[k] EXCEPT !.status = st] ELSE s.byId[k]]
        /\ t.mutated = s.mutated \cup K
        /\ t.notified = s.notified
    BY DEF SetStatus
  <1> HIDE DEF t
  <1>2. ASSUME NEW k \in Ids
        PROVE  /\ t.byId[k] \in Records
               /\ t.byId[k].scopes = s.byId[k].scopes
               /\ t.byId[k].status = IF k \in K THEN st ELSE s.byId[k].status
    <2>1. s.byId[k] \in Records BY DEF Told
    <2> QED BY <1>1, <2>1 DEF Records, Statuses
  <1>3. t.byId \in [Ids -> Records] BY <1>1, <1>2
  <1> QED BY <1>1, <1>2, <1>3 DEF Told, Issued, t

LEMMA CleanupTold ==
  ASSUME NEW s, Told(s), NEW K
  PROVE  Told(cleanupRevealState(s, K))
  BY DEF Told, cleanupRevealState

LEMMA RevokeTold ==
  ASSUME NEW s, Told(s), now \in Nat, NEW K
  PROVE  Told(revokeRecord(s, K))
  <1> DEFINE t == revokeRecord(s, K)
  <1>1. /\ t.byId = [k \in Ids |->
              IF k \in K THEN [s.byId[k] EXCEPT !.status = "revoked", !.revokedAt = now]
              ELSE s.byId[k]]
        /\ t.mutated = s.mutated \cup K
        /\ t.notified = s.notified \cup K
    BY DEF revokeRecord
  <1> HIDE DEF t
  <1>2. ASSUME NEW k \in Ids
        PROVE  /\ t.byId[k] \in Records
               /\ k \notin K => t.byId[k] = s.byId[k]
    <2>1. s.byId[k] \in Records BY DEF Told
    <2>2. t.byId[k] = IF k \in K
                      THEN [s.byId[k] EXCEPT !.status = "revoked", !.revokedAt = now]
                      ELSE s.byId[k]
      BY <1>1
    <2> QED BY <2>1, <2>2 DEF Records, Statuses
  <1>3. t.byId \in [Ids -> Records] BY <1>1, <1>2
  <1>4. ASSUME NEW k \in Issued
        PROVE  /\ \/ t.byId[k].status = byId[k].status /\ t.byId[k].scopes = byId[k].scopes
                  \/ k \in t.mutated
               /\ t.byId[k].status = "revoked" /\ byId[k].status # "revoked" => k \in t.notified
    <2>1. CASE k \in K BY <1>1, <2>1
    <2>2. CASE k \notin K BY <1>1, <1>2, <2>2 DEF Told, Issued
    <2> QED BY <2>1, <2>2
  <1> QED BY <1>3, <1>4 DEF Told, t

LEMMA SweepTold ==
  ASSUME NEW s, Told(s), now \in Nat
  PROVE  Told(sweepExpired(s))
  <1> DEFINE active == {k \in Ids : s.byId[k].status = "active"}
             late   == {k \in active : now >= s.byId[k].expiresAt}
             silent == {k \in active \ late : HeartbeatStale(s.byId[k])}
             clean  == cleanupRevealState(s, late)
             aged   == SetStatus(clean, late, "expired")
  <1>1. sweepExpired(s) = revokeRecord(aged, silent) BY DEF sweepExpired
  <1>2. Told(clean) BY CleanupTold
  <1> HIDE DEF clean, late, silent
  <1>3. Told(aged) BY <1>2, SetStatusTold
  <1> HIDE DEF aged
  <1> QED BY <1>1, <1>3, RevokeTold

\* A record that is new, or that keeps its status and its scopes.
LEMMA SetRecordTold ==
  ASSUME NEW s, Told(s), NEW k \in Ids, NEW r \in Records,
         k \in Issued => r.status = s.byId[k].status /\ r.scopes = s.byId[k].scopes
  PROVE  Told(SetRecord(s, k, r))
  <1> DEFINE t == SetRecord(s, k, r)
  <1>1. /\ t.byId = [s.byId EXCEPT ![k] = r]
        /\ t.mutated = s.mutated /\ t.notified = s.notified
    BY DEF SetRecord
  <1> HIDE DEF t
  <1>2. s.byId \in [Ids -> Records] BY DEF Told
  <1>3. t.byId \in [Ids -> Records] BY <1>1, <1>2
  <1>4. \A j \in Ids : t.byId[j] = IF j = k THEN r ELSE s.byId[j] BY <1>1, <1>2
  <1>5. \A j \in Issued :
          t.byId[j].status = s.byId[j].status /\ t.byId[j].scopes = s.byId[j].scopes
    BY <1>4 DEF Issued
  <1> QED BY <1>1, <1>3, <1>5 DEF Told, t

LEMMA RecordRevealTold ==
  ASSUME NEW s, Told(s), NEW k PROVE Told(recordReveal(s, k))
  BY DEF Told, recordReveal

LEMMA UpdateScopesTold ==
  ASSUME NEW s, Told(s), NEW k \in Ids, NEW new \in ScopeSets
  PROVE  Told(updateCredentialScopes(s, k, new))
  <1> DEFINE t == updateCredentialScopes(s, k, new)
             r == [s.byId[k] EXCEPT !.scopes = new]
  <1>1. /\ t.byId = [s.byId EXCEPT ![k] = r]
        /\ t.mutated = s.mutated \cup {k} /\ t.notified = s.notified
    BY DEF updateCredentialScopes
  <1>2. s.byId \in [Ids -> Records] BY DEF Told
  <1>3. r \in Records /\ r.status = s.byId[k].status BY <1>2 DEF Records
  <1> HIDE DEF t, r
  <1>4. t.byId \in [Ids -> Records] BY <1>1, <1>2, <1>3
  <1>5. \A j \in Ids : t.byId[j] = IF j = k THEN r ELSE s.byId[j] BY <1>1, <1>2
  <1>6. ASSUME NEW j \in Issued
        PROVE  /\ \/ t.byId[j].status = byId[j].status /\ t.byId[j].scopes = byId[j].scopes
                  \/ j \in t.mutated
               /\ t.byId[j].status = "revoked" /\ byId[j].status # "revoked" => j \in t.notified
    <2>1. t.byId[j].status = s.byId[j].status BY <1>3, <1>5 DEF Issued
    <2>2. j # k => t.byId[j] = s.byId[j] BY <1>5 DEF Issued
    <2> QED BY <1>1, <2>1, <2>2 DEF Told
  <1> QED BY <1>4, <1>6 DEF Told, t

LEMMA IssueTold ==
  ASSUME NEW s, Told(s), now \in Nat,
         NEW op \in Operators, NEW scopes \in ScopeSets, NEW ttl \in Ttls,
         issueCredential(s, op, scopes, ttl)
  PROVE  \E t : Told(t) /\ Commit(t)
  <1>1. PICK room \in MakeRoom(s, op) :
          \/ Commit(room)
          \/ \E k \in Ids \ Issued : Commit(SetRecord(room, k, NewRecord(op, scopes, ttl)))
    BY DEF issueCredential
  <1>2. Told(room)
    <2>1. room = s \/ \E k \in Oldest(s.byId, op) : room = revokeRecord(s, {k}) BY DEF MakeRoom
    <2> QED BY <2>1, RevokeTold
  <1>3. ASSUME NEW k \in Ids \ Issued
        PROVE  Told(SetRecord(room, k, NewRecord(op, scopes, ttl)))
    <2>1. NewRecord(op, scopes, ttl) \in Records
      BY LimitsAssumption DEF NewRecord, Records, Statuses
    <2> QED BY <1>2, <2>1, SetRecordTold
  <1> QED BY <1>1, <1>2, <1>3

LEMMA StepTold ==
  ASSUME CredInv, Next
  PROVE  Tick \/ \E t : Told(t) /\ Commit(t)
  <1>1. Told(Stores) /\ now \in Nat /\ byId \in [Ids -> Records] /\ Stores.byId = byId
    BY StoresTold DEF CredInv, CredTypeOK, Stores
  <1>2. Told(LookedUp) BY <1>1, SweepTold DEF LookedUp
  <1>3. LookedUp.byId \in [Ids -> Records] BY <1>2 DEF Told
  <1>4. CASE Sweep BY <1>2, <1>4 DEF Sweep, LookedUp
  <1>5. CASE \E op \in Operators : RevokeAll(op) BY <1>1, <1>5, RevokeTold DEF RevokeAll
  <1>6. ASSUME NEW op \in Operators, NEW scopes \in ScopeSets, NEW ttl \in Ttls,
               Issue(op, scopes, ttl) \/ IssueResolved(op, scopes, ttl)
        PROVE  \E t : Told(t) /\ Commit(t)
    BY <1>1, <1>2, <1>6, IssueTold DEF Issue, IssueResolved, LookedUp
  <1>7. ASSUME NEW k \in Ids, LookupByToken(k) PROVE \E t : Told(t) /\ Commit(t)
    BY <1>1, <1>7, SetStatusTold DEF LookupByToken
  <1>8. ASSUME NEW k \in Ids, Heartbeat(k) PROVE \E t : Told(t) /\ Commit(t)
    <2> DEFINE r == [LookedUp.byId[k] EXCEPT !.lastHeartbeat = now]
    <2>1. r \in Records /\ r.status = LookedUp.byId[k].status
            /\ r.scopes = LookedUp.byId[k].scopes
      BY <1>1, <1>3 DEF Records
    <2>2. Told(SetRecord(LookedUp, k, r)) BY <1>2, <2>1, SetRecordTold
    <2> QED BY <1>8, <2>2 DEF Heartbeat
  <1>9. ASSUME NEW k \in Ids, Reveal(k) PROVE \E t : Told(t) /\ Commit(t)
    BY <1>2, <1>9, RecordRevealTold DEF Reveal
  <1>10. ASSUME NEW k \in Ids, Renew(k) PROVE \E t : Told(t) /\ Commit(t)
    <2> DEFINE r == [byId[k] EXCEPT !.expiresAt = now + byId[k].ttl]
    <2>1. now + byId[k].ttl \in Nat BY <1>1 DEF Records
    <2>2. r \in Records /\ r.status = byId[k].status /\ r.scopes = byId[k].scopes
      BY <1>1, <2>1 DEF Records
    <2>3. Told(SetRecord(Stores, k, r)) BY <1>1, <2>2, SetRecordTold
    <2> QED BY <1>10, <2>3 DEF Renew
  <1>11. ASSUME NEW k \in Ids, Revoke(k) PROVE \E t : Told(t) /\ Commit(t)
    BY <1>1, <1>11, RevokeTold DEF Revoke
  <1>12. ASSUME NEW k \in Ids, NEW new \in ScopeSets, UpdateScopesRequest(k, new)
         PROVE  \E t : Told(t) /\ Commit(t)
    BY <1>2, <1>12, SetStatusTold, UpdateScopesTold DEF UpdateScopesRequest
  <1>13. ASSUME NEW k \in Ids, NEW new \in ScopeSets, Update(k, new)
         PROVE  \E t : Told(t) /\ Commit(t)
    BY <1>1, <1>13, RevokeTold, UpdateScopesTold DEF Update
  <1> QED BY <1>4, <1>5, <1>6, <1>7, <1>8, <1>9, <1>10, <1>11, <1>12, <1>13 DEF Next

\* Every change of status or scopes reaches onCredentialMutated and every
\* revocation onCredentialRevoked, whichever of its callers the manager serves
\* and however many records a call sweeps or evicts on the way (mutateRecord,
\* revokeRecord, sweepExpired, issueCredential).
THEOREM ChangesAreAnnounced == Spec => MutationsAnnounced
  <1> DEFINE Announced ==
        \A k \in Issued :
          /\ \/ byId'[k].status = byId[k].status /\ byId'[k].scopes = byId[k].scopes
             \/ k \in mutated'
          /\ byId'[k].status = "revoked" /\ byId[k].status # "revoked" => k \in notified'
  <1>1. CredInv /\ [Next]_vars => [Announced]_vars
    <2> SUFFICES ASSUME CredInv, Next PROVE Announced
      OBVIOUS
    <2>1. CASE Tick BY <2>1 DEF Tick
    <2>2. CASE \E t : Told(t) /\ Commit(t) BY <2>2 DEF Told, Commit
    <2> QED BY <2>1, <2>2, StepTold
  <1> QED BY <1>1, CredInvariant, PTL DEF Spec, MutationsAnnounced
=============================================================================
