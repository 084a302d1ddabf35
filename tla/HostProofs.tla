----------------------------- MODULE HostProofs -----------------------------
(***************************************************************************)
(* The three conversations of the daemon with the outside that MCHost      *)
(* checks, for every value of their constants:                             *)
(*   - ReadElevation: a dangerous read happens only inside the window of   *)
(*     an approval given in its own admin session, and what a session can  *)
(*     still read is in the disclosure store, whatever prompts, timers,    *)
(*     audit failures and rollbacks interleave;                            *)
(*   - Onboarding: a join request is accepted once and only for a live     *)
(*     invite, and an attempt that failed leaves no identity behind;       *)
(*   - AdminChannel: an exit status tells the truth about what ran.        *)
(* The three share no state; each has its own inductive invariant.         *)
(***************************************************************************)
EXTENDS Onboarding, ReadElevation, AdminChannel, TLAPS, FiniteSetTheorems

-----------------------------------------------------------------------------
(* Admin read elevation.                                                     *)

SessionOrNone == AdminSessions \union {NoSession}

Elevations == [sess : SessionOrNone, exp : Int]

Places ==
  {"idle", "reuse", "prompt", "fingerprint", "approveNotify", "approveAudit", "approveUndo",
   "rollbackNotify", "expireNotify", "expireRestore", "expireAudit", "read", "served", "done"}

Calls == [at : Places, sess : SessionOrNone, elev : Elevations, changed : BOOLEAN, time : Int]

\* An elevation of session s that the owner has approved by now.
ApprovedFor(e, s) == e.sess = s /\ e.exp - TtlMs <= clock

\* Where a call holds the elevation it will read with.
Holding == {"reuse", "approveNotify", "approveAudit", "read", "served"}

CallHolds(r) ==
  /\ r.at \in Holding => ApprovedFor(r.elev, r.sess)
  /\ r.at = "served" => r.time \in (r.elev.exp - TtlMs) .. (r.elev.exp - 1)

ElevTypes ==
  /\ clock \in Int
  /\ cache \in [AdminSessions -> Elevations]
  /\ timers \in [AdminSessions -> Elevations]
  /\ procs \in [Processes -> Calls]

\* An elevation is cached under the session that it was approved in: what a
\* request reuses was never another session's.
CacheHolds == \A s \in AdminSessions : cache[s] # NoElevation => ApprovedFor(cache[s], s)

CallsHold == \A p \in Processes : CallHolds(procs[p])

ElevInv == ElevTypes /\ CacheHolds /\ CallsHold

\* An idle call is a call without an elevation.
LEMMA IdleCalls ==
  /\ NoElevation \in Elevations /\ NoSession \in SessionOrNone
  /\ \A s \in SessionOrNone : /\ Idle(s) \in Calls
                              /\ Idle(s).at = "idle" /\ Idle(s).sess = s
<1>1. NoElevation \in Elevations /\ NoSession \in SessionOrNone
  BY DEF NoElevation, Elevations, SessionOrNone, NoSession
<1>2. ASSUME NEW s \in SessionOrNone PROVE Idle(s) \in Calls
  BY <1>1 DEF Idle, Calls, Places
<1> QED
  BY <1>1, <1>2 DEF Idle

\* No elevation exists at first.
LEMMA InitElev == ElevationInit => ElevInv
<1> SUFFICES ASSUME ElevationInit PROVE ElevInv
  OBVIOUS
<1>1. ElevTypes
  BY IdleCalls DEF ElevationInit, ElevTypes
<1>2. CacheHolds /\ CallsHold
  BY DEF ElevationInit, CacheHolds, CallsHold, CallHolds, Holding, Idle, NoElevation
<1> QED
  BY <1>1, <1>2 DEF ElevInv

\* A step that only moves call p, to a record that holds what it must, keeps
\* the calls typed and holding.
LEMMA MoveKeeps ==
  ASSUME ElevInv, NEW p \in Processes, NEW r \in Calls, CallHolds(r), Move(p, r), clock' = clock
  PROVE  procs' \in [Processes -> Calls] /\ CallsHold'
<1>1. procs' \in [Processes -> Calls]
  BY DEF ElevInv, ElevTypes, Move
<1>2. ASSUME NEW q \in Processes PROVE CallHolds(procs[q])'
  <2>1. procs'[q] = IF q = p THEN r ELSE procs[q]
    BY DEF ElevInv, ElevTypes, Move
  <2>2. CallHolds(procs[q])
    BY DEF ElevInv, CallsHold
  <2> QED
    BY <2>1, <2>2 DEF CallHolds, ApprovedFor
<1> QED
  BY <1>1, <1>2 DEF CallsHold

\* A call that ends, or goes where it holds no elevation, holds what it must.
LEMMA EndKeeps ==
  ASSUME ElevInv, NEW p \in Processes, End(p), clock' = clock
  PROVE  procs' \in [Processes -> Calls] /\ CallsHold'
<1> DEFINE r == IF p \in ReadRequests THEN [Idle(NoSession) EXCEPT !.at = "done"]
                ELSE Idle(NoSession)
<1>1. r \in Calls
  BY IdleCalls DEF Calls, Places
<1>2. CallHolds(r)
  BY DEF CallHolds, Holding, Idle
<1>3. Move(p, r)
  BY DEF End
<1> HIDE DEF r
<1> QED
  BY <1>1, <1>2, <1>3, MoveKeeps

LEMMA GoKeeps ==
  ASSUME ElevInv, NEW p \in Processes, NEW where \in Places, Go(p, where), clock' = clock,
         where # "served", where \in Holding => procs[p].at \in Holding
  PROVE  procs' \in [Processes -> Calls] /\ CallsHold'
<1> DEFINE r == [procs[p] EXCEPT !.at = where]
<1>0. procs[p] \in Calls /\ CallHolds(procs[p])
  BY DEF ElevInv, ElevTypes, CallsHold
<1>1. r \in Calls
  BY <1>0 DEF Calls
<1>2. r.at = where /\ r.elev = procs[p].elev /\ r.sess = procs[p].sess
  BY <1>0 DEF Calls
<1>3. CallHolds(r)
  BY <1>0, <1>2 DEF CallHolds, ApprovedFor
<1>4. Move(p, r)
  BY DEF Go
<1> HIDE DEF r
<1> QED
  BY <1>1, <1>3, <1>4, MoveKeeps

\* Withdrawing a disclosure leaves the call without an elevation to read with.
LEMMA WithdrawKeeps ==
  ASSUME ElevInv, NEW p \in Processes, NEW r \in Calls, NEW where \in Places \ Holding,
         Withdraw(p, r, where), clock' = clock
  PROVE  procs' \in [Processes -> Calls] /\ CallsHold'
<1> DEFINE c == Changes(entries, StoreDelete(entries, r.elev.sess))
           n == [r EXCEPT !.at = where, !.changed = c]
<1>1. c \in BOOLEAN
  BY DEF Changes
<1>2. Move(p, n)
  BY DEF Withdraw
<1> HIDE DEF c
<1>3. n \in Calls /\ n.at = where
  BY <1>1 DEF Calls
<1>4. CallHolds(n)
  BY <1>3 DEF CallHolds, Holding
<1> HIDE DEF n
<1> QED
  BY <1>2, <1>3, <1>4, MoveKeeps

\* An expiry empties the cache and the timer of its session.
LEMMA ExpireKeeps ==
  ASSUME ElevInv, NEW p \in Processes, NEW s \in AdminSessions, NEW e \in Elevations,
         Expire(p, s, e), clock' = clock
  PROVE  ElevInv'
<1> DEFINE r == [Idle(s) EXCEPT !.elev = e]
<1>1. r \in Calls
  BY IdleCalls DEF Calls, SessionOrNone
<1>2. "expireNotify" \in Places \ Holding
  BY DEF Places, Holding
<1>3. Withdraw(p, r, "expireNotify")
  BY DEF Expire
<1> HIDE DEF r
<1>4. procs' \in [Processes -> Calls] /\ CallsHold'
  BY <1>1, <1>2, <1>3, WithdrawKeeps
<1>6. cache' \in [AdminSessions -> Elevations] /\ timers' \in [AdminSessions -> Elevations]
  BY IdleCalls DEF Expire, ElevInv, ElevTypes
<1>7. CacheHolds'
  <2> SUFFICES ASSUME NEW t \in AdminSessions, cache'[t] # NoElevation
               PROVE  ApprovedFor(cache[t], t)'
    BY DEF CacheHolds
  <2>1. cache'[t] = cache[t]
    BY DEF Expire, ElevInv, ElevTypes
  <2> QED
    BY <2>1 DEF ElevInv, CacheHolds, ApprovedFor
<1> QED
  BY <1>4, <1>6, <1>7 DEF ElevInv, ElevTypes

\* A step that changes neither the clock, the cache nor the timers owes only
\* its calls.
LEMMA CallStepKeeps ==
  ASSUME ElevInv, UNCHANGED <<clock, cache, timers>>,
         procs' \in [Processes -> Calls] /\ CallsHold'
  PROVE  ElevInv'
BY DEF ElevInv, ElevTypes, CacheHolds, ApprovedFor

\* A request reuses the elevation cached for its session, expires it, or goes
\* to the prompt.
LEMMA ResolveKeeps ==
  ASSUME ElevInv, NEW p \in ReadRequests, NEW s \in AdminSessions, Resolve(p, s)
  PROVE  ElevInv'
<1>0. p \in Processes /\ cache[s] \in Elevations /\ clock' = clock
  BY DEF Processes, ElevInv, ElevTypes, Resolve
<1>1. CASE /\ cache[s] # NoElevation
           /\ Move(p, [Idle(s) EXCEPT !.at = "reuse", !.elev = cache[s]])
           /\ UNCHANGED <<cache, timers, entries>>
  <2> DEFINE r == [Idle(s) EXCEPT !.at = "reuse", !.elev = cache[s]]
  <2>0. Idle(s) \in Calls
    BY IdleCalls DEF SessionOrNone
  <2>1. r \in Calls
    BY <1>0, <2>0 DEF Calls, Places
  <2>2. r.at = "reuse" /\ r.elev = cache[s] /\ r.sess = s
    BY DEF Idle
  <2>3. ApprovedFor(cache[s], s)
    BY <1>1 DEF ElevInv, CacheHolds
  <2>4. CallHolds(r)
    BY <2>2, <2>3 DEF CallHolds
  <2>5. Move(p, r)
    BY <1>1
  <2> HIDE DEF r
  <2>6. procs' \in [Processes -> Calls] /\ CallsHold'
    BY <1>0, <2>1, <2>4, <2>5, MoveKeeps
  <2> QED
    BY <1>0, <1>1, <2>6, CallStepKeeps
<1>2. CASE Expire(p, s, cache[s])
  BY <1>0, <1>2, ExpireKeeps
<1>3. CASE Move(p, [Idle(s) EXCEPT !.at = "prompt"]) /\ UNCHANGED <<cache, timers, entries>>
  <2> DEFINE r == [Idle(s) EXCEPT !.at = "prompt"]
  <2>1. r \in Calls /\ CallHolds(r)
    BY IdleCalls DEF Calls, Places, SessionOrNone, CallHolds, Holding
  <2>2. Move(p, r)
    BY <1>3
  <2> HIDE DEF r
  <2>3. procs' \in [Processes -> Calls] /\ CallsHold'
    BY <1>0, <2>1, <2>2, MoveKeeps
  <2> QED
    BY <1>0, <1>3, <2>3, CallStepKeeps
<1> QED
  BY <1>1, <1>2, <1>3 DEF Resolve, CachedFor

\* An elevation is minted for the session of the request, with the window that
\* starts now.
LEMMA MintedKeeps ==
  ASSUME ElevInv, NEW p \in Processes, Minted(p)
  PROVE  ElevInv'
<1> DEFINE e == [sess |-> procs[p].sess, exp |-> clock + TtlMs]
           c == Changes(entries, StoreSet(entries, e.sess, e.exp))
           r == [procs[p] EXCEPT !.at = "approveNotify", !.elev = e, !.changed = c]
<1>0. UNCHANGED <<clock, cache, timers>> /\ procs[p] \in Calls /\ clock \in Int /\ TtlMs \in Int
  BY ReadElevationBounds DEF Minted, ElevInv, ElevTypes
<1>1. CASE End(p)
  <2>1. procs' \in [Processes -> Calls] /\ CallsHold'
    BY <1>0, <1>1, EndKeeps
  <2> QED
    BY <1>0, <2>1, CallStepKeeps
<1>2. CASE Move(p, r)
  <2>1. c \in BOOLEAN
    BY DEF Changes
  <2> HIDE DEF c
  <2>2. e \in Elevations /\ e.sess = procs[p].sess /\ e.exp - TtlMs <= clock
    BY <1>0 DEF Calls, Elevations
  <2> HIDE DEF e
  <2>3. r \in Calls /\ r.at = "approveNotify" /\ r.elev = e /\ r.sess = procs[p].sess
    BY <1>0, <2>1, <2>2 DEF Calls, Places
  <2>4. CallHolds(r)
    BY <2>2, <2>3 DEF CallHolds, ApprovedFor
  <2> HIDE DEF r
  <2>5. procs' \in [Processes -> Calls] /\ CallsHold'
    BY <1>0, <1>2, <2>3, <2>4, MoveKeeps
  <2> QED
    BY <1>0, <2>5, CallStepKeeps
<1> QED
  BY <1>1, <1>2 DEF Minted

\* The elevation of an approval on the log is cached under its own session.
LEMMA ApprovalAuditedKeeps ==
  ASSUME ElevInv, NEW p \in Processes, ApprovalAudited(p)
  PROVE  ElevInv'
<1> DEFINE e == procs[p].elev
<1>0. /\ clock' = clock /\ procs[p] \in Calls /\ procs[p].at = "approveAudit"
      /\ CallHolds(procs[p]) /\ e \in Elevations
  BY DEF ApprovalAudited, At, ElevInv, ElevTypes, CallsHold, Calls
<1>1. CASE cache' = [cache EXCEPT ![e.sess] = e] /\ Schedule(e) /\ Go(p, "read")
  <2>1. procs' \in [Processes -> Calls] /\ CallsHold'
    BY <1>0, <1>1, GoKeeps DEF Places, Holding
  <2>2. cache' \in [AdminSessions -> Elevations] /\ timers' \in [AdminSessions -> Elevations]
    BY <1>0, <1>1 DEF Schedule, ElevInv, ElevTypes
  <2>3. ApprovedFor(e, e.sess)
    BY <1>0 DEF CallHolds, Holding, ApprovedFor
  <2>4. CacheHolds'
    <3> SUFFICES ASSUME NEW t \in AdminSessions, cache'[t] # NoElevation
                 PROVE  ApprovedFor(cache[t], t)'
      BY DEF CacheHolds
    <3>1. cache'[t] = IF t = e.sess THEN e ELSE cache[t]
      BY <1>1 DEF ElevInv, ElevTypes
    <3> QED
      BY <1>0, <2>3, <3>1 DEF ElevInv, CacheHolds, ApprovedFor
  <2> QED
    BY <1>0, <2>1, <2>2, <2>4 DEF ElevInv, ElevTypes
<1>2. CASE Withdraw(p, procs[p], "rollbackNotify") /\ UNCHANGED <<cache, timers>>
  <2>1. "rollbackNotify" \in Places \ Holding
    BY DEF Places, Holding
  <2>2. procs' \in [Processes -> Calls] /\ CallsHold'
    BY <1>0, <1>2, <2>1, WithdrawKeeps
  <2> QED
    BY <1>0, <1>2, <2>2, CallStepKeeps
<1> QED
  BY <1>1, <1>2 DEF ApprovalAudited

\* The handler reads only before the elevation it holds expires.
LEMMA ReadKeeps ==
  ASSUME ElevInv, NEW p \in Processes, Read(p)
  PROVE  ElevInv'
<1>0. /\ UNCHANGED <<clock, cache, timers>> /\ procs[p] \in Calls /\ procs[p].at = "read"
      /\ CallHolds(procs[p]) /\ clock \in Int /\ TtlMs \in Int
  BY ReadElevationBounds DEF Read, At, ElevInv, ElevTypes, CallsHold
<1>1. CASE End(p)
  <2>1. procs' \in [Processes -> Calls] /\ CallsHold'
    BY <1>0, <1>1, EndKeeps
  <2> QED
    BY <1>0, <2>1, CallStepKeeps
<1>2. CASE /\ Authorized(procs[p].elev)
           /\ Move(p, [procs[p] EXCEPT !.at = "served", !.time = clock])
  <2> DEFINE r == [procs[p] EXCEPT !.at = "served", !.time = clock]
  <2>1. r \in Calls /\ r.at = "served" /\ r.elev = procs[p].elev /\ r.sess = procs[p].sess
        /\ r.time = clock
    BY <1>0 DEF Calls, Places
  <2>2. ApprovedFor(r.elev, r.sess)
    BY <1>0, <2>1 DEF CallHolds, Holding
  <2>3. clock < r.elev.exp /\ r.elev.exp \in Int
    BY <1>0, <1>2, <2>1 DEF Authorized, Calls, Elevations
  <2>4. CallHolds(r)
    BY <1>0, <2>1, <2>2, <2>3 DEF CallHolds, ApprovedFor
  <2>5. Move(p, r)
    BY <1>2
  <2> HIDE DEF r
  <2>6. procs' \in [Processes -> Calls] /\ CallsHold'
    BY <1>0, <2>1, <2>4, <2>5, MoveKeeps
  <2> QED
    BY <1>0, <2>6, CallStepKeeps
<1> QED
  BY <1>1, <1>2 DEF Read

\* Every other answer to an await only moves the call, and never to where an
\* elevation is held unless it came from there.
LEMMA SettleKeeps ==
  ASSUME ElevInv, NEW p \in Processes, Settle(p)
  PROVE  ElevInv'
<1>0. procs[p] \in Calls
  BY DEF ElevInv, ElevTypes
<1>e. ASSUME End(p), UNCHANGED <<clock, cache, timers>> PROVE ElevInv'
  BY <1>e, EndKeeps, CallStepKeeps
<1>g. ASSUME NEW where \in Places, Go(p, where), UNCHANGED <<clock, cache, timers>>,
             where # "served", where \in Holding => procs[p].at \in Holding
      PROVE ElevInv'
  BY <1>g, GoKeeps, CallStepKeeps
<1>1. CASE Reused(p)
  BY <1>1, <1>e, <1>g DEF Reused, At, Places, Holding
<1>2. CASE ExpiryNotified(p)
  BY <1>2, <1>g DEF ExpiryNotified, Places, Holding
<1>3. CASE ExpiryRestored(p)
  BY <1>3, <1>e DEF ExpiryRestored
<1>4. CASE ExpiryAudited(p)
  <2> DEFINE r == [Idle(procs[p].sess) EXCEPT !.at = "prompt"]
  <2>1. r \in Calls /\ CallHolds(r)
    BY <1>0, IdleCalls DEF Calls, Places, CallHolds, Holding
  <2>2. UNCHANGED <<clock, cache, timers>> /\ (Move(p, r) \/ End(p))
    BY <1>4 DEF ExpiryAudited
  <2> HIDE DEF r
  <2>3. CASE Move(p, r)
    BY <2>1, <2>2, <2>3, MoveKeeps, CallStepKeeps
  <2> QED
    BY <2>2, <2>3, <1>e
<1>5. CASE Prompted(p)
  BY <1>5, <1>e, <1>g DEF Prompted, Places, Holding
<1>6. CASE Minted(p)
  BY <1>6, MintedKeeps
<1>7. CASE ApprovalNotified(p)
  <2>1. CASE Go(p, "approveAudit")
    BY <1>7, <2>1, <1>g DEF ApprovalNotified, At, Places, Holding
  <2>2. CASE Withdraw(p, procs[p], "approveUndo")
    <3>1. "approveUndo" \in Places \ Holding
      BY DEF Places, Holding
    <3> QED
      BY <1>0, <1>7, <2>2, <3>1, WithdrawKeeps, CallStepKeeps DEF ApprovalNotified
  <2> QED
    BY <1>7, <2>1, <2>2 DEF ApprovalNotified
<1>8. CASE ApprovalUndone(p)
  BY <1>8, <1>e DEF ApprovalUndone
<1>9. CASE ApprovalAudited(p)
  BY <1>9, ApprovalAuditedKeeps
<1>10. CASE RollbackNotified(p)
  BY <1>10, <1>e, <1>g DEF RollbackNotified, Places, Holding
<1>11. CASE Read(p)
  BY <1>11, ReadKeeps
<1>12. CASE Respond(p)
  BY <1>12, <1>e DEF Respond
<1> QED
  BY <1>1, <1>2, <1>3, <1>4, <1>5, <1>6, <1>7, <1>8, <1>9, <1>10, <1>11, <1>12 DEF Settle

\* Every step keeps the invariant; time only makes approvals older.
LEMMA StepElev == ElevInv /\ [ElevationNext]_elevationVars => ElevInv'
<1> SUFFICES ASSUME ElevInv, [ElevationNext]_elevationVars PROVE ElevInv'
  OBVIOUS
<1>1. CASE Tick
  <2>1. clock' = clock + 1 /\ clock \in Int /\ TtlMs \in Int /\ UNCHANGED <<cache, timers, procs>>
    BY <1>1, ReadElevationBounds DEF Tick, ElevInv, ElevTypes
  <2>2. ElevTypes'
    BY <2>1 DEF ElevInv, ElevTypes
  <2>3. ASSUME NEW e \in Elevations, NEW s, ApprovedFor(e, s) PROVE ApprovedFor(e, s)'
    BY <2>1, <2>3 DEF ApprovedFor, Elevations
  <2>4. CacheHolds'
    BY <2>1, <2>3 DEF ElevInv, ElevTypes, CacheHolds
  <2>5. CallsHold'
    <3> SUFFICES ASSUME NEW p \in Processes PROVE CallHolds(procs[p])'
      BY DEF CallsHold
    <3>1. CallHolds(procs[p]) /\ procs[p].elev \in Elevations
      BY DEF ElevInv, ElevTypes, CallsHold, Calls
    <3> QED
      BY <2>1, <2>3, <3>1 DEF CallHolds
  <2> QED
    BY <2>2, <2>4, <2>5 DEF ElevInv
<1>2. CASE IssueSeal \/ UNCHANGED elevationVars
  BY <1>2 DEF IssueSeal, elevationVars, ElevInv, ElevTypes, CacheHolds, CallsHold, CallHolds,
              ApprovedFor
<1>3. ASSUME NEW p \in Processes, Settle(p) PROVE ElevInv'
  BY <1>3, SettleKeeps
<1>4. ASSUME NEW s \in AdminSessions, TimerFires(s) PROVE ElevInv'
  <2>1. s \in Processes /\ timers[s] \in Elevations
    BY DEF Processes, ElevInv, ElevTypes
  <2> QED
    BY <1>4, <2>1, ExpireKeeps DEF TimerFires
<1>5. ASSUME NEW s \in AdminSessions, NEW p \in ReadRequests, Resolve(p, s) PROVE ElevInv'
  BY <1>5, ResolveKeeps
<1> QED
  BY <1>1, <1>2, <1>3, <1>4, <1>5 DEF ElevationNext

\* Approved elevations stay with the session they were approved in: the cache
\* and every call under way hold none of another session's, nor one whose
\* window opens in the future (read-elevation.ts).
THEOREM ElevInvariant == ElevationSpec => []ElevInv
<1> QED
  BY InitElev, StepElev, PTL DEF ElevationSpec

\* A read goes through only under an elevation approved in the same admin
\* session and inside its window (resolveForRequest against
\* authorizeAdminReadElevation), for any number of sessions and requests.
THEOREM ReadsStayApproved == ElevationSpec => []ReadsApproved
<1>1. ElevInv => ReadsApproved
  <2> SUFFICES ASSUME ElevInv, NEW p \in Processes, procs[p].at = "served"
               PROVE  /\ procs[p].elev.sess = procs[p].sess
                      /\ procs[p].time \in (procs[p].elev.exp - TtlMs) .. (procs[p].elev.exp - 1)
    BY DEF ReadsApproved, At
  <2> QED
    BY DEF ElevInv, CallsHold, CallHolds, Holding, ApprovedFor
<1> QED
  BY <1>1, ElevInvariant, PTL

-----------------------------------------------------------------------------
(* The disclosure store and the rollback tracker.                            *)

BusyOn(p, s) == procs[p].at \notin {"idle", "done"} /\ procs[p].sess = s

\* Where a call only uses what is cached; everywhere else its session's cache
\* is empty.
Using == {"reuse", "read", "served"}

\* Where a call may put an entry back or take one out.
Undoing == {"expireNotify", "expireRestore", "expireAudit", "rollbackNotify", "approveUndo"}

\* What the calls of a session that never overlapped leave in the store.
SessionHolds(s) ==
  /\ \A p, q \in Processes : BusyOn(p, s) /\ BusyOn(q, s) => p = q
  /\ \A p \in Processes : BusyOn(p, s) /\ procs[p].at \notin Using => cache[s] = NoElevation
  /\ \A p \in Processes : BusyOn(p, s) /\ procs[p].at \in {"approveNotify", "approveAudit"} =>
        (procs[p].elev.exp > clock => entries[s] = procs[p].elev.exp)
  /\ cache[s].exp > clock => entries[s] = cache[s].exp

DiscInv ==
  /\ clock >= 1 /\ timers = cache /\ entries \in [AdminSessions -> Int]
  /\ \A p \in Processes :
        /\ procs[p].at \notin {"idle", "done"} => procs[p].sess \in AdminSessions
        /\ procs[p].at \in Undoing => procs[p].elev.sess = procs[p].sess
  /\ \A s \in AdminSessions \ overlapped : SessionHolds(s)

Restoring == {p \in Processes : At(p, "expireRestore")}

RollInv == rollbacks = Cardinality(Restoring)

LEMMA InitDisc == ElevationInit => DiscInv /\ RollInv
<1> SUFFICES ASSUME ElevationInit PROVE DiscInv /\ RollInv
  OBVIOUS
<1>1. /\ \A p \in Processes : procs[p].at = "idle" /\ \A s : ~BusyOn(p, s)
      /\ clock = 1 /\ timers = cache
      /\ \A s \in AdminSessions : cache[s].exp = 0 /\ entries[s] = 0
  BY DEF ElevationInit, Idle, BusyOn, NoElevation
<1>2. \A s \in AdminSessions : SessionHolds(s)
  BY <1>1 DEF SessionHolds
<1>3. entries \in [AdminSessions -> Int]
  BY DEF ElevationInit
<1>4. DiscInv
  BY <1>1, <1>2, <1>3 DEF DiscInv, Undoing
<1>5. Restoring = {}
  BY <1>1 DEF Restoring, At
<1> QED
  BY <1>4, <1>5, FS_EmptySet DEF RollInv, ElevationInit

\* A session that a step leaves alone: entries of it that are still open stay.
LEMMA OtherSession ==
  ASSUME NEW s \in AdminSessions, SessionHolds(s), clock' = clock, cache'[s] = cache[s],
         entries[s] > clock => entries'[s] = entries[s],
         \A q \in Processes : BusyOn(q, s)' => procs'[q] = procs[q]
  PROVE  SessionHolds(s)'
<1>1. \A q \in Processes : BusyOn(q, s)' => BusyOn(q, s)
  BY DEF BusyOn
<1> QED
  BY <1>1 DEF SessionHolds

\* A step of call p of session s.
LEMMA CallDisc ==
  ASSUME ElevInv, DiscInv, NEW p \in Processes, NEW s \in AdminSessions, NEW r,
         Move(p, r), clock' = clock, timers' = cache', entries' \in [AdminSessions -> Int],
         r.at \in {"idle", "done"} \/ r.sess = s,
         r.at \in Undoing => r.elev.sess = s,
         overlapped \subseteq overlapped',
         \A t \in AdminSessions \ {s} : /\ cache'[t] = cache[t]
                                        /\ entries[t] > clock => entries'[t] = entries[t],
         s \notin overlapped' =>
            /\ BusyOn(p, s) \/ \A q \in Processes : ~BusyOn(q, s)
            /\ r.at \notin Using \cup {"idle", "done"} => cache'[s] = NoElevation
            /\ r.at \in {"approveNotify", "approveAudit"} =>
                  (r.elev.exp > clock => entries'[s] = r.elev.exp)
            /\ cache'[s].exp > clock => entries'[s] = cache'[s].exp
  PROVE  DiscInv'
<1>1. procs'[p] = r /\ \A q \in Processes : q # p => procs'[q] = procs[q]
  BY DEF Move, ElevInv, ElevTypes
<1>2. ASSUME NEW q \in Processes
      PROVE  /\ procs'[q].at \notin {"idle", "done"} => procs'[q].sess \in AdminSessions
             /\ procs'[q].at \in Undoing => procs'[q].elev.sess = procs'[q].sess
  <2>1. CASE q = p
    BY <1>1, <2>1 DEF Undoing
  <2>2. CASE q # p
    BY <1>1, <2>2 DEF DiscInv
  <2> QED
    BY <2>1, <2>2
<1>3. ASSUME NEW t \in AdminSessions \ overlapped' PROVE SessionHolds(t)'
  <2>1. SessionHolds(t)
    BY <1>3 DEF DiscInv
  <2>2. CASE t # s
    <3>1. \A q \in Processes : BusyOn(q, t)' => procs'[q] = procs[q]
      BY <1>1, <2>2 DEF BusyOn
    <3> QED
      BY <2>1, <2>2, <3>1, OtherSession
  <2>3. CASE t = s
    <3>1. \A q \in Processes : BusyOn(q, s)' => q = p
      BY <1>1, <1>3, <2>1, <2>3 DEF SessionHolds, BusyOn
    <3>2. \A q \in Processes : BusyOn(q, s)' /\ procs'[q].at \notin Using => cache'[s] = NoElevation
      BY <1>1, <1>3, <2>3, <3>1 DEF BusyOn
    <3>3. \A q \in Processes :
             BusyOn(q, s)' /\ procs'[q].at \in {"approveNotify", "approveAudit"} =>
             (procs'[q].elev.exp > clock' => entries'[s] = procs'[q].elev.exp)
      BY <1>1, <1>3, <2>3, <3>1
    <3> QED
      BY <1>3, <2>3, <3>1, <3>2, <3>3 DEF SessionHolds
  <2> QED
    BY <2>2, <2>3
<1> QED
  BY <1>2, <1>3 DEF DiscInv

\* What aggregating, setting, deleting and restoring do to the entries.
LEMMA StoreFacts ==
  ASSUME clock \in Int, clock >= 1, entries \in [AdminSessions -> Int], NEW s \in AdminSessions,
         NEW exp \in Int
  PROVE  /\ Live(entries) \in [AdminSessions -> Int]
         /\ \A t \in AdminSessions : entries[t] > clock => Live(entries)[t] = entries[t]
         /\ StoreSet(entries, s, exp) \in [AdminSessions -> Int]
         /\ StoreSet(entries, s, exp)[s] = exp
         /\ StoreDelete(entries, s) \in [AdminSessions -> Int]
         /\ StoreRestore(entries, s, exp) \in [AdminSessions -> Int]
         /\ \A t \in AdminSessions \ {s} : entries[t] > clock =>
               /\ StoreSet(entries, s, exp)[t] = entries[t]
               /\ StoreDelete(entries, s)[t] = entries[t]
               /\ StoreRestore(entries, s, exp)[t] = entries[t]
<1>1. Live(entries) \in [AdminSessions -> Int]
  BY DEF Live
<1>2. \A t \in AdminSessions : entries[t] > clock => Live(entries)[t] = entries[t]
  BY DEF Live
<1> QED
  BY <1>1, <1>2 DEF StoreSet, StoreDelete, StoreRestore

\* An expiry: the cached elevation and its entry go together.
LEMMA ExpireDisc ==
  ASSUME ElevInv, DiscInv, NEW p \in Processes, NEW s \in AdminSessions,
         cache[s] # NoElevation, Begin(s), Expire(p, s, cache[s]), clock' = clock
  PROVE  DiscInv'
<1>1. /\ cache' = [cache EXCEPT ![s] = NoElevation] /\ timers' = [timers EXCEPT ![s] = NoElevation]
      /\ cache[s] \in Elevations /\ cache[s].sess = s /\ DOMAIN cache = AdminSessions
  BY DEF Expire, ElevInv, ElevTypes, CacheHolds, ApprovedFor
<1>2. PICK r0 : r0 = [Idle(s) EXCEPT !.elev = cache[s]]
  OBVIOUS
<1>3. r0 \in Calls /\ r0.sess = s /\ r0.elev = cache[s]
  BY <1>1, <1>2, IdleCalls DEF Calls, SessionOrNone, Idle
<1>4. PICK after : after = StoreDelete(entries, s)
  OBVIOUS
<1>5. PICK c : c = Changes(entries, after)
  OBVIOUS
<1>6. PICK r : r = [r0 EXCEPT !.at = "expireNotify", !.changed = c]
  OBVIOUS
<1>7. entries' = after /\ Move(p, r)
  BY <1>1, <1>2, <1>3, <1>4, <1>5, <1>6 DEF Expire, Withdraw
<1>8. r.at = "expireNotify" /\ r.sess = s /\ r.elev.sess = s
  BY <1>1, <1>3, <1>6 DEF Calls
<1>9. /\ entries' \in [AdminSessions -> Int]
      /\ \A t \in AdminSessions \ {s} : entries[t] > clock => entries'[t] = entries[t]
  BY <1>4, <1>7, StoreFacts DEF DiscInv, ElevInv, ElevTypes
<1>10. /\ timers' = cache' /\ cache'[s] = NoElevation
       /\ \A t \in AdminSessions \ {s} : cache'[t] = cache[t]
  BY <1>1 DEF DiscInv
<1>11. /\ overlapped \subseteq overlapped'
       /\ s \notin overlapped' => \A q \in Processes : ~BusyOn(q, s)
  BY DEF Begin, Busy, BusyOn
<1>12. ~(cache'[s].exp > clock)
  BY <1>10 DEF NoElevation, DiscInv, ElevInv, ElevTypes
<1> QED
  BY <1>7, <1>8, <1>9, <1>10, <1>11, <1>12, CallDisc DEF Undoing, Using

LEMMA ResolveDisc ==
  ASSUME ElevInv, DiscInv, NEW p \in ReadRequests, NEW s \in AdminSessions, Resolve(p, s)
  PROVE  DiscInv'
<1>1. /\ p \in Processes /\ clock' = clock /\ Begin(s) /\ CachedFor(s) = cache[s]
      /\ cache[s] \in Elevations
  BY DEF Resolve, Processes, CachedFor, ElevInv, ElevTypes
<1>2. /\ overlapped \subseteq overlapped'
      /\ s \notin overlapped' => \A q \in Processes : ~BusyOn(q, s)
  BY <1>1 DEF Begin, Busy, BusyOn
<1>3. s \notin overlapped' => SessionHolds(s)
  BY <1>2 DEF DiscInv
<1>4. CASE cache[s] # NoElevation /\ Expire(p, s, cache[s])
  BY <1>1, <1>4, ExpireDisc
<1>5. CASE Move(p, [Idle(s) EXCEPT !.at = "reuse", !.elev = cache[s]])
           /\ UNCHANGED <<cache, timers, entries>>
  <2>1. PICK r : r = [Idle(s) EXCEPT !.at = "reuse", !.elev = cache[s]]
    OBVIOUS
  <2>2. r.at = "reuse" /\ r.sess = s /\ Move(p, r)
    BY <1>5, <2>1 DEF Idle
  <2> QED
    BY <1>1, <1>2, <1>3, <1>5, <2>2, CallDisc DEF Undoing, Using, DiscInv, SessionHolds
<1>6. CASE cache[s] = NoElevation /\ Move(p, [Idle(s) EXCEPT !.at = "prompt"])
           /\ UNCHANGED <<cache, timers, entries>>
  <2>1. PICK r : r = [Idle(s) EXCEPT !.at = "prompt"]
    OBVIOUS
  <2>2. r.at = "prompt" /\ r.sess = s /\ Move(p, r)
    BY <1>6, <2>1 DEF Idle
  <2> QED
    BY <1>1, <1>2, <1>3, <1>6, <2>2, CallDisc DEF Undoing, Using, DiscInv, SessionHolds
<1> QED
  BY <1>1, <1>4, <1>5, <1>6 DEF Resolve

\* What a call that is under way knows about its session.
LEMMA Session ==
  ASSUME ElevInv, DiscInv, NEW p \in Processes, procs[p].at \notin {"idle", "done"}
  PROVE  /\ procs[p].sess \in AdminSessions /\ BusyOn(p, procs[p].sess) /\ procs[p] \in Calls
         /\ procs[p].at \in Undoing \cup Holding => procs[p].elev.sess = procs[p].sess
         /\ procs[p].elev.exp \in Int
         /\ procs[p].sess \notin overlapped => SessionHolds(procs[p].sess)
<1>1. procs[p] \in Calls /\ CallHolds(procs[p]) /\ procs[p].sess \in AdminSessions
  BY DEF ElevInv, ElevTypes, CallsHold, DiscInv
<1> QED
  BY <1>1 DEF BusyOn, DiscInv, CallHolds, ApprovedFor, Calls, Elevations

\* A call that ends, or goes on without touching the cache and the store.
LEMMA QuietDisc ==
  ASSUME ElevInv, DiscInv, NEW p \in Processes, procs[p].at \notin {"idle", "done"}, NEW r,
         Move(p, r), UNCHANGED <<clock, cache, timers, entries, overlapped>>,
         \/ r.at \in {"idle", "done"}
         \/ /\ r.sess = procs[p].sess
            /\ r.at \in Undoing => r.elev.sess = r.sess
            /\ \/ r.at \in Using
               \/ /\ procs[p].at \notin Using
                  /\ r.at \in {"approveNotify", "approveAudit"} =>
                        procs[p].at \in {"approveNotify", "approveAudit"} /\ r.elev = procs[p].elev
  PROVE  DiscInv'
<1>1. PICK s \in AdminSessions : /\ s = procs[p].sess /\ BusyOn(p, s)
                                 /\ s \notin overlapped => SessionHolds(s)
  BY Session
<1>2. timers' = cache' /\ entries' \in [AdminSessions -> Int]
  BY DEF DiscInv
<1>3. /\ r.at \in {"idle", "done"} \/ r.sess = s
      /\ r.at \in Undoing => r.elev.sess = s
  BY <1>1 DEF Undoing
<1>4. s \notin overlapped' =>
         /\ r.at \notin Using \cup {"idle", "done"} => cache'[s] = NoElevation
         /\ r.at \in {"approveNotify", "approveAudit"} =>
               (r.elev.exp > clock => entries'[s] = r.elev.exp)
         /\ cache'[s].exp > clock => entries'[s] = cache'[s].exp
  BY <1>1 DEF SessionHolds, Using
<1> QED
  BY <1>1, <1>2, <1>3, <1>4, CallDisc

LEMMA EndDisc ==
  ASSUME ElevInv, DiscInv, NEW p \in Processes, procs[p].at \notin {"idle", "done"}, End(p),
         UNCHANGED <<clock, cache, timers, entries, overlapped>>
  PROVE  DiscInv'
<1>1. PICK r : r = IF p \in ReadRequests THEN [Idle(NoSession) EXCEPT !.at = "done"]
                   ELSE Idle(NoSession)
  OBVIOUS
<1>2. r.at \in {"idle", "done"} /\ Move(p, r)
  BY <1>1 DEF Idle, End
<1> QED
  BY <1>2, QuietDisc

LEMMA GoDisc ==
  ASSUME ElevInv, DiscInv, NEW p \in Processes, procs[p].at \notin {"idle", "done"},
         NEW where, Go(p, where), UNCHANGED <<clock, cache, timers, entries, overlapped>>,
         where \in Undoing => procs[p].at \in Undoing \cup Holding,
         where \in Using \/ procs[p].at \notin Using,
         where \in {"approveNotify", "approveAudit"} =>
            procs[p].at \in {"approveNotify", "approveAudit"}
  PROVE  DiscInv'
<1>1. PICK r : r = [procs[p] EXCEPT !.at = where]
  OBVIOUS
<1>2. r.at = where /\ r.sess = procs[p].sess /\ r.elev = procs[p].elev /\ Move(p, r)
  BY <1>1, Session DEF Go, Calls
<1>3. where \in Undoing => r.elev.sess = r.sess
  BY <1>2, Session
<1> QED
  BY <1>2, <1>3, QuietDisc

\* A call that takes out or puts back its session's entry: nothing is cached.
LEMMA EntryDisc ==
  ASSUME ElevInv, DiscInv, NEW p \in Processes, procs[p].at \notin {"idle", "done"} \cup Using,
         NEW r, Move(p, r), UNCHANGED <<clock, cache, timers, overlapped>>,
         r.sess = procs[p].sess, r.at \in Undoing, r.elev.sess = procs[p].sess,
         \/ entries' = StoreDelete(entries, procs[p].sess)
         \/ \E exp \in Int : entries' = StoreRestore(entries, procs[p].sess, exp)
  PROVE  DiscInv'
<1>1. PICK s \in AdminSessions : /\ s = procs[p].sess /\ BusyOn(p, s)
                                 /\ s \notin overlapped => SessionHolds(s)
  BY Session
<1>2. /\ entries' \in [AdminSessions -> Int]
      /\ \A t \in AdminSessions \ {s} : entries[t] > clock => entries'[t] = entries[t]
  <2>1. clock \in Int /\ clock >= 1 /\ entries \in [AdminSessions -> Int] /\ 0 \in Int
    BY DEF DiscInv, ElevInv, ElevTypes
  <2>2. CASE entries' = StoreDelete(entries, s)
    BY <2>1, <2>2, StoreFacts
  <2>3. CASE \E exp \in Int : entries' = StoreRestore(entries, s, exp)
    <3>1. PICK exp \in Int : entries' = StoreRestore(entries, s, exp)
      BY <2>3
    <3> QED
      BY <2>1, <3>1, StoreFacts
  <2> QED
    BY <1>1, <2>2, <2>3
<1>3. s \notin overlapped => cache'[s] = NoElevation
  BY <1>1 DEF SessionHolds
<1>4. ~(NoElevation.exp > clock)
  BY DEF NoElevation, DiscInv, ElevInv, ElevTypes
<1>5. timers' = cache' /\ r.at \notin Using \cup {"approveNotify", "approveAudit"}
  BY DEF DiscInv, Undoing, Using
<1> QED
  BY <1>1, <1>2, <1>3, <1>4, <1>5, CallDisc

LEMMA WithdrawDisc ==
  ASSUME ElevInv, DiscInv, NEW p \in Processes,
         procs[p].at \in {"approveNotify", "approveAudit"},
         NEW where \in Undoing, Withdraw(p, procs[p], where),
         UNCHANGED <<clock, cache, timers, overlapped>>
  PROVE  DiscInv'
<1>1. /\ procs[p] \in Calls /\ procs[p].elev.sess = procs[p].sess
      /\ procs[p].at \notin {"idle", "done"} \cup Using
  BY Session DEF Holding, Using
<1>2. PICK after : after = StoreDelete(entries, procs[p].sess)
  OBVIOUS
<1>3. PICK c : c = Changes(entries, after)
  OBVIOUS
<1>4. PICK r : r = [procs[p] EXCEPT !.at = where, !.changed = c]
  OBVIOUS
<1>5. entries' = after /\ Move(p, r)
  BY <1>1, <1>2, <1>3, <1>4 DEF Withdraw
<1>6. r.at = where /\ r.sess = procs[p].sess /\ r.elev = procs[p].elev
  BY <1>1, <1>4 DEF Calls
<1> QED
  BY <1>1, <1>2, <1>5, <1>6, EntryDisc

LEMMA RestoreDisc ==
  ASSUME ElevInv, DiscInv, NEW p \in Processes, procs[p].at \in Undoing,
         entries' = StoreRestore(entries, procs[p].elev.sess, procs[p].elev.exp),
         Go(p, "expireRestore"), UNCHANGED <<clock, cache, timers, overlapped>>
  PROVE  DiscInv'
<1>1. /\ procs[p].at \notin {"idle", "done"} \cup Using
  BY DEF Undoing, Using
<1>2. /\ procs[p] \in Calls /\ procs[p].elev.sess = procs[p].sess /\ procs[p].elev.exp \in Int
  BY <1>1, Session
<1>3. PICK r : r = [procs[p] EXCEPT !.at = "expireRestore"]
  OBVIOUS
<1>4. r.at = "expireRestore" /\ r.sess = procs[p].sess /\ r.elev = procs[p].elev /\ Move(p, r)
  BY <1>2, <1>3 DEF Go, Calls
<1> QED
  BY <1>1, <1>2, <1>4, EntryDisc DEF Undoing

\* A new elevation is disclosed before it is cached, and nothing was cached.
LEMMA MintedDisc ==
  ASSUME ElevInv, DiscInv, NEW p \in Processes, Minted(p) PROVE DiscInv'
<1>1. procs[p].at = "fingerprint" /\ UNCHANGED <<clock, cache, timers, overlapped>>
  BY DEF Minted, At
<1>2. PICK s \in AdminSessions : /\ s = procs[p].sess /\ BusyOn(p, s)
                                 /\ s \notin overlapped => SessionHolds(s)
  BY <1>1, Session
<1>3. procs[p] \in Calls /\ clock \in Int
  BY DEF ElevInv, ElevTypes
<1>4. CASE End(p) /\ UNCHANGED entries
  BY <1>1, <1>4, EndDisc
<1>5. CASE ~(End(p) /\ UNCHANGED entries)
  <2>1. PICK e : e = [sess |-> s, exp |-> clock + TtlMs]
    OBVIOUS
  <2>2. PICK after : after = StoreSet(entries, s, e.exp)
    OBVIOUS
  <2>3. PICK c : c = Changes(entries, after)
    OBVIOUS
  <2>4. PICK r : r = [procs[p] EXCEPT !.at = "approveNotify", !.elev = e, !.changed = c]
    OBVIOUS
  <2>5. entries' = after /\ Move(p, r)
    BY <1>2, <1>5, <2>1, <2>2, <2>3, <2>4 DEF Minted
  <2>6. r.at = "approveNotify" /\ r.sess = s /\ r.elev = e
    BY <1>2, <1>3, <2>4 DEF Calls
  <2>7. e.exp \in Int
    BY <1>3, <2>1, ReadElevationBounds
  <2>8. /\ entries' \in [AdminSessions -> Int] /\ entries'[s] = e.exp
        /\ \A t \in AdminSessions \ {s} : entries[t] > clock => entries'[t] = entries[t]
    BY <1>3, <2>2, <2>5, <2>7, StoreFacts DEF DiscInv
  <2>9. s \notin overlapped => cache'[s] = NoElevation
    BY <1>1, <1>2 DEF SessionHolds, Using
  <2>10. ~(NoElevation.exp > clock) /\ timers' = cache'
    BY <1>1, <1>3 DEF NoElevation, DiscInv
  <2> QED
    BY <1>1, <1>2, <2>5, <2>6, <2>8, <2>9, <2>10, CallDisc DEF Undoing
<1> QED
  BY <1>4, <1>5

LEMMA ApprovalAuditedDisc ==
  ASSUME ElevInv, DiscInv, NEW p \in Processes, ApprovalAudited(p) PROVE DiscInv'
<1>1. procs[p].at = "approveAudit" /\ UNCHANGED <<clock, overlapped>>
  BY DEF ApprovalAudited, At
<1>2. PICK s \in AdminSessions : /\ s = procs[p].sess /\ BusyOn(p, s)
                                 /\ s \notin overlapped => SessionHolds(s)
  BY <1>1, Session
<1>3. procs[p] \in Calls /\ procs[p].elev.sess = s
  BY <1>1, <1>2, Session DEF Holding
<1>4. CASE Withdraw(p, procs[p], "rollbackNotify") /\ UNCHANGED <<cache, timers>>
  BY <1>1, <1>4, WithdrawDisc DEF Undoing
<1>5. CASE ~(Withdraw(p, procs[p], "rollbackNotify") /\ UNCHANGED <<cache, timers>>)
  <2>1. PICK e : e = procs[p].elev
    OBVIOUS
  <2>2. /\ cache' = [cache EXCEPT ![s] = e] /\ timers' = [timers EXCEPT ![s] = e]
        /\ Go(p, "read") /\ UNCHANGED entries
    BY <1>3, <1>5, <2>1 DEF ApprovalAudited, Schedule
  <2>3. PICK r : r = [procs[p] EXCEPT !.at = "read"]
    OBVIOUS
  <2>4. r.at = "read" /\ r.sess = s /\ Move(p, r)
    BY <1>2, <1>3, <2>2, <2>3 DEF Calls, Go
  <2>5. /\ timers' = cache' /\ cache'[s] = e /\ entries' \in [AdminSessions -> Int]
        /\ \A t \in AdminSessions \ {s} : cache'[t] = cache[t] /\ entries'[t] = entries[t]
    BY <2>2 DEF DiscInv, ElevInv, ElevTypes
  <2>6. s \notin overlapped => (e.exp > clock => entries'[s] = e.exp)
    BY <1>1, <1>2, <2>1, <2>2 DEF SessionHolds
  <2> QED
    BY <1>1, <1>2, <2>4, <2>5, <2>6, CallDisc DEF Undoing, Using
<1> QED
  BY <1>4, <1>5

LEMMA SettleDisc ==
  ASSUME ElevInv, DiscInv, NEW p \in Processes, Settle(p) PROVE DiscInv'
<1>1. CASE Reused(p)
  BY <1>1, EndDisc, GoDisc DEF Reused, At, Undoing, Using
<1>2. CASE ExpiryNotified(p)
  <2>1. procs[p].at = "expireNotify" /\ UNCHANGED <<clock, cache, timers, overlapped>>
    BY <1>2 DEF ExpiryNotified, At
  <2>2. CASE Go(p, "expireAudit") /\ UNCHANGED entries
    BY <2>1, <2>2, GoDisc DEF Undoing, Using
  <2>3. CASE /\ entries' = StoreRestore(entries, procs[p].elev.sess, procs[p].elev.exp)
             /\ Go(p, "expireRestore")
    BY <2>1, <2>3, RestoreDisc DEF Undoing
  <2> QED
    BY <1>2, <2>2, <2>3 DEF ExpiryNotified
<1>3. CASE ExpiryRestored(p)
  BY <1>3, EndDisc DEF ExpiryRestored, At
<1>4. CASE ExpiryAudited(p)
  <2>1. procs[p].at = "expireAudit" /\ UNCHANGED <<clock, cache, timers, entries, overlapped>>
    BY <1>4 DEF ExpiryAudited, At
  <2>2. CASE End(p)
    BY <2>1, <2>2, EndDisc
  <2>3. CASE Move(p, [Idle(procs[p].sess) EXCEPT !.at = "prompt"])
    <3>1. PICK r : r = [Idle(procs[p].sess) EXCEPT !.at = "prompt"]
      OBVIOUS
    <3>2. r.at = "prompt" /\ r.sess = procs[p].sess /\ Move(p, r)
      BY <2>3, <3>1 DEF Idle
    <3> QED
      BY <2>1, <3>2, QuietDisc DEF Undoing, Using
  <2> QED
    BY <1>4, <2>2, <2>3 DEF ExpiryAudited
<1>5. CASE Prompted(p)
  BY <1>5, EndDisc, GoDisc DEF Prompted, At, Undoing, Using
<1>6. CASE Minted(p)
  BY <1>6, MintedDisc
<1>7. CASE ApprovalNotified(p)
  <2>1. procs[p].at = "approveNotify" /\ UNCHANGED <<clock, cache, timers, overlapped>>
    BY <1>7 DEF ApprovalNotified, At
  <2>2. CASE Go(p, "approveAudit") /\ UNCHANGED entries
    BY <2>1, <2>2, GoDisc DEF Undoing, Using
  <2>3. CASE Withdraw(p, procs[p], "approveUndo")
    BY <2>1, <2>3, WithdrawDisc DEF Undoing
  <2> QED
    BY <1>7, <2>2, <2>3 DEF ApprovalNotified
<1>8. CASE ApprovalUndone(p)
  BY <1>8, EndDisc DEF ApprovalUndone, At
<1>9. CASE ApprovalAudited(p)
  BY <1>9, ApprovalAuditedDisc
<1>10. CASE RollbackNotified(p)
  <2>1. procs[p].at = "rollbackNotify" /\ UNCHANGED <<clock, cache, timers, overlapped>>
    BY <1>10 DEF RollbackNotified, At
  <2>2. CASE End(p) /\ UNCHANGED entries
    BY <2>1, <2>2, EndDisc
  <2>3. CASE /\ entries' = StoreRestore(entries, procs[p].elev.sess, procs[p].elev.exp)
             /\ Go(p, "expireRestore")
    BY <2>1, <2>3, RestoreDisc DEF Undoing
  <2> QED
    BY <1>10, <2>2, <2>3 DEF RollbackNotified
<1>11. CASE Read(p)
  <2>1. procs[p].at = "read" /\ UNCHANGED <<clock, cache, timers, entries, overlapped>>
    BY <1>11 DEF Read, At
  <2>2. CASE End(p)
    BY <2>1, <2>2, EndDisc
  <2>3. CASE Move(p, [procs[p] EXCEPT !.at = "served", !.time = clock])
    <3>1. PICK r : r = [procs[p] EXCEPT !.at = "served", !.time = clock]
      OBVIOUS
    <3>2. r.at = "served" /\ r.sess = procs[p].sess /\ Move(p, r)
      BY <2>1, <2>3, <3>1, Session DEF Calls
    <3> QED
      BY <2>1, <3>2, QuietDisc DEF Undoing, Using
  <2> QED
    BY <1>11, <2>2, <2>3 DEF Read
<1>12. CASE Respond(p)
  BY <1>12, EndDisc DEF Respond, At
<1> QED
  BY <1>1, <1>2, <1>3, <1>4, <1>5, <1>6, <1>7, <1>8, <1>9, <1>10, <1>11, <1>12 DEF Settle

LEMMA StepDisc == ElevInv /\ DiscInv /\ [ElevationNext]_elevationVars => DiscInv'
<1> SUFFICES ASSUME ElevInv, DiscInv, [ElevationNext]_elevationVars PROVE DiscInv'
  OBVIOUS
<1>0. clock \in Int /\ procs \in [Processes -> Calls] /\ cache \in [AdminSessions -> Elevations]
  BY DEF ElevInv, ElevTypes
<1>1. CASE Tick
  <2>1. clock' = clock + 1 /\ UNCHANGED <<cache, timers, entries, procs, overlapped>>
    BY <1>1 DEF Tick
  <2>2. \A p \in Processes : procs[p].elev.exp \in Int
    BY <1>0 DEF Calls, Elevations
  <2>3. ASSUME NEW s \in AdminSessions, SessionHolds(s) PROVE SessionHolds(s)'
    <3>1. cache[s].exp \in Int
      BY <1>0 DEF Elevations
    <3> QED
      BY <1>0, <2>1, <2>2, <2>3, <3>1 DEF SessionHolds, BusyOn
  <2> QED
    BY <1>0, <2>1, <2>3 DEF DiscInv
<1>2. CASE IssueSeal
  <2>1. /\ UNCHANGED <<clock, cache, timers, procs, overlapped>>
        /\ entries' = entries \/ entries' = Live(entries)
    BY <1>2 DEF IssueSeal
  <2>2. /\ entries' \in [AdminSessions -> Int]
        /\ \A t \in AdminSessions : entries[t] > clock => entries'[t] = entries[t]
    BY <1>0, <2>1 DEF DiscInv, Live
  <2>3. \A s \in AdminSessions \ overlapped : SessionHolds(s)'
    BY <2>1, <2>2, OtherSession DEF DiscInv
  <2> QED
    BY <2>1, <2>2, <2>3 DEF DiscInv
<1>3. CASE UNCHANGED elevationVars
  BY <1>3 DEF elevationVars, DiscInv, SessionHolds, BusyOn
<1>4. ASSUME NEW p \in Processes, Settle(p) PROVE DiscInv'
  BY <1>4, SettleDisc
<1>5. ASSUME NEW s \in AdminSessions, TimerFires(s) PROVE DiscInv'
  <2>1. s \in Processes /\ timers[s] = cache[s] /\ cache[s] # NoElevation
    BY <1>5 DEF Processes, DiscInv, TimerFires
  <2> QED
    BY <1>5, <2>1, ExpireDisc DEF TimerFires
<1>6. ASSUME NEW s \in AdminSessions, NEW p \in ReadRequests, Resolve(p, s) PROVE DiscInv'
  BY <1>6, ResolveDisc
<1> QED
  BY <1>1, <1>2, <1>3, <1>4, <1>5, <1>6 DEF ElevationNext

\* The count of the rollback tracker: a move of call p that the tracker sees.
LEMMA MoveRoll ==
  ASSUME ElevInv, RollInv, NEW p \in Processes, NEW r, Move(p, r),
         \/ rollbacks' = rollbacks /\ (At(p, "expireRestore") <=> r.at = "expireRestore")
         \/ rollbacks' = rollbacks + 1 /\ ~At(p, "expireRestore") /\ r.at = "expireRestore"
         \/ rollbacks' = rollbacks - 1 /\ At(p, "expireRestore") /\ r.at # "expireRestore"
  PROVE  RollInv'
<1>1. procs'[p] = r /\ \A q \in Processes : q # p => procs'[q] = procs[q]
  BY DEF Move, ElevInv, ElevTypes
<1>2. IsFiniteSet(Processes) /\ Restoring \in SUBSET Processes
  BY ReadElevationBounds, FS_Union DEF Processes, Restoring
<1>3. IsFiniteSet(Restoring)
  BY <1>2, FS_Subset
<1>4. CASE rollbacks' = rollbacks /\ (At(p, "expireRestore") <=> r.at = "expireRestore")
  <2>1. Restoring' = Restoring
    BY <1>1, <1>4 DEF Restoring, At
  <2> QED
    BY <1>4, <2>1 DEF RollInv
<1>5. CASE rollbacks' = rollbacks + 1 /\ ~At(p, "expireRestore") /\ r.at = "expireRestore"
  <2>1. Restoring' = Restoring \cup {p} /\ p \notin Restoring
    BY <1>1, <1>5 DEF Restoring, At
  <2> QED
    BY <1>3, <1>5, <2>1, FS_AddElement DEF RollInv
<1>6. CASE rollbacks' = rollbacks - 1 /\ At(p, "expireRestore") /\ r.at # "expireRestore"
  <2>1. Restoring' = Restoring \ {p} /\ p \in Restoring
    BY <1>1, <1>6 DEF Restoring, At
  <2> QED
    BY <1>3, <1>6, <2>1, FS_RemoveElement DEF RollInv
<1> QED
  BY <1>4, <1>5, <1>6

LEMMA StepRoll == ElevInv /\ RollInv /\ [ElevationNext]_elevationVars => RollInv'
<1> SUFFICES ASSUME ElevInv, RollInv, [ElevationNext]_elevationVars PROVE RollInv'
  OBVIOUS
<1>0. \A p \in Processes : procs[p] \in Calls
  BY DEF ElevInv, ElevTypes
<1>e. ASSUME NEW p \in Processes, End(p),
             \/ rollbacks' = rollbacks /\ ~At(p, "expireRestore")
             \/ rollbacks' = rollbacks - 1 /\ At(p, "expireRestore")
      PROVE  RollInv'
  <2>1. PICK r : r = IF p \in ReadRequests THEN [Idle(NoSession) EXCEPT !.at = "done"]
                     ELSE Idle(NoSession)
    OBVIOUS
  <2>2. r.at \in {"idle", "done"} /\ Move(p, r)
    BY <1>e, <2>1 DEF Idle, End
  <2> QED
    BY <1>e, <2>2, MoveRoll
<1>g. ASSUME NEW p \in Processes, NEW where, Go(p, where), ~At(p, "expireRestore"),
             \/ rollbacks' = rollbacks /\ where # "expireRestore"
             \/ rollbacks' = rollbacks + 1 /\ where = "expireRestore"
      PROVE  RollInv'
  <2>1. PICK r : r = [procs[p] EXCEPT !.at = where]
    OBVIOUS
  <2>2. r.at = where /\ Move(p, r)
    BY <1>0, <1>g, <2>1 DEF Go, Calls
  <2> QED
    BY <1>g, <2>2, MoveRoll
<1>m. ASSUME NEW p \in Processes, NEW r, Move(p, r), ~At(p, "expireRestore"),
             rollbacks' = rollbacks, r.at # "expireRestore"
      PROVE  RollInv'
  BY <1>m, MoveRoll
<1>w. ASSUME NEW p \in Processes, NEW r \in Calls, NEW where, Withdraw(p, r, where),
             ~At(p, "expireRestore"), rollbacks' = rollbacks, where # "expireRestore"
      PROVE  RollInv'
  <2>1. PICK c : c = Changes(entries, StoreDelete(entries, r.elev.sess))
    OBVIOUS
  <2>2. PICK n : n = [r EXCEPT !.at = where, !.changed = c]
    OBVIOUS
  <2>3. n.at = where /\ Move(p, n)
    BY <1>w, <2>1, <2>2 DEF Withdraw, Calls
  <2> QED
    BY <1>m, <1>w, <2>3
<1>x. ASSUME NEW p \in Processes, NEW s \in AdminSessions, NEW e \in Elevations, Expire(p, s, e),
             ~At(p, "expireRestore"), rollbacks' = rollbacks
      PROVE  RollInv'
  <2>1. PICK r : r = [Idle(s) EXCEPT !.elev = e]
    OBVIOUS
  <2>2. r \in Calls /\ Withdraw(p, r, "expireNotify")
    BY <1>x, <2>1, IdleCalls DEF Expire, Calls, SessionOrNone
  <2> QED
    BY <1>w, <1>x, <2>2
<1>1. CASE Tick \/ IssueSeal \/ UNCHANGED elevationVars
  BY <1>1 DEF Tick, IssueSeal, elevationVars, RollInv, Restoring, At
<1>2. ASSUME NEW p \in Processes, Settle(p) PROVE RollInv'
  <2>1. CASE Reused(p) \/ Prompted(p) \/ ApprovalUndone(p) \/ Respond(p) \/ ExpiryRestored(p)
    BY <2>1, <1>e, <1>g DEF Reused, Prompted, ApprovalUndone, Respond, ExpiryRestored, At
  <2>2. CASE ExpiryNotified(p) \/ RollbackNotified(p)
    BY <2>2, <1>e, <1>g DEF ExpiryNotified, RollbackNotified, At
  <2>3. CASE ExpiryAudited(p)
    <3>1. PICK r : r = [Idle(procs[p].sess) EXCEPT !.at = "prompt"]
      OBVIOUS
    <3>2. r.at = "prompt"
      BY <3>1 DEF Idle
    <3> QED
      BY <2>3, <3>1, <3>2, <1>e, <1>m DEF ExpiryAudited, At
  <2>4. CASE Minted(p)
    <3>1. PICK e : e = [sess |-> procs[p].sess, exp |-> clock + TtlMs]
      OBVIOUS
    <3>2. PICK c : c = Changes(entries, StoreSet(entries, e.sess, e.exp))
      OBVIOUS
    <3>3. PICK r : r = [procs[p] EXCEPT !.at = "approveNotify", !.elev = e, !.changed = c]
      OBVIOUS
    <3>4. r.at = "approveNotify" /\ (Move(p, r) \/ End(p)) /\ procs[p].at = "fingerprint"
          /\ rollbacks' = rollbacks
      BY <1>0, <2>4, <3>1, <3>2, <3>3 DEF Minted, Calls, At
    <3> QED
      BY <3>4, <1>e, <1>m DEF At
  <2>5. CASE ApprovalNotified(p)
    BY <1>0, <2>5, <1>g, <1>w DEF ApprovalNotified, At
  <2>6. CASE ApprovalAudited(p)
    BY <1>0, <2>6, <1>g, <1>w DEF ApprovalAudited, At
  <2>7. CASE Read(p)
    <3>1. PICK r : r = [procs[p] EXCEPT !.at = "served", !.time = clock]
      OBVIOUS
    <3>2. r.at = "served"
      BY <1>0, <3>1 DEF Calls
    <3> QED
      BY <2>7, <3>1, <3>2, <1>e, <1>m DEF Read, At
  <2> QED
    BY <1>2, <2>1, <2>2, <2>3, <2>4, <2>5, <2>6, <2>7 DEF Settle
<1>3. ASSUME NEW s \in AdminSessions, TimerFires(s) PROVE RollInv'
  <2>1. s \in Processes /\ timers[s] \in Elevations
    BY DEF Processes, ElevInv, ElevTypes
  <2> QED
    BY <1>3, <1>x, <2>1 DEF TimerFires, At
<1>4. ASSUME NEW s \in AdminSessions, NEW p \in ReadRequests, Resolve(p, s) PROVE RollInv'
  <2>1. /\ p \in Processes /\ cache[s] \in Elevations /\ CachedFor(s) = cache[s]
        /\ ~At(p, "expireRestore") /\ rollbacks' = rollbacks
    BY <1>4 DEF Processes, ElevInv, ElevTypes, CachedFor, Resolve, At
  <2>2. PICK r1, r2 : /\ r1 = [Idle(s) EXCEPT !.at = "reuse", !.elev = cache[s]]
                      /\ r2 = [Idle(s) EXCEPT !.at = "prompt"]
    OBVIOUS
  <2>3. r1.at = "reuse" /\ r2.at = "prompt"
    BY <2>2 DEF Idle
  <2>4. Move(p, r1) \/ Move(p, r2) \/ Expire(p, s, cache[s])
    BY <1>4, <2>1, <2>2 DEF Resolve
  <2> QED
    BY <2>1, <2>3, <2>4, <1>m, <1>x
<1> QED
  BY <1>1, <1>2, <1>3, <1>4 DEF ElevationNext

\* For every number of sessions and requests: what a session without overlapping
\* calls can still read under is in the disclosure store, its timer expires it,
\* and the rollback window is open exactly while a rollback refreshes
\* (read-elevation.ts, read-disclosure-store.ts).
THEOREM StoreAlwaysDiscloses == ElevationSpec => []StoreDiscloses
<1>1. ElevationInit => ElevInv /\ DiscInv /\ RollInv
  BY InitElev, InitDisc
<1>2. ElevInv /\ DiscInv /\ RollInv /\ [ElevationNext]_elevationVars
         => ElevInv' /\ DiscInv' /\ RollInv'
  BY StepElev, StepDisc, StepRoll
<1>3. ElevInv /\ DiscInv /\ RollInv => StoreDiscloses
  BY DEF StoreDiscloses, DiscInv, SessionHolds, RollInv, Restoring
<1> QED
  BY <1>1, <1>2, <1>3, PTL DEF ElevationSpec

-----------------------------------------------------------------------------
(* Onboarding.                                                               *)

JoinPhases == {"idle", "register", "connect", "structured", "text", "poll", "joined", "failed"}
TaskRecords == [at : {"none", "dispatch", "add", "accepted"}, host : Nat, retry : BOOLEAN]

OnboardingTypes ==
  /\ phase \in [Joiners -> JoinPhases] /\ row \in [Joiners -> {"none", "new", "ready", "removed"}]
  /\ invite \in [Joiners -> Nat] /\ sent \subseteq Messages /\ unseen \subseteq sent
  /\ members \subseteq Joiners /\ stale \subseteq Joiners
  /\ tag \in Nat /\ tags \in Nat /\ restarts \in Nat
  /\ tasks \in [Messages -> TaskRecords] /\ accepts \in [Messages -> Nat]

\* The row of an attempt goes with its phase, and nobody is known to the host
\* before joining.
JoinerInv ==
  /\ \A j \in Joiners :
        /\ phase[j] = "register" => row[j] = "new"
        /\ phase[j] \in {"connect", "structured", "text", "poll", "joined"} => row[j] = "ready"
        /\ phase[j] = "joined" => j \in members
        /\ phase[j] = "failed" => row[j] = "removed"
        /\ phase[j] = "idle" => j \notin members \cup stale
  /\ \A m \in sent : phase[Sender(m)] # "idle"

\* One message of a joiner is in flight at a time, and none that could still
\* add the joiner once its key is processed.
TaskInv ==
  /\ inflight = {m \in Messages : tasks[m].at # "none"} /\ inflight \subseteq sent
  /\ busy = {Sender(m) : m \in inflight}
  /\ \A m, n \in inflight : Sender(m) = Sender(n) => m = n
  /\ \A m \in inflight : tasks[m].at # "accepted" => Sender(m) \notin keys

Accepts(j) == accepts[<<j, "structured">>] + accepts[<<j, "text">>]

\* An accepted joiner is remembered by its key.
AcceptInv ==
  restarts = 0 => \A j \in Joiners \ expired : Accepts(j) = 0 \/ (Accepts(j) = 1 /\ j \in keys)

\* The host knows the tag of its last invite, and adds nobody with an older one.
KeptOut(j) == /\ invite[j] < tag /\ j \notin members
              /\ \A m \in inflight : tasks[m].at = "add" => Sender(m) # j

StaleInv == restarts = 0 => tag = tags /\ \A j \in stale : KeptOut(j)

OnboardingInv == OnboardingTypes /\ JoinerInv /\ TaskInv /\ AcceptInv /\ StaleInv

LEMMA InitOnboarding == OnboardingInit => OnboardingInv
  BY DEF OnboardingInit, OnboardingInv, OnboardingTypes, JoinerInv, TaskInv, AcceptInv, StaleInv,
         JoinPhases, TaskRecords, NoTask, Messages, Kinds, Sender, Accepts

LEMMA MessageFacts ==
  /\ \A m \in Messages : Sender(m) \in Joiners /\ m = <<Sender(m), m[2]>> /\ m[2] \in Kinds
  /\ \A j \in Joiners : <<j, "structured">> \in Messages /\ <<j, "text">> \in Messages
  /\ \A j \in Joiners, k \in Kinds : Sender(<<j, k>>) = j
  /\ \A m, n \in Messages : Sender(m) = Sender(n) /\ m[2] = n[2] => m = n
  BY DEF Messages, Kinds, Sender

\* What a step of a joiner leaves alone on the host's side.
HostKept == UNCHANGED <<tag, tags, processed, keys, inflight, busy, tasks, scans, restarts>>

\* A step of one joiner that goes from one phase to another.
LEMMA JoinerMoves ==
  ASSUME OnboardingInv, NEW j \in Joiners, HostKept, UNCHANGED <<invite, members, histVars>>,
         NEW where \in JoinPhases, phase' = [phase EXCEPT ![j] = where],
         NEW state \in {"new", "ready", "removed"}, row' = [row EXCEPT ![j] = state],
         phase[j] # "idle", where # "idle",
         where = "register" => state = "new",
         where \in {"connect", "structured", "text", "poll", "joined"} => state = "ready",
         where = "joined" => j \in members,
         where = "failed" => state = "removed",
         \/ UNCHANGED <<sent, unseen>>
         \/ \E k \in Kinds : Deliver(<<j, k>>)
  PROVE  OnboardingInv'
<1>1. /\ sent \subseteq sent' /\ sent' \subseteq Messages /\ unseen' \subseteq sent'
      /\ \A m \in sent' : m \in sent \/ Sender(m) = j
  BY MessageFacts DEF Deliver, OnboardingInv, OnboardingTypes, Messages
<1>2. OnboardingTypes'
  BY <1>1 DEF OnboardingInv, OnboardingTypes, HostKept, histVars
<1>3. JoinerInv'
  BY <1>1, MessageFacts DEF OnboardingInv, OnboardingTypes, JoinerInv, HostKept, histVars
<1>4. TaskInv'
  BY <1>1 DEF OnboardingInv, OnboardingTypes, TaskInv, HostKept
<1>5. AcceptInv' /\ StaleInv'
  BY DEF OnboardingInv, AcceptInv, StaleInv, Accepts, HostKept, histVars, KeptOut
<1> QED
  BY <1>2, <1>3, <1>4, <1>5 DEF OnboardingInv

LEMMA JoinKeeps ==
  ASSUME OnboardingInv, NEW j \in Joiners, NEW t \in 1 .. MaxTags, Join(j, t)
  PROVE  OnboardingInv'
<1>1. /\ phase[j] = "idle" /\ t \in 1 .. tags /\ tags \in Nat
      /\ phase' = [phase EXCEPT ![j] = "register"] /\ row' = [row EXCEPT ![j] = "new"]
      /\ invite' = [invite EXCEPT ![j] = t]
      /\ stale' = IF tag # 0 /\ tag # t THEN stale \union {j} ELSE stale
      /\ UNCHANGED <<sent, members, hostVars, accepts, expired>>
  BY DEF Join, Goto, OnboardingInv, OnboardingTypes
<1>2. OnboardingTypes'
  BY <1>1 DEF OnboardingInv, OnboardingTypes, JoinPhases, hostVars
<1>3. JoinerInv'
  BY <1>1, MessageFacts DEF OnboardingInv, OnboardingTypes, JoinerInv, hostVars
<1>4. TaskInv'
  BY <1>1 DEF OnboardingInv, TaskInv, hostVars
<1>5. AcceptInv'
  BY <1>1 DEF OnboardingInv, AcceptInv, Accepts, hostVars
<1>6. StaleInv'
  <2>1. j \notin members /\ \A m \in inflight : Sender(m) # j
    BY <1>1 DEF OnboardingInv, JoinerInv, TaskInv
  <2>0. SUFFICES ASSUME restarts = 0
                 PROVE  tag' = tags' /\ \A i \in stale' : KeptOut(i)'
    BY <1>1 DEF StaleInv, hostVars
  <2>2. SUFFICES ASSUME NEW i \in stale'
                 PROVE  tag' = tags' /\ KeptOut(i)'
    BY <1>1, <2>0 DEF OnboardingInv, StaleInv, hostVars
  <2>3. tag = tags /\ UNCHANGED <<tag, tags, members, inflight, tasks>>
    BY <1>1, <2>0 DEF OnboardingInv, StaleInv, hostVars
  <2>4. CASE i = j
    <3>1. t # tag
      BY <1>1, <2>2, <2>4 DEF OnboardingInv, JoinerInv
    <3> QED
      BY <1>1, <2>1, <2>3, <2>4, <3>1 DEF KeptOut, OnboardingInv, OnboardingTypes
  <2>5. CASE i # j
    <3>1. i \in stale /\ invite'[i] = invite[i]
      BY <1>1, <2>2, <2>5 DEF OnboardingInv, OnboardingTypes
    <3> QED
      BY <2>0, <2>3, <3>1 DEF OnboardingInv, StaleInv, KeptOut
  <2> QED
    BY <2>4, <2>5
<1> QED
  BY <1>2, <1>3, <1>4, <1>5, <1>6 DEF OnboardingInv

LEMMA JoinerStepKeeps ==
  ASSUME OnboardingInv, NEW j \in Joiners, JoinerStep(j)
  PROVE  OnboardingInv'
<1> USE DEF Goto, GiveUp, HostKept, hostVars, histVars, JoinPhases, Kinds
<1>0. /\ phase[j] \in JoinPhases /\ row[j] \in {"none", "new", "ready", "removed"}
      /\ phase[j] \in {"connect", "structured", "text", "poll", "joined"} => row[j] = "ready"
      /\ row = [row EXCEPT ![j] = row[j]]
  BY DEF OnboardingInv, OnboardingTypes, JoinerInv
<1>s. phase = [phase EXCEPT ![j] = phase[j]]
  BY DEF OnboardingInv, OnboardingTypes
<1>1. CASE Registered(j)
  BY <1>1, JoinerMoves DEF Registered
<1>2. CASE Connected(j)
  BY <1>0, <1>2, JoinerMoves DEF Connected
<1>3. CASE SendStructured(j)
  BY <1>0, <1>3, JoinerMoves DEF SendStructured
<1>4. CASE SendText(j)
  BY <1>0, <1>4, JoinerMoves DEF SendText
<1>5. CASE Poll(j)
  BY <1>0, <1>s, <1>5, JoinerMoves DEF Poll
<1> QED
  BY <1>1, <1>2, <1>3, <1>4, <1>5 DEF JoinerStep

\* What a step of the host leaves alone on the joiners' side.
JoinersKept == UNCHANGED <<phase, row, invite, sent, stale>>

\* A step of the host that takes up a message of the DM, if any.
LEMMA TakeKeeps ==
  ASSUME OnboardingInv, JoinersKept, unseen' \subseteq unseen,
         UNCHANGED <<members, tag, tags, processed, keys, restarts, accepts, expired>>,
         \/ UNCHANGED <<inflight, busy, tasks>>
         \/ \E m \in sent : ~Seen(m) /\ Take(m)
  PROVE  OnboardingInv'
<1>1. OnboardingTypes'
  <2>1. \A m \in Messages : Take(m) => tasks' \in [Messages -> TaskRecords]
    <3>1. [NoTask EXCEPT !.at = "dispatch", !.host = 1] \in TaskRecords
      BY DEF TaskRecords, NoTask
    <3> QED
      BY <3>1 DEF OnboardingInv, OnboardingTypes, Take
  <2>2. sent \subseteq Messages /\ tasks' \in [Messages -> TaskRecords]
    BY <2>1 DEF OnboardingInv, OnboardingTypes
  <2> QED
    BY <2>2 DEF OnboardingInv, OnboardingTypes, JoinersKept
<1>2. JoinerInv'
  BY DEF OnboardingInv, JoinerInv, JoinersKept
<1>3. AcceptInv'
  BY DEF OnboardingInv, AcceptInv, Accepts
<1>4. TaskInv' /\ StaleInv'
  <2>1. CASE UNCHANGED <<inflight, busy, tasks>>
    BY <2>1 DEF OnboardingInv, TaskInv, StaleInv, JoinersKept, KeptOut
  <2>2. CASE \E m \in sent : ~Seen(m) /\ Take(m)
    <3>1. PICK m \in sent : ~Seen(m) /\ Take(m)
      BY <2>2
    <3>2. /\ m \in Messages /\ m \notin inflight /\ Sender(m) \notin busy /\ Sender(m) \notin keys
          /\ inflight' = inflight \cup {m} /\ busy' = busy \cup {Sender(m)}
          /\ tasks'[m].at = "dispatch" /\ \A n \in Messages \ {m} : tasks'[n] = tasks[n]
      BY <3>1 DEF Seen, Take, NoTask, OnboardingInv, OnboardingTypes
    <3>3. inflight' = {n \in Messages : tasks'[n].at # "none"} /\ inflight' \subseteq sent'
      BY <3>1, <3>2 DEF OnboardingInv, TaskInv, JoinersKept
    <3>4. busy' = {Sender(n) : n \in inflight'}
      BY <3>2 DEF OnboardingInv, TaskInv
    <3>5. \A n1, n2 \in inflight' : Sender(n1) = Sender(n2) => n1 = n2
      BY <3>2 DEF OnboardingInv, TaskInv
    <3>6. \A n \in inflight' : tasks'[n].at # "accepted" => Sender(n) \notin keys'
      BY <3>2 DEF OnboardingInv, TaskInv
    <3>7. StaleInv'
      BY <3>2 DEF OnboardingInv, TaskInv, StaleInv, JoinersKept, KeptOut
    <3> QED
      BY <3>3, <3>4, <3>5, <3>6, <3>7 DEF TaskInv
  <2> QED
    BY <2>1, <2>2
<1> QED
  BY <1>1, <1>2, <1>3, <1>4 DEF OnboardingInv

\* A step of the host that ends the processing of a message.
LEMMA DropKeeps ==
  ASSUME OnboardingInv, JoinersKept, NEW m \in Messages, tasks[m].at # "none", Drop(m),
         UNCHANGED <<members, tag, tags, unseen, processed, keys, restarts, accepts, expired>>
  PROVE  OnboardingInv'
<1>1. OnboardingTypes'
  BY DEF OnboardingInv, OnboardingTypes, JoinersKept, Drop, TaskRecords, NoTask
<1>2. JoinerInv'
  BY DEF OnboardingInv, JoinerInv, JoinersKept
<1>3. AcceptInv'
  BY DEF OnboardingInv, AcceptInv, Accepts
<1>4. /\ m \in inflight /\ inflight' = inflight \ {m} /\ busy' = busy \ {Sender(m)}
      /\ tasks'[m].at = "none" /\ \A n \in Messages \ {m} : tasks'[n] = tasks[n]
  BY DEF Drop, NoTask, OnboardingInv, OnboardingTypes, TaskInv
<1>5. inflight' = {n \in Messages : tasks'[n].at # "none"} /\ inflight' \subseteq sent'
  BY <1>4 DEF OnboardingInv, TaskInv, JoinersKept
<1>6. busy' = {Sender(n) : n \in inflight'}
  BY <1>4 DEF OnboardingInv, TaskInv
<1>7. /\ \A n1, n2 \in inflight' : Sender(n1) = Sender(n2) => n1 = n2
      /\ \A n \in inflight' : tasks'[n].at # "accepted" => Sender(n) \notin keys'
  BY <1>4 DEF OnboardingInv, TaskInv
<1>8. StaleInv'
  BY <1>4, <1>5 DEF OnboardingInv, OnboardingTypes, StaleInv, TaskInv, JoinersKept, KeptOut
<1> QED
  BY <1>1, <1>2, <1>3, <1>5, <1>6, <1>7, <1>8 DEF OnboardingInv, TaskInv

\* A step of the host on a message that stays in flight; t is its task
\* afterwards, and the sender may have been added.
LEMMA AdvanceKeeps ==
  ASSUME OnboardingInv, JoinersKept, NEW m \in inflight, NEW t \in TaskRecords,
         Advance(m, t), t.at \in {"dispatch", "add"}, tasks[m].at \in {"dispatch", "add"},
         members' = members \/ (members' = members \cup {Sender(m)} /\ tasks[m].at = "add"),
         t.at = "add" => tag = 0 \/ tag = invite[Sender(m)],
         UNCHANGED <<tag, tags, unseen, processed, keys, inflight, busy, restarts,
                     accepts, expired>>
  PROVE  OnboardingInv'
<1>1. m \in Messages /\ Sender(m) \in Joiners /\ phase[Sender(m)] # "idle"
  BY MessageFacts DEF OnboardingInv, OnboardingTypes, JoinerInv, TaskInv
<1>2. tasks'[m] = t /\ \A n \in Messages \ {m} : tasks'[n] = tasks[n]
  BY <1>1 DEF Advance, OnboardingInv, OnboardingTypes
<1>3. OnboardingTypes'
  BY <1>1 DEF Advance, OnboardingInv, OnboardingTypes, JoinersKept
<1>4. JoinerInv'
  BY <1>1 DEF OnboardingInv, JoinerInv, JoinersKept
<1>5. TaskInv'
  BY <1>1, <1>2 DEF OnboardingInv, TaskInv, JoinersKept
<1>6. AcceptInv'
  BY DEF OnboardingInv, AcceptInv, Accepts
<1>7. StaleInv'
  <2>0. SUFFICES ASSUME restarts = 0
                 PROVE  tag' = tags' /\ \A i \in stale' : KeptOut(i)'
    BY DEF StaleInv
  <2>1. SUFFICES ASSUME NEW i \in stale
                 PROVE  tag' = tags' /\ KeptOut(i)'
    BY <2>0 DEF OnboardingInv, StaleInv, JoinersKept
  <2>2. /\ tag = tags /\ invite[i] < tag /\ i \notin members
        /\ \A n \in inflight : tasks[n].at = "add" => Sender(n) # i
    BY <2>0, <2>1 DEF OnboardingInv, StaleInv, KeptOut
  <2>3. tag \in Nat /\ invite[i] \in Nat
    BY <2>1 DEF OnboardingInv, OnboardingTypes
  <2>4. t.at = "add" => Sender(m) # i
    BY <2>2, <2>3
  <2>5. \A n \in inflight : n \in Messages
    BY DEF OnboardingInv, TaskInv
  <2> QED
    BY <1>2, <2>2, <2>4, <2>5 DEF KeptOut, JoinersKept
<1> QED
  BY <1>3, <1>4, <1>5, <1>6, <1>7 DEF OnboardingInv

\* The acceptance itself: the key was free, so it is the first one since the
\* key last expired.
LEMMA AddedKeeps ==
  ASSUME OnboardingInv, NEW m \in Messages, Added(m)
  PROVE  OnboardingInv'
<1>1. /\ tasks[m].at = "add" /\ members' = members \cup {Sender(m)}
      /\ keys' = keys \cup {Sender(m)} /\ accepts' = [accepts EXCEPT ![m] = @ + 1]
      /\ tasks' = [tasks EXCEPT ![m] = [tasks[m] EXCEPT !.at = "accepted"]]
      /\ UNCHANGED <<phase, row, invite, sent, tag, tags, unseen, inflight, busy, restarts,
                     expired, stale>>
  BY DEF Added, Advance, joinerVars
<1>2. m \in inflight /\ Sender(m) \in Joiners /\ Sender(m) \notin keys /\ phase[Sender(m)] # "idle"
  BY <1>1, MessageFacts DEF OnboardingInv, OnboardingTypes, JoinerInv, TaskInv
<1>3. tasks'[m].at = "accepted" /\ \A n \in Messages \ {m} : tasks'[n] = tasks[n]
  BY <1>1 DEF OnboardingInv, OnboardingTypes, TaskRecords
<1>4. OnboardingTypes'
  BY <1>1, <1>2 DEF OnboardingInv, OnboardingTypes, TaskRecords
<1>5. JoinerInv'
  BY <1>1, <1>2 DEF OnboardingInv, JoinerInv
<1>6. TaskInv'
  BY <1>1, <1>2, <1>3 DEF OnboardingInv, TaskInv
<1>7. AcceptInv'
  <2>1. SUFFICES ASSUME restarts = 0, NEW j \in Joiners \ expired
                 PROVE  Accepts(j)' = 0 \/ (Accepts(j)' = 1 /\ j \in keys')
    BY <1>1 DEF AcceptInv
  <2>2. Accepts(j) = 0 \/ (Accepts(j) = 1 /\ j \in keys)
    BY <2>1 DEF OnboardingInv, AcceptInv
  <2>3. CASE j = Sender(m)
    <3>1. m = <<j, "structured">> \/ m = <<j, "text">>
      BY <2>3, MessageFacts DEF Kinds
    <3>2. /\ accepts[<<j, "structured">>] \in Nat /\ accepts[<<j, "text">>] \in Nat
          /\ <<j, "structured">> \in Messages /\ <<j, "text">> \in Messages
          /\ <<j, "structured">> # <<j, "text">>
      BY MessageFacts DEF OnboardingInv, OnboardingTypes
    <3>3. Accepts(j) = 0
      BY <1>2, <2>2, <2>3
    <3>4. accepts[<<j, "structured">>] = 0 /\ accepts[<<j, "text">>] = 0
      BY <3>2, <3>3 DEF Accepts
    <3> QED
      BY <1>1, <2>3, <3>1, <3>2, <3>4 DEF Accepts, OnboardingInv, OnboardingTypes
  <2>4. CASE j # Sender(m)
    <3>1. m # <<j, "structured">> /\ m # <<j, "text">>
      BY <2>4, MessageFacts DEF Kinds
    <3>2. Accepts(j)' = Accepts(j)
      BY <1>1, <3>1, MessageFacts DEF Accepts, OnboardingInv, OnboardingTypes
    <3> QED
      BY <1>1, <2>2, <3>2
  <2> QED
    BY <2>3, <2>4
<1>8. StaleInv'
  BY <1>1, <1>2, <1>3 DEF OnboardingInv, StaleInv, TaskInv, KeptOut
<1> QED
  BY <1>4, <1>5, <1>6, <1>7, <1>8 DEF OnboardingInv

LEMMA TaskStepKeeps ==
  ASSUME OnboardingInv, NEW m \in Messages, TaskStep(m)
  PROVE  OnboardingInv'
<1>1. tasks[m] \in TaskRecords /\ (tasks[m].at # "none" => m \in inflight)
  BY DEF OnboardingInv, OnboardingTypes, TaskInv
<1>2. CASE HostUnavailable(m)
  <2>1. [tasks[m] EXCEPT !.host = @ + 1, !.retry = TRUE] \in TaskRecords
    <3>1. PICK n \in Nat : n = tasks[m].host + 1
      BY <1>1 DEF TaskRecords
    <3>2. [tasks[m] EXCEPT !.host = n, !.retry = TRUE] \in TaskRecords
      BY <1>1 DEF TaskRecords
    <3> QED
      BY <3>1, <3>2
  <2>2. [tasks[m] EXCEPT !.host = @ + 1, !.retry = TRUE].at = "dispatch"
    BY <1>1, <1>2 DEF TaskRecords, HostUnavailable, Working
  <2>3. PICK t \in TaskRecords : t = [tasks[m] EXCEPT !.host = @ + 1, !.retry = TRUE]
    BY <2>1
  <2>4. /\ Advance(m, t) /\ tasks[m].at = "dispatch" /\ m \in inflight
        /\ UNCHANGED <<members, tag, tags, unseen, processed, keys, inflight, busy, restarts,
                       accepts, expired>>
        /\ JoinersKept
    BY <1>1, <1>2, <2>3 DEF HostUnavailable, Working, joinerVars, histVars, JoinersKept
  <2> QED
    BY <2>2, <2>3, <2>4, AdvanceKeeps
<1>3. CASE HostTries(m)
  <2>1. PICK t : t = IF Acceptable(tasks[m].host, Sender(m))
                     THEN [tasks[m] EXCEPT !.at = "add"] ELSE [tasks[m] EXCEPT !.host = @ + 1]
    OBVIOUS
  <2>2. t \in TaskRecords /\ t.at \in {"dispatch", "add"}
        /\ (t.at = "add" => tag = 0 \/ tag = invite[Sender(m)])
    BY <1>1, <1>3, <2>1 DEF TaskRecords, HostTries, Working, Acceptable
  <2>3. /\ Advance(m, t) /\ tasks[m].at = "dispatch" /\ m \in inflight
        /\ UNCHANGED <<members, tag, tags, unseen, processed, keys, inflight, busy, restarts,
                       accepts, expired>>
        /\ JoinersKept
    BY <1>1, <1>3, <2>1 DEF HostTries, Working, joinerVars, histVars, JoinersKept
  <2> QED
    BY <2>2, <2>3, AdvanceKeeps
<1>4. CASE AddFails(m)
  <2>1. PICK again \in BOOLEAN :
           Advance(m, [tasks[m] EXCEPT !.at = "dispatch", !.host = @ + 1, !.retry = @ \/ again])
    BY <1>4 DEF AddFails
  <2>2. PICK t : t = [tasks[m] EXCEPT !.at = "dispatch", !.host = @ + 1, !.retry = @ \/ again]
    OBVIOUS
  <2>3. t \in TaskRecords /\ t.at = "dispatch"
    <3>1. PICK n \in Nat : n = tasks[m].host + 1
      BY <1>1 DEF TaskRecords
    <3>2. PICK b \in BOOLEAN : b = (tasks[m].retry \/ again)
      OBVIOUS
    <3>3. t = [tasks[m] EXCEPT !.at = "dispatch", !.host = n, !.retry = b]
      BY <2>2, <3>1, <3>2, Zenon
    <3> QED
      BY <1>1, <3>3 DEF TaskRecords
  <2>4. /\ Advance(m, t) /\ tasks[m].at = "add" /\ m \in inflight
        /\ members' \in {members, members \cup {Sender(m)}}
        /\ UNCHANGED <<tag, tags, unseen, processed, keys, inflight, busy, restarts,
                       accepts, expired>>
        /\ JoinersKept
    BY <1>1, <1>4, <2>1, <2>2 DEF AddFails, joinerVars, histVars, JoinersKept
  <2> QED
    BY <2>3, <2>4, AdvanceKeeps
<1>5. CASE Added(m)
  BY <1>5, AddedKeeps
<1>6. CASE Accepted(m) \/ Declined(m)
  BY <1>6, DropKeeps DEF Accepted, Declined, Working, joinerVars, histVars, JoinersKept
<1> QED
  BY <1>2, <1>3, <1>4, <1>5, <1>6 DEF TaskStep

LEMMA ScanKeeps ==
  ASSUME OnboardingInv, NEW j \in Joiners,
         \/ \E m \in Messages : StreamDelivers(m)
         \/ DmDiscovered(j) \/ ScanStep(j)
  PROVE  OnboardingInv'
<1>1. CASE \E m \in Messages : StreamDelivers(m)
  <2>1. PICK m \in Messages : StreamDelivers(m)
    BY <1>1
  <2>2. m \in sent
    BY <2>1 DEF StreamDelivers, OnboardingInv, OnboardingTypes
  <2> QED
    BY <2>1, <2>2, TakeKeeps DEF StreamDelivers, joinerVars, histVars, JoinersKept
<1>2. CASE DmDiscovered(j) \/ RecoveryEnds(j)
  BY <1>2, TakeKeeps DEF DmDiscovered, RecoveryEnds, HostRest, joinerVars, histVars, JoinersKept
<1>3. CASE Scanned(j)
  <2>1. Candidates(j) # {} => Preferred(j) \in sent
    <3>1. ASSUME Candidates(j) # {} PROVE Preferred(j) \in sent
      <4>1. PICK m \in Candidates(j) : TRUE
        BY <3>1
      <4>2. m \in sent /\ (m = <<j, "structured">> \/ m = <<j, "text">>)
        BY <4>1, MessageFacts DEF Candidates, Kinds, OnboardingInv, OnboardingTypes
      <4> QED
        BY <4>1, <4>2 DEF Preferred, Candidates
    <3> QED
      BY <3>1
  <2>2. /\ \/ UNCHANGED <<inflight, busy, tasks>>
           \/ Candidates(j) # {} /\ ~Seen(Preferred(j)) /\ Take(Preferred(j))
        /\ HostRest
    BY <1>3 DEF Scanned
  <2> QED
    BY <2>1, <2>2, TakeKeeps DEF HostRest, joinerVars, histVars, JoinersKept
<1> QED
  BY <1>1, <1>2, <1>3 DEF ScanStep

LEMMA HostRestKeeps ==
  ASSUME OnboardingInv, Invite \/ Restart \/ \E j \in Joiners : KeyExpires(j)
  PROVE  OnboardingInv'
<1>1. CASE Invite
  <2>1. /\ tags \in Nat /\ tags' = tags + 1 /\ tag' = tags + 1
        /\ UNCHANGED <<phase, row, invite, sent, unseen, members, keys, inflight, busy, tasks,
                       restarts, accepts, expired, stale>>
    BY <1>1 DEF Invite, joinerVars, histVars, OnboardingInv, OnboardingTypes
  <2>2. OnboardingTypes' /\ JoinerInv' /\ TaskInv' /\ AcceptInv'
    BY <2>1 DEF OnboardingInv, OnboardingTypes, JoinerInv, TaskInv, AcceptInv, Accepts
  <2>3. \A j \in stale : invite[j] \in Nat
    BY DEF OnboardingInv, OnboardingTypes
  <2>4. StaleInv'
    BY <2>1, <2>3 DEF OnboardingInv, StaleInv, KeptOut
  <2> QED
    BY <2>2, <2>4 DEF OnboardingInv
<1>2. CASE Restart
  <2>1. /\ restarts \in Nat /\ restarts' = restarts + 1 /\ tag' = 0 /\ keys' = {}
        /\ inflight' = {} /\ busy' = {} /\ unseen' = {}
        /\ tasks' = [m \in Messages |-> NoTask]
        /\ UNCHANGED <<phase, row, invite, sent, members, tags, accepts, expired, stale>>
    BY <1>2 DEF Restart, joinerVars, histVars, OnboardingInv, OnboardingTypes
  <2>2. NoTask \in TaskRecords /\ NoTask.at = "none"
    BY DEF NoTask, TaskRecords
  <2>3. OnboardingTypes' /\ JoinerInv' /\ TaskInv'
    BY <2>1, <2>2 DEF OnboardingInv, OnboardingTypes, JoinerInv, TaskInv
  <2>4. AcceptInv' /\ StaleInv'
    BY <2>1 DEF AcceptInv, StaleInv
  <2> QED
    BY <2>3, <2>4 DEF OnboardingInv
<1>3. CASE \E j \in Joiners : KeyExpires(j)
  <2>1. PICK j \in Joiners : KeyExpires(j)
    BY <1>3
  <2>2. /\ keys' = keys \ {j} /\ expired' = expired \cup {j}
        /\ UNCHANGED <<phase, row, invite, sent, unseen, members, tag, tags, inflight, busy,
                       tasks, restarts, accepts, stale>>
    BY <2>1 DEF KeyExpires, joinerVars
  <2>3. OnboardingTypes' /\ JoinerInv' /\ TaskInv'
    BY <2>2 DEF OnboardingInv, OnboardingTypes, JoinerInv, TaskInv
  <2>4. AcceptInv' /\ StaleInv'
    BY <2>2 DEF OnboardingInv, AcceptInv, Accepts, StaleInv, KeptOut
  <2> QED
    BY <2>3, <2>4 DEF OnboardingInv
<1> QED
  BY <1>1, <1>2, <1>3

LEMMA StepOnboarding == OnboardingInv /\ [OnboardingNext]_onboardingVars => OnboardingInv'
<1> SUFFICES ASSUME OnboardingInv, [OnboardingNext]_onboardingVars PROVE OnboardingInv'
  OBVIOUS
<1>1. CASE UNCHANGED onboardingVars
  <2>1. UNCHANGED <<phase, row, invite, sent, members, tag, tags, unseen, keys, inflight, busy,
                    tasks, restarts, accepts, expired, stale>>
    BY <1>1 DEF onboardingVars, joinerVars, hostVars, histVars
  <2> QED
    BY <2>1 DEF OnboardingInv, OnboardingTypes, JoinerInv, TaskInv, AcceptInv, Accepts,
                StaleInv, KeptOut
<1>2. CASE OnboardingNext
  <2>1. CASE Invite \/ Restart \/ \E j \in Joiners : KeyExpires(j)
    BY <2>1, HostRestKeeps
  <2>2. CASE \E j \in Joiners, t \in 1 .. MaxTags : Join(j, t)
    BY <2>2, JoinKeeps
  <2>3. CASE \E j \in Joiners : JoinerStep(j)
    BY <2>3, JoinerStepKeeps
  <2>4. CASE \E j \in Joiners : DmDiscovered(j) \/ ScanStep(j)
    BY <2>4, ScanKeeps
  <2>5. CASE \E m \in Messages : StreamDelivers(m)
    BY <2>5, ScanKeeps, MessageFacts
  <2>6. CASE \E m \in Messages : TaskStep(m)
    BY <2>6, TaskStepKeeps
  <2> QED
    BY <1>2, <2>1, <2>2, <2>3, <2>4, <2>5, <2>6 DEF OnboardingNext
<1> QED
  BY <1>1, <1>2

\* For every number of joiners, identities, invites, polls, retries and
\* restarts: a request is accepted at most once while its dedupe key lives and
\* the host runs, and no replaced invite lets anyone in
\* (processInviteCandidate, processJoinRequest).
THEOREM AcceptancesAreSound == OnboardingSpec => []AcceptancesSound
<1>1. OnboardingInv => AcceptancesSound
  <2> SUFFICES ASSUME OnboardingInv PROVE AcceptedOnce /\ NoStaleInvite
    BY DEF AcceptancesSound
  <2>1. restarts \in Nat
    BY DEF OnboardingInv, OnboardingTypes
  <2>2. AcceptedOnce
    BY <2>1 DEF OnboardingInv, AcceptInv, Accepts, AcceptedOnce
  <2>3. NoStaleInvite
    BY <2>1 DEF OnboardingInv, StaleInv, KeptOut, NoStaleInvite
  <2> QED
    BY <2>2, <2>3
<1> QED
  BY <1>1, InitOnboarding, StepOnboarding, PTL DEF OnboardingSpec

\* A join reported as successful is a membership with a stored identity, one
\* reported as failed leaves no identity behind, and the host's bookkeeping of
\* what is in flight is exact (joinConversation, processInviteCandidate).
THEOREM JoinOutcomesHold == OnboardingSpec => []JoinOutcome
<1>1. OnboardingInv => JoinOutcome
  BY DEF OnboardingInv, OnboardingTypes, JoinerInv, TaskInv, JoinOutcome, OnboardingTypeOK,
         JoinPhases
<1> QED
  BY <1>1, InitOnboarding, StepOnboarding, PTL DEF OnboardingSpec

-----------------------------------------------------------------------------
(* The command channel.                                                      *)

StepRecords == [session : Nat, required : BOOLEAN, how : {"call", "http", "stop"}]
CmdPcs == {"new", "keys", "connect", "auth", "await", "hung", "exited"}
CmdStates == [plan : XsPlans, at : 1 .. MaxSteps, pc : CmdPcs, exit : {"none", "ok", "error"}]

LEMMA StepNumbers ==
  /\ 1 \in 1 .. MaxSteps /\ 2 \in 1 .. MaxSteps /\ 3 \in 1 .. MaxSteps
  /\ \A n \in 1 .. MaxSteps : n \in Nat /\ 1 <= n /\ ~(n < 1)
  /\ \A a, n \in 1 .. MaxSteps : a <= n /\ a # n => a + 1 \in 1 .. MaxSteps /\ a + 1 <= n
  BY DEF MaxSteps

LEMMA PlanFacts ==
  \A plan \in XsPlans : /\ plan \in Seq(StepRecords)
                        /\ Len(plan) \in 1 .. MaxSteps
<1>0. \A n \in Nat, b \in BOOLEAN, how \in {"call", "http", "stop"} :
         Step(n, b, how) \in StepRecords
  BY DEF StepRecords, Step
<1>1. /\ Call(1) \in StepRecords /\ Call(2) \in StepRecords /\ Call(3) \in StepRecords
      /\ Optional \in StepRecords
      /\ Step(1, TRUE, "http") \in StepRecords /\ Step(1, TRUE, "stop") \in StepRecords
  BY <1>0 DEF Call, Optional
<1>2. /\ \A a \in StepRecords : <<a>> \in Seq(StepRecords) /\ Len(<<a>>) = 1
      /\ \A a, b \in StepRecords : <<a, b>> \in Seq(StepRecords) /\ Len(<<a, b>>) = 2
      /\ \A a, b, d \in StepRecords : <<a, b, d>> \in Seq(StepRecords) /\ Len(<<a, b, d>>) = 3
  OBVIOUS
<1>3. ASSUME NEW plan \in XsPlans
      PROVE  \/ \E a \in StepRecords : plan = <<a>>
             \/ \E a, b \in StepRecords : plan = <<a, b>>
             \/ \E a, b, d \in StepRecords : plan = <<a, b, d>>
  <2>1. CASE plan \in {OneRequest} \cup StopCall \cup HttpCall
    BY <1>1, <2>1 DEF OneRequest, StopCall, HttpCall
  <2>2. CASE plan \in ChatCreate
    BY <1>1, <2>2 DEF ChatCreate, OneRequest
  <2>3. CASE plan \in CredentialIssue \cup KeyExport
    BY <1>1, <2>3 DEF CredentialIssue, KeyExport, OneRequest
  <2> QED
    BY <2>1, <2>2, <2>3 DEF XsPlans
<1> SUFFICES ASSUME NEW plan \in XsPlans
             PROVE  plan \in Seq(StepRecords) /\ Len(plan) \in 1 .. MaxSteps
  OBVIOUS
<1>4. CASE \E a \in StepRecords : plan = <<a>>
  BY <1>2, <1>4, StepNumbers
<1>5. CASE \E a, b \in StepRecords : plan = <<a, b>>
  BY <1>2, <1>5, StepNumbers
<1>6. CASE \E a, b, d \in StepRecords : plan = <<a, b, d>>
  BY <1>2, <1>6, StepNumbers
<1> QED
  BY <1>3, <1>4, <1>5, <1>6

ChannelTypes ==
  /\ cmd \in [XsCommands -> CmdStates]
  /\ conn \in [XsCommands -> {"none", "open", "authenticated", "lost"}]
  /\ task \in [XsCommands -> {"idle", "verify", "body", "line", "handler"}]
  /\ answer \in [XsCommands -> {"none", "authenticated", "unauthenticated", "ok", "error"}]
  /\ ran \in [XsCommands \X (1 .. MaxSteps) -> Nat]

\* How far a command in state s has come: what is behind it and required has
\* run once, what lies ahead has not.
Progress(c, s) ==
  /\ s.at <= Len(s.plan)
  /\ s.pc = "new" => s.at = 1
  /\ s.exit = "none" <=> s.pc # "exited"
  /\ \A i \in 1 .. MaxSteps : /\ ran[<<c, i>>] \in {0, 1}
                              /\ i > s.at => ran[<<c, i>>] = 0
                              /\ i < s.at /\ s.plan[i].required => ran[<<c, i>>] = 1
  /\ s.exit = "ok" => /\ s.at = Len(s.plan)
                      /\ s.plan[s.at].required => ran[<<c, s.at>>] = 1

\* The step a command is at has run exactly when its result is on the way back.
LineHolds(c) ==
  /\ OnLine(c) <=> (cmd[c].pc \in {"auth", "await"})
  /\ task[c] # "idle" => answer[c] = "none" /\ OnLine(c)
  /\ answer[c] # "none" => OnLine(c)
  /\ cmd[c].pc # "exited" => ran[<<c, cmd[c].at>>] = IF answer[c] = "ok" THEN 1 ELSE 0

ChannelInv ==
  ChannelTypes /\ \A c \in XsCommands : Progress(c, cmd[c]) /\ LineHolds(c)

LEMMA InitChannel == ChannelInit => ChannelInv
<1> SUFFICES ASSUME ChannelInit PROVE ChannelInv
  OBVIOUS
<1>1. OneRequest \in XsPlans /\ 1 \in 1 .. MaxSteps
  BY DEF XsPlans, MaxSteps
<1>2. [plan |-> OneRequest, at |-> 1, pc |-> "new", exit |-> "none"] \in CmdStates
  BY <1>1 DEF CmdStates, CmdPcs
<1>3. ChannelTypes
  BY <1>2 DEF ChannelInit, ChannelTypes
<1>4. \A c \in XsCommands : Progress(c, cmd[c])
  <2>1. Len(OneRequest) = 1 /\ OneRequest[1].required \in BOOLEAN
    BY DEF OneRequest, Call, Step
  <2>2. \A c \in XsCommands : /\ cmd[c].plan = OneRequest /\ cmd[c].at = 1 /\ cmd[c].pc = "new"
                              /\ cmd[c].exit = "none"
                              /\ \A i \in 1 .. MaxSteps : ran[<<c, i>>] = 0
    BY DEF ChannelInit
  <2> QED
    BY <2>1, <2>2, StepNumbers DEF Progress
<1>5. \A c \in XsCommands : LineHolds(c)
  BY <1>1 DEF ChannelInit, LineHolds, OnLine
<1> QED
  BY <1>3, <1>4, <1>5 DEF ChannelInv

\* A command whose current step needs no more, or has run, goes on soundly.
LEMMA StepDoneProgress ==
  ASSUME ChannelTypes, NEW c \in XsCommands, NEW s \in CmdStates, Progress(c, s), s.pc # "exited",
         s.plan[s.at].required => ran[<<c, s.at>>] = 1
  PROVE  /\ StepDone(s) \in CmdStates /\ Progress(c, StepDone(s))
         /\ StepDone(s).pc \in {"await", "keys", "exited"}
         /\ StepDone(s).pc # "exited" => ran[<<c, StepDone(s).at>>] = 0
<1>1. /\ s.at \in 1 .. MaxSteps /\ Len(s.plan) \in 1 .. MaxSteps /\ s.at <= Len(s.plan)
      /\ s.exit = "none"
  BY PlanFacts DEF CmdStates, Progress
<1>2. CASE s.at = Len(s.plan)
  <2>1. StepDone(s) = [s EXCEPT !.pc = "exited", !.exit = "ok"]
    BY <1>2 DEF StepDone, Exited
  <2>2. PICK r : r = [s EXCEPT !.pc = "exited", !.exit = "ok"]
    OBVIOUS
  <2>3. /\ r \in CmdStates /\ r.plan = s.plan /\ r.at = s.at /\ r.pc = "exited" /\ r.exit = "ok"
    BY <2>2 DEF CmdStates, CmdPcs
  <2>4. Progress(c, r)
    BY <2>3, <1>1, <1>2 DEF Progress
  <2> QED
    BY <2>1, <2>2, <2>3, <2>4
<1>3. CASE s.at # Len(s.plan)
  <2>1. PICK pc \in {"await", "keys"} : StepDone(s) = [s EXCEPT !.at = s.at + 1, !.pc = pc]
    BY <1>3 DEF StepDone
  <2>2. s.at + 1 \in 1 .. MaxSteps /\ s.at + 1 <= Len(s.plan)
    BY <1>1, <1>3, StepNumbers
  <2>3. PICK r : r = [s EXCEPT !.at = s.at + 1, !.pc = pc]
    OBVIOUS
  <2>4. /\ r \in CmdStates /\ r.plan = s.plan /\ r.at = s.at + 1 /\ r.pc = pc /\ r.exit = "none"
    BY <1>1, <2>2, <2>3 DEF CmdStates, CmdPcs
  <2>5. Progress(c, r)
    BY <2>2, <2>4, <1>1 DEF Progress
  <2> QED
    BY <1>1, <2>1, <2>2, <2>3, <2>4, <2>5 DEF Progress
<1> QED
  BY <1>2, <1>3

LEMMA ExitedProgress ==
  ASSUME ChannelTypes, NEW c \in XsCommands, NEW s \in CmdStates, Progress(c, s)
  PROVE  /\ Exited(s, "error") \in CmdStates /\ Progress(c, Exited(s, "error"))
         /\ Exited(s, "error").pc = "exited"
<1>1. PICK r : r = [s EXCEPT !.pc = "exited", !.exit = "error"]
  OBVIOUS
<1>2. /\ r \in CmdStates /\ r.plan = s.plan /\ r.at = s.at /\ r.pc = "exited" /\ r.exit = "error"
  BY <1>1 DEF CmdStates, CmdPcs
<1>3. Progress(c, r)
  BY <1>2 DEF Progress
<1> QED
  BY <1>1, <1>2, <1>3 DEF Exited

LEMMA StepFailedProgress ==
  ASSUME ChannelTypes, NEW c \in XsCommands, NEW s \in CmdStates, Progress(c, s), s.pc # "exited"
  PROVE  /\ StepFailed(s) \in CmdStates /\ Progress(c, StepFailed(s))
         /\ StepFailed(s).pc \in {"await", "keys", "exited"}
         /\ StepFailed(s).pc # "exited" => ran[<<c, StepFailed(s).at>>] = 0
  BY StepDoneProgress, ExitedProgress DEF StepFailed

\* A step of one command leaves the others alone: it is enough to look at c.
LEMMA OneCommand ==
  ASSUME ChannelInv, NEW c \in XsCommands, ChannelTypes',
         \A d \in XsCommands \ {c} :
            /\ cmd'[d] = cmd[d] /\ conn'[d] = conn[d] /\ task'[d] = task[d]
            /\ answer'[d] = answer[d]
            /\ \A i \in 1 .. MaxSteps : ran'[<<d, i>>] = ran[<<d, i>>],
         Progress(c, cmd[c])', LineHolds(c)'
  PROVE  ChannelInv'
<1>1. \A d \in XsCommands \ {c} : cmd[d].at \in 1 .. MaxSteps
  BY DEF ChannelInv, ChannelTypes, CmdStates
<1>2. ASSUME NEW d \in XsCommands \ {c} PROVE Progress(d, cmd[d])' /\ LineHolds(d)'
  <2>1. Progress(d, cmd[d]) /\ LineHolds(d)
    BY DEF ChannelInv
  <2> QED
    BY <1>1, <2>1 DEF Progress, LineHolds, OnLine
<1>3. ASSUME NEW d \in XsCommands PROVE Progress(d, cmd[d])' /\ LineHolds(d)'
  BY <1>2
<1> QED
  BY <1>3 DEF ChannelInv

\* A step that neither runs a handler nor touches the progress of c: s is the
\* state of the command afterwards.
LEMMA QuietStep ==
  ASSUME ChannelInv, NEW c \in XsCommands, NEW s \in CmdStates, cmd' = [cmd EXCEPT ![c] = s],
         Progress(c, s), ran' = ran, ChannelTypes',
         \A d \in XsCommands \ {c} : /\ conn'[d] = conn[d] /\ task'[d] = task[d]
                                     /\ answer'[d] = answer[d],
         OnLine(c)' <=> (s.pc \in {"auth", "await"}),
         task'[c] # "idle" => answer'[c] = "none" /\ OnLine(c)',
         answer'[c] # "none" => OnLine(c)',
         s.pc # "exited" => ran[<<c, s.at>>] = IF answer'[c] = "ok" THEN 1 ELSE 0
  PROVE  ChannelInv'
<1>1. cmd'[c] = s /\ \A d \in XsCommands \ {c} : cmd'[d] = cmd[d]
  BY DEF ChannelInv, ChannelTypes
<1>2. Progress(c, cmd[c])'
  BY <1>1 DEF Progress
<1>3. LineHolds(c)'
  BY <1>1 DEF LineHolds
<1> QED
  BY <1>1, <1>2, <1>3, OneCommand

LEMMA CommandFacts ==
  ASSUME ChannelInv, NEW c \in XsCommands
  PROVE  /\ cmd[c] \in CmdStates /\ Progress(c, cmd[c]) /\ LineHolds(c)
         /\ \A pc \in CmdPcs : /\ [cmd[c] EXCEPT !.pc = pc] \in CmdStates
                               /\ [cmd[c] EXCEPT !.pc = pc].at = cmd[c].at
                               /\ [cmd[c] EXCEPT !.pc = pc].pc = pc
                               /\ pc \notin {"new", "exited"} /\ cmd[c].pc # "exited"
                                     => Progress(c, [cmd[c] EXCEPT !.pc = pc])
<1>1. cmd[c] \in CmdStates /\ Progress(c, cmd[c]) /\ LineHolds(c)
  BY DEF ChannelInv, ChannelTypes
<1>2. ASSUME NEW pc \in CmdPcs
      PROVE  /\ [cmd[c] EXCEPT !.pc = pc] \in CmdStates
             /\ [cmd[c] EXCEPT !.pc = pc].at = cmd[c].at /\ [cmd[c] EXCEPT !.pc = pc].pc = pc
             /\ pc \notin {"new", "exited"} /\ cmd[c].pc # "exited"
                   => Progress(c, [cmd[c] EXCEPT !.pc = pc])
  <2>1. PICK r : r = [cmd[c] EXCEPT !.pc = pc]
    OBVIOUS
  <2>2. /\ r \in CmdStates /\ r.pc = pc /\ r.at = cmd[c].at /\ r.plan = cmd[c].plan
        /\ r.exit = cmd[c].exit
    BY <1>1, <2>1 DEF CmdStates
  <2>3. pc \notin {"new", "exited"} /\ cmd[c].pc # "exited" => Progress(c, r)
    BY <1>1, <2>2 DEF Progress
  <2> QED
    BY <2>1, <2>2, <2>3
<1> QED
  BY <1>1, <1>2

LEMMA StartKeeps ==
  ASSUME ChannelInv, NEW c \in XsCommands, NEW plan \in XsPlans, StartCommand(c, plan)
  PROVE  ChannelInv'
<1>1. PICK pc \in {"keys", "connect"} :
         cmd' = [cmd EXCEPT ![c].plan = plan, ![c].pc = pc]
  BY DEF StartCommand
<1>2. PICK s : s = [cmd[c] EXCEPT !.plan = plan, !.pc = pc]
  OBVIOUS
<1>3. /\ cmd[c] \in CmdStates /\ Progress(c, cmd[c]) /\ LineHolds(c) /\ cmd[c].pc = "new"
  BY CommandFacts DEF StartCommand, CmdAt
<1>4. /\ s \in CmdStates /\ s.plan = plan /\ s.pc = pc /\ s.at = 1 /\ s.exit = "none"
      /\ cmd[c].at = 1
  BY <1>2, <1>3 DEF CmdStates, CmdPcs, Progress
<1>5. Progress(c, s)
  BY <1>3, <1>4, PlanFacts, StepNumbers DEF Progress
<1>6. cmd' = [cmd EXCEPT ![c] = s]
  BY <1>1, <1>2 DEF ChannelInv, ChannelTypes
<1>7. UNCHANGED <<conn, task, answer, ran>>
  BY DEF StartCommand
<1>8. ChannelTypes'
  BY <1>4, <1>6, <1>7 DEF ChannelInv, ChannelTypes
<1> QED
  BY <1>3, <1>4, <1>5, <1>6, <1>7, <1>8, QuietStep DEF LineHolds, OnLine

LEMMA MintKeeps ==
  ASSUME ChannelInv, NEW c \in XsCommands, MintToken(c)
  PROVE  ChannelInv'
<1>1. /\ cmd[c] \in CmdStates /\ Progress(c, cmd[c]) /\ LineHolds(c) /\ cmd[c].pc = "keys"
      /\ UNCHANGED <<conn, task, answer, ran>>
  BY CommandFacts DEF MintToken, CmdAt
<1>2. PICK s : /\ s \in {[cmd[c] EXCEPT !.pc = "connect"], Exited(cmd[c], "error")}
               /\ cmd' = [cmd EXCEPT ![c] = s]
  BY DEF MintToken, CmdGoto
<1>3. /\ s \in CmdStates /\ Progress(c, s)
      /\ s.pc = "exited" \/ (s.pc = "connect" /\ s.at = cmd[c].at)
  <2>1. CASE s = [cmd[c] EXCEPT !.pc = "connect"]
    BY <1>1, <2>1, CommandFacts DEF CmdPcs
  <2>2. CASE s = Exited(cmd[c], "error")
    BY <1>1, <2>2, ExitedProgress DEF ChannelInv
  <2> QED
    BY <1>2, <2>1, <2>2
<1>4. ChannelTypes'
  BY <1>1, <1>2, <1>3 DEF ChannelInv, ChannelTypes
<1> QED
  BY <1>1, <1>2, <1>3, <1>4, QuietStep DEF LineHolds, OnLine

LEMMA ConnectKeeps ==
  ASSUME ChannelInv, NEW c \in XsCommands, Connect(c)
  PROVE  ChannelInv'
<1>1. /\ cmd[c] \in CmdStates /\ Progress(c, cmd[c]) /\ LineHolds(c) /\ cmd[c].pc = "connect"
      /\ UNCHANGED <<answer, ran>>
  BY CommandFacts DEF Connect, CmdAt
<1>2. CASE daemon = "up"
  <2>1. PICK pc \in {"await", "auth"} : cmd' = [cmd EXCEPT ![c] = [cmd[c] EXCEPT !.pc = pc]]
    BY <1>2 DEF Connect, CmdGoto
  <2>2. PICK s : s = [cmd[c] EXCEPT !.pc = pc]
    OBVIOUS
  <2>3. s \in CmdStates /\ Progress(c, s) /\ s.pc = pc /\ s.at = cmd[c].at
    BY <1>1, <2>2, CommandFacts DEF CmdPcs
  <2>4. /\ conn' = [conn EXCEPT ![c] = "open"] /\ task' = [task EXCEPT ![c] = "verify"]
    BY <1>2 DEF Connect
  <2>5. ChannelTypes' /\ OnLine(c)'
    BY <1>1, <2>1, <2>2, <2>3, <2>4 DEF ChannelInv, ChannelTypes, OnLine
  <2>6. \A d \in XsCommands \ {c} : conn'[d] = conn[d] /\ task'[d] = task[d]
    BY <2>4 DEF ChannelInv, ChannelTypes
  <2> QED
    BY <1>1, <2>1, <2>2, <2>3, <2>5, <2>6, QuietStep DEF LineHolds
<1>3. CASE daemon # "up"
  <2>1. PICK s : s = Exited(cmd[c], "error")
    OBVIOUS
  <2>2. cmd' = [cmd EXCEPT ![c] = s] /\ UNCHANGED <<conn, task>>
    BY <1>3, <2>1 DEF Connect
  <2>3. s \in CmdStates /\ Progress(c, s) /\ s.pc = "exited"
    BY <1>1, <2>1, ExitedProgress DEF ChannelInv
  <2>4. ChannelTypes'
    BY <1>1, <2>2, <2>3 DEF ChannelInv, ChannelTypes
  <2> QED
    BY <1>1, <2>2, <2>3, <2>4, QuietStep DEF LineHolds, OnLine
<1> QED
  BY <1>2, <1>3

LEMMA ProcessLineKeeps ==
  ASSUME ChannelInv, NEW c \in XsCommands, ProcessLine(c)
  PROVE  ChannelInv'
<1>1. /\ cmd[c] \in CmdStates /\ Progress(c, cmd[c]) /\ LineHolds(c) /\ ran' = ran
      /\ answer[c] \in {"authenticated", "unauthenticated", "ok", "error"}
      /\ cmd[c].pc \in {"auth", "await"} /\ task[c] = "idle" /\ OnLine(c)
  BY CommandFacts DEF ProcessLine, LineHolds, ChannelInv, ChannelTypes
<1>2. PICK s : s = Settled(c)
  OBVIOUS
<1>3. s \in CmdStates /\ Progress(c, s) /\ s.pc \in {"await", "keys", "exited"}
      /\ (s.pc # "exited" => ran[<<c, s.at>>] = 0)
  <2>1. CASE answer[c] = "authenticated"
    BY <1>1, <1>2, <2>1, CommandFacts DEF Settled, LineHolds, CmdPcs
  <2>2. CASE answer[c] = "unauthenticated"
    BY <1>1, <1>2, <2>2, ExitedProgress DEF Settled, ChannelInv
  <2>3. CASE answer[c] = "ok"
    BY <1>1, <1>2, <2>3, StepDoneProgress DEF Settled, ChannelInv, LineHolds
  <2>4. CASE answer[c] = "error"
    BY <1>1, <1>2, <2>4, StepFailedProgress DEF Settled, ChannelInv
  <2> QED
    BY <1>1, <2>1, <2>2, <2>3, <2>4
<1>4. cmd' = [cmd EXCEPT ![c] = s] /\ cmd'[c] = s /\ answer' = [answer EXCEPT ![c] = "none"]
  BY <1>2 DEF ProcessLine, ChannelInv, ChannelTypes
<1>5. answer'[c] = "none" /\ \A d \in XsCommands \ {c} : answer'[d] = answer[d]
  BY <1>4 DEF ChannelInv, ChannelTypes
<1>6. CASE s.pc = "await"
  <2>1. task' = [task EXCEPT ![c] = "line"] /\ conn' = conn
    BY <1>4, <1>6 DEF ProcessLine
  <2>2. ChannelTypes' /\ OnLine(c)' /\ \A d \in XsCommands \ {c} : task'[d] = task[d]
    BY <1>1, <1>3, <1>4, <2>1 DEF ChannelInv, ChannelTypes, OnLine
  <2> QED
    BY <1>1, <1>3, <1>4, <1>5, <1>6, <2>1, <2>2, QuietStep
<1>7. CASE s.pc # "await"
  <2>1. conn' = [conn EXCEPT ![c] = "none"] /\ task' = task
    BY <1>4, <1>7 DEF ProcessLine
  <2>2. ChannelTypes' /\ ~OnLine(c)' /\ \A d \in XsCommands \ {c} : conn'[d] = conn[d]
    BY <1>1, <1>3, <1>4, <2>1 DEF ChannelInv, ChannelTypes, OnLine
  <2> QED
    BY <1>1, <1>3, <1>4, <1>5, <1>7, <2>1, <2>2, QuietStep
<1> QED
  BY <1>6, <1>7

\* The server's steps on a line before its handler has run.
LEMMA LineKeeps ==
  ASSUME ChannelInv, NEW c \in XsCommands, VerifyToken(c) \/ ReadBody(c) \/ DispatchLine(c)
  PROVE  ChannelInv'
<1>1. /\ cmd[c] \in CmdStates /\ Progress(c, cmd[c]) /\ LineHolds(c)
      /\ UNCHANGED <<cmd, ran>> /\ cmd = [cmd EXCEPT ![c] = cmd[c]]
      /\ answer[c] = "none" /\ OnLine(c)
  BY CommandFacts DEF VerifyToken, ReadBody, DispatchLine, LineHolds, ChannelInv, ChannelTypes
<1>2. /\ ChannelTypes' /\ OnLine(c)' /\ answer'[c] # "ok"
      /\ task'[c] # "idle" => answer'[c] = "none"
      /\ \A d \in XsCommands \ {c} : /\ conn'[d] = conn[d] /\ task'[d] = task[d]
                                     /\ answer'[d] = answer[d]
  <2>1. CASE VerifyToken(c)
    <3>1. CASE How(c) = "http"
      <4>1. CASE task' = [task EXCEPT ![c] = "body"] /\ UNCHANGED answer
        <5>1. conn' = [conn EXCEPT ![c] = "authenticated"]
          BY <2>1, <3>1, <4>1 DEF VerifyToken, ChannelInv, ChannelTypes
        <5> QED
          BY <1>1, <4>1, <5>1 DEF ChannelInv, ChannelTypes, OnLine
      <4>2. CASE WriteLine(c, "error")
        <5>1. conn' = [conn EXCEPT ![c] = conn[c]]
          BY <2>1, <3>1, <4>2 DEF VerifyToken, WriteLine, ChannelInv, ChannelTypes
        <5> QED
          BY <1>1, <4>2, <5>1 DEF WriteLine, ChannelInv, ChannelTypes, OnLine
      <4> QED
        BY <2>1, <3>1, <4>1, <4>2 DEF VerifyToken
    <3>2. CASE How(c) # "http"
      BY <1>1, <2>1, <3>2 DEF VerifyToken, WriteLine, ChannelInv, ChannelTypes, OnLine
    <3> QED
      BY <3>1, <3>2
  <2>2. CASE ReadBody(c)
    BY <1>1, <2>2 DEF ReadBody, WriteLine, ChannelInv, ChannelTypes, OnLine
  <2>3. CASE DispatchLine(c)
    BY <1>1, <2>3 DEF DispatchLine, WriteLine, ChannelInv, ChannelTypes, OnLine
  <2> QED
    BY <2>1, <2>2, <2>3
<1> QED
  BY <1>1, <1>2, QuietStep DEF LineHolds

LEMMA HandlerKeeps ==
  ASSUME ChannelInv, NEW c \in XsCommands, RunHandler(c)
  PROVE  ChannelInv'
<1>1. /\ cmd[c] \in CmdStates /\ Progress(c, cmd[c]) /\ LineHolds(c)
      /\ UNCHANGED <<cmd, conn>> /\ cmd = [cmd EXCEPT ![c] = cmd[c]]
      /\ answer[c] = "none" /\ OnLine(c) /\ cmd[c].pc \in {"auth", "await"}
      /\ ran[<<c, cmd[c].at>>] = 0 /\ cmd[c].at \in 1 .. MaxSteps
  BY CommandFacts DEF RunHandler, LineHolds, ChannelInv, ChannelTypes, CmdStates
<1>2. CASE WriteLine(c, "error") /\ UNCHANGED <<ran, daemon>>
  <2>1. /\ ChannelTypes' /\ OnLine(c)' /\ answer'[c] = "error" /\ task'[c] = "idle"
        /\ \A d \in XsCommands \ {c} : /\ conn'[d] = conn[d] /\ task'[d] = task[d]
                                       /\ answer'[d] = answer[d]
    BY <1>1, <1>2 DEF WriteLine, ChannelInv, ChannelTypes, OnLine
  <2> QED
    BY <1>1, <1>2, <2>1, QuietStep DEF LineHolds
<1>3. CASE WriteLine(c, "ok") /\ ran' = [ran EXCEPT ![<<c, cmd[c].at>>] = @ + 1]
  <2>1. PICK k : k = cmd[c].at
    OBVIOUS
  <2>2. /\ ran' = [ran EXCEPT ![<<c, k>>] = 1]
        /\ ran'[<<c, k>>] = 1
        /\ \A i \in 1 .. MaxSteps : i # k => ran'[<<c, i>>] = ran[<<c, i>>]
        /\ \A d \in XsCommands \ {c} : \A i \in 1 .. MaxSteps : ran'[<<d, i>>] = ran[<<d, i>>]
    BY <1>1, <1>3, <2>1 DEF ChannelInv, ChannelTypes
  <2>3. /\ ChannelTypes' /\ OnLine(c)' /\ answer'[c] = "ok" /\ task'[c] = "idle"
        /\ \A d \in XsCommands \ {c} : /\ conn'[d] = conn[d] /\ task'[d] = task[d]
                                       /\ answer'[d] = answer[d]
    BY <1>1, <1>3, <2>2 DEF WriteLine, ChannelInv, ChannelTypes, OnLine
  <2>4. Progress(c, cmd[c])'
    <3>1. /\ cmd'[c] = cmd[c] /\ cmd[c].exit # "ok" /\ k \in 1 .. MaxSteps /\ ~(k < k)
          /\ ~(k > k)
      BY <1>1, <2>1, StepNumbers DEF Progress, CmdStates
    <3> QED
      BY <1>1, <2>1, <2>2, <3>1 DEF Progress
  <2>5. LineHolds(c)'
    BY <1>1, <2>1, <2>2, <2>3 DEF LineHolds
  <2> QED
    BY <1>1, <2>2, <2>3, <2>4, <2>5, OneCommand
<1> QED
  BY <1>2, <1>3 DEF RunHandler

LEMMA RejectedProgress ==
  ASSUME ChannelInv, NEW c \in XsCommands, OnLine(c)
  PROVE  /\ Rejected(c) \in CmdStates /\ Progress(c, Rejected(c))
         /\ Rejected(c).pc \in {"hung", "keys", "exited"}
         /\ Rejected(c).pc # "exited" => ran[<<c, Rejected(c).at>>] = 0
<1>1. /\ cmd[c] \in CmdStates /\ Progress(c, cmd[c]) /\ cmd[c].pc \in {"auth", "await"}
      /\ ChannelTypes
  BY DEF ChannelInv, ChannelTypes, LineHolds
<1>2. PICK next : next = IF cmd[c].pc = "await" THEN StepFailed(cmd[c])
                         ELSE Exited(cmd[c], "error")
  OBVIOUS
<1>3. /\ next \in CmdStates /\ Progress(c, next) /\ next.pc \in {"await", "keys", "exited"}
      /\ next.pc # "exited" => ran[<<c, next.at>>] = 0
  <2>1. CASE cmd[c].pc = "await"
    BY <1>1, <1>2, <2>1, StepFailedProgress
  <2>2. CASE cmd[c].pc # "await"
    BY <1>1, <1>2, <2>2, ExitedProgress
  <2> QED
    BY <2>1, <2>2
<1>4. Rejected(c) = IF next.pc = "await" THEN [next EXCEPT !.pc = "hung"] ELSE next
  BY <1>2 DEF Rejected
<1>5. CASE next.pc = "await"
  <2>1. PICK r : r = [next EXCEPT !.pc = "hung"]
    OBVIOUS
  <2>2. /\ r \in CmdStates /\ r.pc = "hung" /\ r.at = next.at /\ r.plan = next.plan
        /\ r.exit = next.exit
    BY <1>3, <2>1 DEF CmdStates, CmdPcs
  <2>3. Progress(c, r)
    BY <1>3, <1>5, <2>2 DEF Progress
  <2> QED
    BY <1>3, <1>4, <1>5, <2>1, <2>2, <2>3
<1> QED
  BY <1>3, <1>4, <1>5

LEMMA DaemonEndsKeeps ==
  ASSUME ChannelInv, DaemonEnds
  PROVE  ChannelInv'
<1>1. /\ cmd' = [c \in XsCommands |-> IF OnLine(c) THEN Rejected(c) ELSE cmd[c]]
      /\ conn' = [c \in XsCommands |-> IF OnLine(c) THEN "lost" ELSE conn[c]]
      /\ task' = [c \in XsCommands |-> "idle"] /\ answer' = [c \in XsCommands |-> "none"]
      /\ ran' = ran
  BY DEF DaemonEnds
<1>2. ASSUME NEW c \in XsCommands
      PROVE  /\ cmd'[c] \in CmdStates /\ Progress(c, cmd'[c])
             /\ cmd'[c].pc \notin {"auth", "await"} /\ ~OnLine(c)'
             /\ conn'[c] \in {"none", "open", "authenticated", "lost"}
             /\ cmd'[c].pc # "exited" => ran[<<c, cmd'[c].at>>] = 0
  <2>1. CASE OnLine(c)
    BY <1>1, <2>1, RejectedProgress DEF OnLine
  <2>2. CASE ~OnLine(c)
    BY <1>1, <2>2, CommandFacts DEF OnLine, LineHolds, ChannelInv, ChannelTypes
  <2> QED
    BY <2>1, <2>2
<1>3. ChannelTypes'
  BY <1>1, <1>2 DEF ChannelInv, ChannelTypes
<1>4. ASSUME NEW c \in XsCommands PROVE Progress(c, cmd[c])' /\ LineHolds(c)'
  BY <1>1, <1>2 DEF Progress, LineHolds
<1> QED
  BY <1>3, <1>4 DEF ChannelInv

LEMMA StepChannel == ChannelInv /\ [ChannelNext]_channelVars => ChannelInv'
<1> SUFFICES ASSUME ChannelInv, [ChannelNext]_channelVars PROVE ChannelInv'
  OBVIOUS
<1>1. CASE UNCHANGED channelVars \/ DaemonStarts
  <2>1. UNCHANGED <<cmd, conn, task, answer, ran>>
    BY <1>1 DEF channelVars, DaemonStarts
  <2> QED
    BY <2>1 DEF ChannelInv, ChannelTypes, Progress, LineHolds, OnLine
<1>2. CASE DaemonEnds
  BY <1>2, DaemonEndsKeeps
<1>3. CASE \E c \in XsCommands, plan \in XsPlans : StartCommand(c, plan)
  BY <1>3, StartKeeps
<1>4. CASE \E c \in XsCommands : CommandStep(c)
  BY <1>4, MintKeeps, ConnectKeeps, ProcessLineKeeps, LineKeeps, HandlerKeeps DEF CommandStep
<1> QED
  BY <1>1, <1>2, <1>3, <1>4 DEF ChannelNext

\* For every number of commands and stops of the daemon: an exit status of
\* success means that every step whose failure counts has run, no step runs
\* twice, and none before an earlier one its plan requires
\* (withDaemonClient, the admin client's processLine and close callback).
THEOREM CommandsTellTheTruth == ChannelSpec => []CommandsTruthful
<1>1. ChannelInv => CommandsTruthful
  <2> SUFFICES ASSUME ChannelInv, NEW c \in XsCommands
               PROVE  LET required == {i \in 1 .. Len(cmd[c].plan) : cmd[c].plan[i].required}
                      IN  /\ cmd[c].exit = "ok" => \A i \in required : ran[<<c, i>>] = 1
                          /\ \A i \in 1 .. MaxSteps :
                                /\ ran[<<c, i>>] <= 1
                                /\ ran[<<c, i>>] = 1 =>
                                      \A j \in required : j < i => ran[<<c, j>>] = 1
    BY DEF CommandsTruthful
  <2> DEFINE required == {i \in 1 .. Len(cmd[c].plan) : cmd[c].plan[i].required}
  <2>1. cmd[c] \in CmdStates /\ Progress(c, cmd[c])
    BY CommandFacts
  <2>2. /\ cmd[c].at \in 1 .. 3 /\ Len(cmd[c].plan) \in 1 .. 3 /\ cmd[c].at <= Len(cmd[c].plan)
    BY <2>1, PlanFacts DEF CmdStates, Progress, MaxSteps
  <2>3. ASSUME NEW i \in required PROVE i \in 1 .. 3 /\ cmd[c].plan[i].required
    BY <2>2
  <2>4. \A i \in 1 .. 3 : /\ ran[<<c, i>>] \in {0, 1}
                          /\ i > cmd[c].at => ran[<<c, i>>] = 0
                          /\ i < cmd[c].at /\ cmd[c].plan[i].required => ran[<<c, i>>] = 1
    BY <2>1 DEF Progress, MaxSteps
  <2>5. ASSUME NEW i \in 1 .. 3, NEW j \in required, ran[<<c, i>>] = 1, j < i
        PROVE  ran[<<c, j>>] = 1
    <3>1. j \in 1 .. 3 /\ cmd[c].plan[j].required
      BY <2>3
    <3>2. ~(i > cmd[c].at)
      BY <2>4, <2>5
    <3>3. j < cmd[c].at
      BY <2>2, <2>5, <3>1, <3>2
    <3> QED
      BY <2>4, <3>1, <3>3
  <2>6. ASSUME cmd[c].exit = "ok", NEW i \in required PROVE ran[<<c, i>>] = 1
    <3>1. i \in 1 .. Len(cmd[c].plan) /\ i \in 1 .. 3 /\ cmd[c].plan[i].required
      BY <2>3
    <3>2. /\ cmd[c].at = Len(cmd[c].plan)
          /\ cmd[c].plan[cmd[c].at].required => ran[<<c, cmd[c].at>>] = 1
      BY <2>1, <2>6 DEF Progress
    <3>3. i < cmd[c].at \/ i = cmd[c].at
      BY <2>2, <3>1, <3>2
    <3> QED
      BY <2>4, <3>1, <3>2, <3>3
  <2> QED
    BY <2>4, <2>5, <2>6 DEF MaxSteps
<1> QED
  BY <1>1, InitChannel, StepChannel, PTL DEF ChannelSpec
=============================================================================
