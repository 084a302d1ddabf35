---------------------------- MODULE ReadElevation ----------------------------
(***************************************************************************)
(* Owner-approved admin reads of one chat: the elevation manager           *)
(* (packages/cli/src/admin/read-elevation.ts), the disclosure store and    *)
(* the rollback tracker beside it, and the seal of the chat, whose input   *)
(* (seal-input-resolver.ts) is what makes a disclosure public.             *)
(*                                                                         *)
(* A process is an admin request (resolveForRequest, then the handler of   *)
(* message.list and its like) or the callback of the expiration timer of a *)
(* session.  Every step runs from one await to the next; awaits are the    *)
(* audit log, the prompt, the key manager and the refresh of the seals.    *)
(***************************************************************************)
EXTENDS Integers, FiniteSets, FiniteSetsExt

CONSTANTS
    ReadRequests,   \* requests that ask for a dangerous read of the chat
    AdminSessions,  \* authenticated admin sessions
    TtlMs,          \* ttlMs, in ticks of the clock
    MaxClock        \* bound on the clock

ASSUME ReadElevationBounds ==
    /\ ReadRequests \intersect AdminSessions = {}
    /\ IsFiniteSet(ReadRequests) /\ IsFiniteSet(AdminSessions)
    /\ TtlMs \in Nat \ {0} /\ MaxClock \in Nat

Processes == ReadRequests \union AdminSessions

VARIABLES
    clock,
    cache,      \* [AdminSessions -> the cached elevation]
    timers,     \* [AdminSessions -> the elevation its timer will expire]
    entries,    \* [AdminSessions -> expiresAt in the disclosure store, 0 for none]
    rollbacks,  \* the rollback tracker's count
    procs,      \* [Processes -> the call under way]
    shown,      \* adminAccess of the chat's current seal: expiresAt, 0 or NoSeal
    overlapped  \* history: sessions that had two calls under way at once

elevationVars == <<clock, cache, timers, entries, rollbacks, procs, shown, overlapped>>

NoElevation == [sess |-> "none", exp |-> 0]
Idle(s)     == [at |-> "idle", sess |-> s, elev |-> NoElevation, changed |-> FALSE,
                time |-> 0]
NoSession   == "none"
NoSeal      == -1

ElevationInit ==
    /\ clock = 1 /\ rollbacks = 0 /\ shown = NoSeal /\ overlapped = {}
    /\ cache = [s \in AdminSessions |-> NoElevation]
    /\ timers = [s \in AdminSessions |-> NoElevation]
    /\ entries = [s \in AdminSessions |-> 0]
    /\ procs = [p \in Processes |-> Idle(NoSession)]

-----------------------------------------------------------------------------
(* The disclosure store.                                                    *)

\* What aggregateForChat leaves: it drops the entries that have expired.
Live(ent)      == [s \in AdminSessions |-> IF ent[s] > clock THEN ent[s] ELSE 0]
Latest(ent)    == Max({0} \union {ent[s] : s \in AdminSessions})
Aggregate(ent) == Latest(Live(ent))

\* Mutant of StoreDelete: the entries of the chat are dropped together.
StoreDeleteChat(ent, s) == [t \in AdminSessions |-> 0]

\* mutate: the state of the chat is aggregated before and after.
StoreSet(ent, s, exp) == [Live(ent) EXCEPT ![s] = exp]
StoreDelete(ent, s)   == [Live(ent) EXCEPT ![s] = 0]

\* restore aggregates nothing.
StoreRestore(ent, s, exp) == [ent EXCEPT ![s] = exp]

Changes(ent, after) == Aggregate(ent) # Aggregate(after)

-----------------------------------------------------------------------------
(* Calls.                                                                   *)

At(p, where) == procs[p].at = where
Move(p, r)   == procs' = [procs EXCEPT ![p] = r]
Go(p, where) == Move(p, [procs[p] EXCEPT !.at = where])
End(p)       == Move(p, IF p \in ReadRequests THEN [Idle(NoSession) EXCEPT !.at = "done"]
                        ELSE Idle(NoSession))

Busy(s)  == \E p \in Processes : procs[p].at \notin {"idle", "done"} /\ procs[p].sess = s
Begin(s) == overlapped' = IF Busy(s) THEN overlapped \union {s} ELSE overlapped

\* syncDisclosureExpiry up to its await: for an elevation that is over, or
\* whose approval could not be put on the audit log.
Withdraw(p, r, where) ==
    LET after == StoreDelete(entries, r.elev.sess)
    IN /\ entries' = after
       /\ Move(p, [r EXCEPT !.at = where, !.changed = Changes(entries, after)])

\* expireCachedElevation up to its first await.
Expire(p, s, e) ==
    /\ cache' = [cache EXCEPT ![s] = NoElevation]
    /\ timers' = [timers EXCEPT ![s] = NoElevation]
    /\ Withdraw(p, [Idle(s) EXCEPT !.elev = e], "expireNotify")

\* Mutant of CachedFor: the cache key leaves the session out.
CachedForAny(s) ==
    IF \E t \in AdminSessions : cache[t] # NoElevation
    THEN cache[CHOOSE t \in AdminSessions : cache[t] # NoElevation] ELSE NoElevation

\* buildCacheKey: one elevation for a session and a chat.
CachedFor(s) == cache[s]

\* resolveForRequest: a cached elevation is reused, expired or missing.
Resolve(p, s) ==
    LET e == CachedFor(s)
    IN /\ p \in ReadRequests /\ At(p, "idle") /\ Begin(s)
       /\ \/ /\ e # NoElevation /\ e.exp > clock
             /\ Move(p, [Idle(s) EXCEPT !.at = "reuse", !.elev = e])
             /\ UNCHANGED <<cache, timers, entries>>
          \/ e # NoElevation /\ e.exp <= clock /\ Expire(p, s, e)
          \/ /\ e = NoElevation
             /\ Move(p, [Idle(s) EXCEPT !.at = "prompt"])
             /\ UNCHANGED <<cache, timers, entries>>
    /\ UNCHANGED <<clock, rollbacks, shown>>

\* The timer of scheduleExpiration.
TimerFires(s) ==
    /\ timers[s] # NoElevation /\ timers[s].exp <= clock /\ At(s, "idle")
    /\ Begin(s) /\ Expire(s, s, timers[s])
    /\ UNCHANGED <<clock, rollbacks, shown>>

\* The reuse is on the audit log, or could not be put there.
Reused(p) ==
    /\ At(p, "reuse") /\ (Go(p, "read") \/ End(p))
    /\ UNCHANGED <<clock, cache, timers, entries, rollbacks, shown, overlapped>>

\* The refresh of the seals after an expiry: a failure puts the entry back and
\* refreshes again, expired entries included.
ExpiryNotified(p) ==
    /\ At(p, "expireNotify")
    /\ \/ Go(p, "expireAudit") /\ UNCHANGED <<entries, rollbacks>>
       \/ /\ procs[p].changed
          /\ entries' = StoreRestore(entries, procs[p].elev.sess, procs[p].elev.exp)
          /\ rollbacks' = rollbacks + 1 /\ Go(p, "expireRestore")
    /\ UNCHANGED <<clock, cache, timers, shown, overlapped>>

\* The second refresh is over, well or not; a request fails, a timer ends.
ExpiryRestored(p) ==
    /\ At(p, "expireRestore") /\ rollbacks' = rollbacks - 1 /\ End(p)
    /\ UNCHANGED <<clock, cache, timers, entries, shown, overlapped>>

\* The expiry is on the audit log: the request goes on to the prompt.
ExpiryAudited(p) ==
    /\ At(p, "expireAudit")
    /\ \/ p \in ReadRequests /\ Move(p, [Idle(procs[p].sess) EXCEPT !.at = "prompt"])
       \/ End(p)
    /\ UNCHANGED <<clock, cache, timers, entries, rollbacks, shown, overlapped>>

\* authorize: the owner approves, or does not.
Prompted(p) ==
    /\ At(p, "prompt") /\ (Go(p, "fingerprint") \/ End(p))
    /\ UNCHANGED <<clock, cache, timers, entries, rollbacks, shown, overlapped>>

\* getApprovalFingerprint, then the elevation and its disclosure.
Minted(p) ==
    LET e == [sess |-> procs[p].sess, exp |-> clock + TtlMs]
        after == StoreSet(entries, e.sess, e.exp)
    IN /\ At(p, "fingerprint")
       /\ \/ /\ e.exp <= MaxClock
             /\ entries' = after
             /\ Move(p, [procs[p] EXCEPT !.at = "approveNotify", !.elev = e,
                                         !.changed = Changes(entries, after)])
          \/ End(p) /\ UNCHANGED entries
       /\ UNCHANGED <<clock, cache, timers, rollbacks, shown, overlapped>>

\* The refresh of the seals after an approval: a failure takes the entry out.
ApprovalNotified(p) ==
    /\ At(p, "approveNotify")
    /\ \/ Go(p, "approveAudit") /\ UNCHANGED entries
       \/ procs[p].changed /\ Withdraw(p, procs[p], "approveUndo")
    /\ UNCHANGED <<clock, cache, timers, rollbacks, shown, overlapped>>

\* The refresh after that is over, well or not.
ApprovalUndone(p) ==
    /\ At(p, "approveUndo") /\ End(p)
    /\ UNCHANGED <<clock, cache, timers, entries, rollbacks, shown, overlapped>>

\* Mutant of Schedule: the timer of the elevation it replaces is cleared and
\* none is set.
ScheduleNone(e) == timers' = [timers EXCEPT ![e.sess] = NoElevation]

\* scheduleExpiration: the session's timer is set anew.
Schedule(e) == timers' = [timers EXCEPT ![e.sess] = e]

\* The approval is on the audit log: the elevation is cached.  Without the
\* entry in the log its disclosure is withdrawn.
ApprovalAudited(p) ==
    LET e == procs[p].elev
    IN /\ At(p, "approveAudit")
       /\ \/ /\ cache' = [cache EXCEPT ![e.sess] = e] /\ Schedule(e)
             /\ Go(p, "read") /\ UNCHANGED entries
          \/ Withdraw(p, procs[p], "rollbackNotify") /\ UNCHANGED <<cache, timers>>
       /\ UNCHANGED <<clock, rollbacks, shown, overlapped>>

\* The refresh of the seals after that; a failure puts the entry back.
RollbackNotified(p) ==
    /\ At(p, "rollbackNotify")
    /\ \/ End(p) /\ UNCHANGED <<entries, rollbacks>>
       \/ /\ procs[p].changed
          /\ entries' = StoreRestore(entries, procs[p].elev.sess, procs[p].elev.exp)
          /\ rollbacks' = rollbacks + 1 /\ Go(p, "expireRestore")
    /\ UNCHANGED <<clock, cache, timers, shown, overlapped>>

\* authorizeAdminReadElevation in the handlers of message.list, message.info
\* and search.messages.
Authorized(e) == e.exp > clock

\* The handler runs with the elevation: it refuses, or reads the chat.
Read(p) ==
    /\ At(p, "read")
    /\ \/ ~Authorized(procs[p].elev) /\ End(p)
       \/ /\ Authorized(procs[p].elev)
          /\ Move(p, [procs[p] EXCEPT !.at = "served", !.time = clock])
    /\ UNCHANGED <<clock, cache, timers, entries, rollbacks, shown, overlapped>>

Respond(p) ==
    /\ At(p, "served") /\ End(p)
    /\ UNCHANGED <<clock, cache, timers, entries, rollbacks, shown, overlapped>>

\* seal.issue for the chat: the input is resolved against the store, with the
\* expired entries while a rollback is under way.  A refresh builds the seal
\* from the input it was issued with.
IssueSeal ==
    /\ entries' = IF rollbacks > 0 THEN entries ELSE Live(entries)
    /\ shown' = Latest(entries')
    /\ UNCHANGED <<clock, cache, timers, rollbacks, procs, overlapped>>

Tick ==
    /\ clock < MaxClock /\ clock' = clock + 1
    /\ UNCHANGED <<cache, timers, entries, rollbacks, procs, shown, overlapped>>

-----------------------------------------------------------------------------

Settle(p) ==
    \/ Reused(p) \/ ExpiryNotified(p) \/ ExpiryRestored(p) \/ ExpiryAudited(p)
    \/ Prompted(p) \/ Minted(p) \/ ApprovalNotified(p) \/ ApprovalUndone(p)
    \/ ApprovalAudited(p) \/ RollbackNotified(p) \/ Read(p)
    \/ Respond(p)

ElevationNext ==
    \/ Tick \/ IssueSeal
    \/ \E p \in Processes : Settle(p)
    \/ \E s \in AdminSessions : TimerFires(s) \/ \E p \in ReadRequests : Resolve(p, s)

\* The clock moves on, timers fire, and the log, the prompt and the publisher
\* answer.
ElevationFairness ==
    /\ WF_elevationVars(Tick)
    /\ \A p \in Processes : WF_elevationVars(Settle(p))
    /\ \A s \in AdminSessions : WF_elevationVars(TimerFires(s))

ElevationSpec == ElevationInit /\ [][ElevationNext]_elevationVars /\ ElevationFairness

-----------------------------------------------------------------------------
(* Properties.                                                              *)

\* A read goes through only under an elevation that the owner approved in the
\* same admin session and whose window is still open when the handler runs,
\* however requests, timers and prompts interleave (resolveForRequest against
\* authorizeAdminReadElevation).
ReadsApproved ==
    \A p \in Processes : At(p, "served") =>
        LET r == procs[p]
        IN r.elev.sess = r.sess /\ r.time \in (r.elev.exp - TtlMs) .. (r.elev.exp - 1)

\* As long as the calls of a session do not overlap, an elevation that can be
\* reused has its entry in the disclosure store, whatever the other sessions
\* do and whichever audit entry or refresh fails; the timer of a cached
\* elevation is always the one that expires it; the rollback window is open
\* exactly while a rollback refreshes.
StoreDiscloses ==
    /\ \A s \in AdminSessions \ overlapped :
          cache[s].exp > clock => entries[s] = cache[s].exp
    /\ \A s \in AdminSessions : cache[s] # NoElevation => timers[s] = cache[s]
    /\ rollbacks = Cardinality({p \in Processes : At(p, "expireRestore")})

\* The seal of the chat discloses a read access as long as an approved session
\* has it (read-disclosure-store.ts).
SealDiscloses ==
    \A s \in AdminSessions :
        cache[s].exp > clock /\ shown # NoSeal => shown >= cache[s].exp

\* No elevation stays in the cache and no call stays suspended: there comes a
\* moment when every window is closed and every request,
\* timer and rollback has finished (scheduleExpiration, expireCachedElevation).
ElevationOver ==
    /\ \A s \in AdminSessions : cache[s] = NoElevation
    /\ \A p \in Processes : procs[p].at \in {"idle", "done"}

ElevationEnds == ~ElevationOver ~> ElevationOver
=============================================================================
