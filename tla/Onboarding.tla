----------------------------- MODULE Onboarding -----------------------------
(***************************************************************************)
(* Joining a Convos group by invite, both sides of it:                     *)
(*   - the joiner (packages/core/src/schemes/convos/join.ts with           *)
(*     identity-registration.ts), which makes an identity, sends its       *)
(*     request twice in a DM (structured and as text) and polls until the  *)
(*     group shows up;                                                     *)
(*   - the host (packages/cli/src/invite-host-listener.ts and              *)
(*     invite-host-effects.ts over process-join-requests.ts), which sees   *)
(*     the two messages on its live stream, in a scan of the DM, or both,  *)
(*     tries its identities one after the other and adds the sender.       *)
(*                                                                         *)
(* A joiner is one join attempt: its inbox is new, so the host's request   *)
(* key (sender and slug) is the joiner.  There is one group.  Every step   *)
(* runs from one await that really waits to the next.                      *)
(***************************************************************************)
EXTENDS Naturals, FiniteSets

CONSTANTS
    Joiners,        \* join attempts
    Hosts,          \* 1 .. n: the host's identities in the order they are tried
    Creator,        \* the host identity that signs the invites
    MaxTags,        \* invites the host generates
    MaxPolls,       \* maxPollAttempts
    MaxRetries,     \* MAX_DM_RECOVERY_RETRIES
    MaxRestarts     \* restarts of the host's daemon

ASSUME OnboardingBounds ==
    /\ Hosts = 1 .. Cardinality(Hosts) /\ Creator \in Hosts
    /\ MaxTags \in Nat \ {0} /\ MaxPolls \in Nat \ {0}
    /\ MaxRetries \in Nat /\ MaxRestarts \in Nat

Kinds    == {"structured", "text"}
Messages == Joiners \X Kinds
Sender(m) == m[1]

VARIABLES
    \* the joiners
    phase,      \* where the join attempt is
    row,        \* its row in the joiner's identity store
    invite,     \* the tag of the invite it uses, 0 before it starts
    polls,      \* polls made
    sent,       \* messages that are in its DM with the creator
    \* the network
    members,    \* joiners in the group
    \* the host's daemon
    tag,        \* inviteTagStore: the tag of the last invite, 0 for none
    tags,       \* invites generated so far
    unseen,     \* messages the host's live stream has still to deliver
    processed,  \* processedMessageIds
    keys,       \* processedInviteKeys
    inflight,   \* inflightMessageIds
    busy,       \* inflightInviteKeys
    tasks,      \* [Messages -> the processInviteCandidate under way]
    scans,      \* [Joiners -> the recovery of that joiner's DM]
    restarts,
    \* history
    accepts,    \* [Messages -> how often the message was accepted]
    expired,    \* joiners whose processed key timed out
    stale       \* joiners whose invite had been superseded before they started

joinerVars == <<phase, row, invite, polls, sent>>
hostVars   == <<tag, tags, unseen, processed, keys, inflight, busy, tasks,
                scans, restarts>>
histVars   == <<accepts, expired, stale>>
onboardingVars == <<joinerVars, members, hostVars, histVars>>

NoTask == [at |-> "none", host |-> 0, retry |-> FALSE]
NoScan == [at |-> "none", count |-> 0, retry |-> FALSE, msg |-> "none"]

OnboardingInit ==
    /\ phase = [j \in Joiners |-> "idle"] /\ row = [j \in Joiners |-> "none"]
    /\ invite = [j \in Joiners |-> 0] /\ polls = [j \in Joiners |-> 0]
    /\ sent = {} /\ members = {}
    /\ tag = 0 /\ tags = 0 /\ unseen = {}
    /\ processed = {} /\ keys = {} /\ inflight = {} /\ busy = {}
    /\ tasks = [m \in Messages |-> NoTask] /\ scans = [j \in Joiners |-> NoScan]
    /\ restarts = 0
    /\ accepts = [m \in Messages |-> 0] /\ expired = {} /\ stale = {}

-----------------------------------------------------------------------------
(* The joiner.                                                              *)

Goto(j, where) == phase' = [phase EXCEPT ![j] = where]

\* Mutant of GiveUp: the identity of the failed attempt stays in the store.
GiveUpKeepsRow(j) == Goto(j, "failed") /\ row' = row

\* Every error return after the row exists: identityStore.remove, then the error.
GiveUp(j) == Goto(j, "failed") /\ row' = [row EXCEPT ![j] = "removed"]

\* The invite is parsed, verified and not expired; registerIdentity makes the
\* row.  t is the tag of the invite the joiner was given.
Join(j, t) ==
    /\ phase[j] = "idle" /\ t \in 1 .. tags
    /\ Goto(j, "register") /\ row' = [row EXCEPT ![j] = "new"]
    /\ invite' = [invite EXCEPT ![j] = t]
    /\ stale' = IF tag # 0 /\ tag # t THEN stale \union {j} ELSE stale
    /\ UNCHANGED <<polls, sent, members, hostVars, accepts, expired>>

\* registerIdentity: keys, client and inbox id.
Registered(j) ==
    /\ phase[j] = "register"
    /\ \/ Goto(j, "connect") /\ row' = [row EXCEPT ![j] = "ready"]
       \/ GiveUp(j)
    /\ UNCHANGED <<invite, polls, sent, members, hostVars, histVars>>

\* The client is made again and the DM with the creator is opened.
Connected(j) ==
    /\ phase[j] = "connect"
    /\ \/ Goto(j, "structured") /\ UNCHANGED row
       \/ GiveUp(j)
    /\ UNCHANGED <<invite, polls, sent, members, hostVars, histVars>>

Deliver(m) == sent' = sent \union {m} /\ unseen' = unseen \union {m}

\* The structured request; a send that reports an error may have been delivered.
SendStructured(j) ==
    /\ phase[j] = "structured"
    /\ \/ Goto(j, "text") /\ Deliver(<<j, "structured">>) /\ UNCHANGED row
       \/ GiveUp(j) /\ Deliver(<<j, "structured">>)
       \/ GiveUp(j) /\ UNCHANGED <<sent, unseen>>
    /\ UNCHANGED <<invite, polls, members, tag, tags, processed, keys,
                   inflight, busy, tasks, scans, restarts, histVars>>

\* The plain text; a failure is ignored.
SendText(j) ==
    /\ phase[j] = "text" /\ Goto(j, "poll")
    /\ Deliver(<<j, "text">>) \/ UNCHANGED <<sent, unseen>>
    /\ UNCHANGED <<row, invite, polls, members, tag, tags, processed, keys,
                   inflight, busy, tasks, scans, restarts, histVars>>

\* Mutant of Poll: the loop has no last attempt.
PollForever(j) ==
    /\ phase[j] = "poll"
    /\ \/ j \in members /\ Goto(j, "joined") /\ UNCHANGED <<row, polls>>
       \/ j \notin members /\ UNCHANGED <<phase, row, polls>>
    /\ UNCHANGED <<invite, sent, members, hostVars, histVars>>

\* One round: sync, the groups, then the answers in the DM.  A failing call or
\* an invite error among the answers (sent by other implementations of the
\* host) ends the attempt, the last round that finds nothing times out.
Poll(j) ==
    /\ phase[j] = "poll"
    /\ \/ GiveUp(j) /\ UNCHANGED polls
       \/ j \in members /\ Goto(j, "joined") /\ UNCHANGED <<row, polls>>
       \/ /\ j \notin members
          /\ polls' = [polls EXCEPT ![j] = @ + 1]
          /\ IF polls[j] + 1 < MaxPolls THEN UNCHANGED <<phase, row>> ELSE GiveUp(j)
    /\ UNCHANGED <<invite, sent, members, hostVars, histVars>>

-----------------------------------------------------------------------------
(* The host.                                                                *)

\* chat.invite: a new tag replaces the one stored for the group.
Invite ==
    /\ tags < MaxTags /\ tags' = tags + 1 /\ tag' = tags + 1
    /\ UNCHANGED <<joinerVars, members, unseen, processed, keys, inflight,
                   busy, tasks, scans, restarts, histVars>>

\* Mutant of Seen: a request that is being processed under its other message
\* is taken up again.
SeenById(m) == m \in processed \/ Sender(m) \in keys \/ m \in inflight

\* processInviteCandidate: reported as accepted without further work.
Seen(m) == m \in processed \/ Sender(m) \in keys \/ m \in inflight \/ Sender(m) \in busy

\* processInviteCandidate up to the first await.
Take(m) ==
    /\ inflight' = inflight \union {m} /\ busy' = busy \union {Sender(m)}
    /\ tasks' = [tasks EXCEPT ![m] = [NoTask EXCEPT !.at = "dispatch", !.host = 1]]

\* finally: the message and its key are no longer in flight.
Drop(m) ==
    /\ inflight' = inflight \ {m} /\ busy' = busy \ {Sender(m)}
    /\ tasks' = [tasks EXCEPT ![m] = NoTask]

\* raw.message: live, or tagged historical and passed over.
StreamDelivers(m) ==
    /\ m \in unseen /\ unseen' = unseen \ {m}
    /\ \/ ~Seen(m) /\ Take(m)
       \/ UNCHANGED <<inflight, busy, tasks>>
    /\ UNCHANGED <<joinerVars, members, tag, tags, processed, keys, scans,
                   restarts, histVars>>

\* processJoinRequest up to addMembers: the invite is signed by this identity
\* and its tag is the stored one, if there is one.
Acceptable(h, j) == h = Creator /\ (tag = 0 \/ tag = invite[j])

Advance(m, t) == tasks' = [tasks EXCEPT ![m] = t]
Working(m)    == tasks[m].at = "dispatch"

\* The next identity has no client, or its key cannot be read: worth a retry.
HostUnavailable(m) ==
    /\ Working(m) /\ tasks[m].host \in Hosts
    /\ Advance(m, [tasks[m] EXCEPT !.host = @ + 1, !.retry = TRUE])
    /\ UNCHANGED <<joinerVars, members, tag, tags, unseen, processed, keys,
                   inflight, busy, scans, restarts, histVars>>

\* The next identity is tried: the invite is not its own or no longer valid,
\* which is final, or the sender is being added.
HostTries(m) ==
    /\ Working(m) /\ tasks[m].host \in Hosts
    /\ Advance(m, IF Acceptable(tasks[m].host, Sender(m))
                  THEN [tasks[m] EXCEPT !.at = "add"]
                  ELSE [tasks[m] EXCEPT !.host = @ + 1])
    /\ UNCHANGED <<joinerVars, members, tag, tags, unseen, processed, keys,
                   inflight, busy, scans, restarts, histVars>>

\* addMembers succeeded: the message and its key are processed, the effects
\* (audit entry and profile snapshot) are awaited.
Added(m) ==
    /\ tasks[m].at = "add"
    /\ members' = members \union {Sender(m)}
    /\ processed' = processed \union {m} /\ keys' = keys \union {Sender(m)}
    /\ accepts' = [accepts EXCEPT ![m] = @ + 1]
    /\ Advance(m, [tasks[m] EXCEPT !.at = "accepted"])
    /\ UNCHANGED <<joinerVars, tag, tags, unseen, inflight, busy, scans,
                   restarts, expired, stale>>

\* addMembers failed, perhaps after the network had applied it; the error is
\* one to retry or not, and the next identity is tried.
AddFails(m) ==
    /\ tasks[m].at = "add"
    /\ members' \in {members, members \union {Sender(m)}}
    /\ \E again \in BOOLEAN :
         Advance(m, [tasks[m] EXCEPT !.at = "dispatch", !.host = @ + 1,
                                     !.retry = @ \/ again])
    /\ UNCHANGED <<joinerVars, tag, tags, unseen, processed, keys, inflight,
                   busy, scans, restarts, histVars>>

\* The recovery that waits for this message goes on; a failure to retry is noted.
Resume(m, again) ==
    scans' = [scans EXCEPT ![Sender(m)] =
                IF @.at = "wait" /\ @.msg = m[2]
                THEN [@ EXCEPT !.at = "done", !.retry = @ \/ again] ELSE @]

\* The effects of an acceptance are over, whether they worked or threw.
Accepted(m) ==
    /\ tasks[m].at = "accepted"
    /\ Drop(m) /\ Resume(m, FALSE)
    /\ UNCHANGED <<joinerVars, members, tag, tags, unseen, processed, keys,
                   restarts, histVars>>

\* No identity took the request: it is put on the audit log when that is final.
Declined(m) ==
    /\ Working(m) /\ tasks[m].host \notin Hosts
    /\ Drop(m) /\ Resume(m, tasks[m].retry)
    /\ UNCHANGED <<joinerVars, members, tag, tags, unseen, processed, keys,
                   restarts, histVars>>

\* The timer of markInviteKeyProcessed.
KeyExpires(j) ==
    /\ j \in keys /\ keys' = keys \ {j} /\ expired' = expired \union {j}
    /\ UNCHANGED <<joinerVars, members, tag, tags, unseen, processed,
                   inflight, busy, tasks, scans, restarts, accepts, stale>>

-----------------------------------------------------------------------------
(* The recovery scan of a DM.                                               *)

Scan(j, s) == scans' = [scans EXCEPT ![j] = s]
HostRest   == UNCHANGED <<joinerVars, members, tag, tags, unseen, processed,
                          keys, restarts, histVars>>

\* raw.dm.joined: once for a DM.
DmDiscovered(j) ==
    /\ \E m \in sent : Sender(m) = j
    /\ scans[j].at = "none"
    /\ Scan(j, [NoScan EXCEPT !.at = "scan"])
    /\ UNCHANGED <<inflight, busy, tasks>> /\ HostRest

\* What a scan of the DM turns up: a message that is not processed and whose
\* key is not, the structured one before the text.
Candidates(j) == {m \in sent : Sender(m) = j /\ m \notin processed /\ j \notin keys}
Preferred(j)  == IF <<j, "structured">> \in Candidates(j) THEN <<j, "structured">>
                 ELSE <<j, "text">>

\* listMessages of the managed identities, and processInviteCandidate up to
\* its first await; a page that could not be read is worth a retry,
\* a DM that no managed identity knows is not.
Scanned(j) ==
    /\ scans[j].at = "scan"
    /\ \E failed \in BOOLEAN :
         LET m == Preferred(j)
             none == Candidates(j) = {} \/ Seen(m)
         IN \/ /\ Scan(j, [scans[j] EXCEPT !.at = "done", !.retry = failed])
               /\ UNCHANGED <<inflight, busy, tasks>>
            \/ /\ ~none /\ Take(m)
               /\ Scan(j, [scans[j] EXCEPT !.at = "wait", !.msg = m[2], !.retry = failed])
    /\ HostRest

\* The end of a recovery, or the timer that starts the next one.
RecoveryEnds(j) ==
    /\ scans[j].at = "done"
    /\ Scan(j, IF scans[j].retry /\ scans[j].count < MaxRetries
               THEN [NoScan EXCEPT !.at = "scan", !.count = scans[j].count + 1]
               ELSE [scans[j] EXCEPT !.at = "over"])
    /\ UNCHANGED <<inflight, busy, tasks>> /\ HostRest

\* The daemon restarts: the tag store and the listener's memory are lost, and
\* what its stream delivers again is historical.
Restart ==
    /\ restarts < MaxRestarts /\ restarts' = restarts + 1
    /\ tag' = 0 /\ processed' = {} /\ keys' = {} /\ inflight' = {} /\ busy' = {}
    /\ unseen' = {}
    /\ tasks' = [m \in Messages |-> NoTask]
    /\ scans' = [j \in Joiners |-> IF scans[j].at = "none" THEN NoScan
                                   ELSE [NoScan EXCEPT !.at = "over"]]
    /\ UNCHANGED <<joinerVars, members, tags, histVars>>

-----------------------------------------------------------------------------

JoinerStep(j) ==
    Registered(j) \/ Connected(j) \/ SendStructured(j) \/ SendText(j) \/ Poll(j)
TaskStep(m) ==
    HostUnavailable(m) \/ HostTries(m) \/ Added(m) \/ AddFails(m) \/ Accepted(m) \/ Declined(m)
ScanStep(j) == Scanned(j) \/ RecoveryEnds(j)

OnboardingNext ==
    \/ Invite \/ Restart
    \/ \E j \in Joiners :
          \/ \E t \in 1 .. MaxTags : Join(j, t)
          \/ JoinerStep(j) \/ KeyExpires(j) \/ DmDiscovered(j) \/ ScanStep(j)
    \/ \E m \in Messages : StreamDelivers(m) \/ TaskStep(m)

\* The event loops resume what they can resume, the native calls settle and
\* the poll and retry timers fire.
OnboardingFairness ==
    /\ \A j \in Joiners : WF_onboardingVars(JoinerStep(j)) /\ WF_onboardingVars(ScanStep(j))
    /\ \A m \in Messages : WF_onboardingVars(TaskStep(m))

OnboardingSpec == OnboardingInit /\ [][OnboardingNext]_onboardingVars /\ OnboardingFairness

-----------------------------------------------------------------------------
(* Properties.                                                              *)

\* The variables have their types; a message in flight has its task, and a key
\* in flight exactly one of its messages.
OnboardingTypeOK ==
    /\ phase \in [Joiners -> {"idle", "register", "connect", "structured", "text", "poll",
                              "joined", "failed"}]
    /\ row \in [Joiners -> {"none", "new", "ready", "removed"}]
    /\ sent \subseteq Messages /\ members \subseteq Joiners
    /\ \A m \in Messages : (m \in inflight) = (tasks[m].at # "none")
    /\ busy = {Sender(m) : m \in inflight}

\* However its two messages reach the host (stream, scan, both, in any order,
\* retried), a join request is accepted once, so its member is added and its
\* profile snapshot sent once; a second acceptance needs the dedupe key to have
\* timed out or the host to have restarted in between.
AcceptedOnce ==
    \A j \in Joiners :
        accepts[<<j, "structured">>] + accepts[<<j, "text">>] > 1
            => j \in expired \/ restarts > 0

\* An invite that had been replaced before its holder asked to join lets no one
\* in, as long as the host remembers the tag of its replacement.
NoStaleInvite == \A j \in members : j \in stale => restarts > 0

\* An acceptance is sound: once per request and for no replaced invite
\* (processInviteCandidate, processJoinRequest).
AcceptancesSound == AcceptedOnce /\ NoStaleInvite

\* A join reported as successful is a membership with a stored identity, and
\* one reported as failed leaves no identity behind.
JoinOutcome ==
    /\ OnboardingTypeOK
    /\ \A j \in Joiners : /\ phase[j] = "joined" => j \in members /\ row[j] = "ready"
                          /\ phase[j] = "failed" => row[j] = "removed"

\* A join attempt ends in success or failure, and the recovery of a DM stops
\* retrying, whatever the host answers: whenever an attempt or a recovery is
\* under way there comes a moment when none is (joinConversation's poll loop,
\* recoverInviteCandidatesFromDm).
OnboardingOver ==
    \A j \in Joiners : /\ phase[j] \in {"idle", "joined", "failed"}
                       /\ scans[j].at \in {"none", "over"}

OnboardingEnds == ~OnboardingOver ~> OnboardingOver
=============================================================================
