---------------------------- MODULE SealManager ----------------------------
(***************************************************************************)
(* The seal manager (seals/src/manager.ts): issue, refresh and revoke of   *)
(* the seals of credential+chat pairs.                                     *)
(*                                                                         *)
(* Each operation awaits in turn the resolver of its input (issue only),   *)
(* the signer and the publisher, and only then updates the maps; other     *)
(* operations run in between.  An operation under way is a task, whose at  *)
(* says which await it is suspended on.  Signer and publisher may fail; a  *)
(* publish that fails may still have reached the chat.                     *)
(*                                                                         *)
(* Seals are numbered in the order they are built, which is the order of   *)
(* their issuedAt.  A pair's input (permissions, admin access, trust tier  *)
(* and so on) is one of Inputs; two different ones are a material change.  *)
(***************************************************************************)
EXTENDS Integers, FiniteSets, Sequences

CONSTANTS
  Pairs,     \* credential+chat keys
  Inputs,    \* seal inputs the resolver can return
  MaxOps,    \* bound on the operations started
  MaxTasks,  \* bound on the operations under way at once
  None

ASSUME NoneAssumption == None \notin Nat
ASSUME BoundsAssumption == MaxOps \in Nat /\ MaxTasks \in Nat

VARIABLES
  currentSeals,  \* the current seal of each pair, or None
  sealsById,     \* the tracked seals
  revokedPairs,
  built,         \* pair, input and predecessor of every seal built, in order
  tasks,         \* operations under way
  started,       \* operations ever started, which names them
  chat,          \* the seals and revocations the pair's chat received
  overlapped     \* history: the pairs two operations were under way on at once

vars ==
  <<currentSeals, sealsById, revokedPairs, built, tasks, started, chat, overlapped>>

Init ==
  /\ currentSeals = [p \in Pairs |-> None]
  /\ sealsById = {}
  /\ revokedPairs = {}
  /\ built = <<>>
  /\ tasks = {}
  /\ started = 0
  /\ chat = [p \in Pairs |-> {}]
  /\ overlapped = {}

-----------------------------------------------------------------------------
(* Tasks *)

Begin(t) ==
  /\ started < MaxOps /\ Cardinality(tasks) < MaxTasks
  /\ tasks' = tasks \cup {t}
  /\ started' = started + 1
  /\ overlapped' = IF \E u \in tasks : u.pair = t.pair THEN overlapped \cup {t.pair}
                   ELSE overlapped

Continue(t, u) == tasks' = (tasks \ {t}) \cup {u} /\ UNCHANGED <<started, overlapped>>

Finish(t) == tasks' = tasks \ {t} /\ UNCHANGED <<started, overlapped>>

\* buildSeal: a new payload that carries its predecessor.
buildSeal(pair, input, previous) ==
  built' = Append(built, [pair |-> pair, input |-> input, previous |-> previous])

-----------------------------------------------------------------------------
(* issue *)

Issue(p) ==
  /\ Begin([op |-> "issue", at |-> "resolve", id |-> started, pair |-> p, seal |-> 0])
  /\ UNCHANGED <<currentSeals, sealsById, revokedPairs, built, chat>>

\* Mutant of Refused: the check of issue is forgotten.
NeverRefused(p) == FALSE

\* "Cannot issue seal for revoked credential+chat", after the input is known.
Refused(p) == p \in revokedPairs

\* No material change from the current seal: it is returned as it is.
Unchanged(p, input) ==
  currentSeals[p] # None /\ built[currentSeals[p]].input = input

IssueResolved(t, input) ==
  /\ t.op = "issue" /\ t.at = "resolve"
  /\ \/ \* the resolver failed, the pair is revoked, or nothing changed
        /\ Finish(t)
        /\ UNCHANGED built
     \/ /\ ~Refused(t.pair) /\ ~Unchanged(t.pair, input)
        /\ buildSeal(t.pair, input, currentSeals[t.pair])
        /\ Continue(t, [t EXCEPT !.at = "sign", !.seal = Len(built) + 1])
  /\ UNCHANGED <<currentSeals, sealsById, revokedPairs, chat>>

-----------------------------------------------------------------------------
(* refresh *)

\* Mutant of Refreshable: any tracked seal may be refreshed.
AnyTracked(n) == n \in sealsById /\ built[n].pair \notin revokedPairs

\* Only the current head of a pair that is not revoked.
Refreshable(n) ==
  /\ n \in sealsById
  /\ currentSeals[built[n].pair] = n
  /\ built[n].pair \notin revokedPairs

Refresh(n) ==
  /\ Refreshable(n)
  /\ buildSeal(built[n].pair, built[n].input, n)
  /\ Begin([op |-> "refresh", at |-> "sign", id |-> started, pair |-> built[n].pair,
            seal |-> Len(built) + 1])
  /\ UNCHANGED <<currentSeals, sealsById, revokedPairs, chat>>

-----------------------------------------------------------------------------
(* revoke *)

Revoke(n) ==
  /\ n \in sealsById
  /\ built[n].pair \notin revokedPairs
  /\ Begin([op |-> "revoke", at |-> "sign", id |-> started, pair |-> built[n].pair, seal |-> n])
  /\ UNCHANGED <<currentSeals, sealsById, revokedPairs, built, chat>>

-----------------------------------------------------------------------------
(* Signing and publishing *)

\* The signer answered; an operation whose signature failed ends.
Signed(t) ==
  /\ t.at = "sign"
  /\ Continue(t, [t EXCEPT !.at = "publish"]) \/ Finish(t)
  /\ UNCHANGED <<currentSeals, sealsById, revokedPairs, built, chat>>

Message(t) == [revocation |-> t.op = "revoke", seal |-> t.seal]

\* The message reaches the chat; the operation may still be told that it failed.
Delivered(t) ==
  /\ t.at = "publish"
  /\ chat' = [chat EXCEPT ![t.pair] = @ \cup {Message(t)}]
  /\ Continue(t, [t EXCEPT !.at = "track"]) \/ Finish(t)
  /\ UNCHANGED <<currentSeals, sealsById, revokedPairs, built>>

\* Mutant of PublishFailed: the publisher's error is not looked at.
FailureIgnored(t) ==
  /\ t.at = "publish"
  /\ Continue(t, [t EXCEPT !.at = "track"])
  /\ UNCHANGED <<currentSeals, sealsById, revokedPairs, built, chat>>

\* It does not reach the chat.
PublishFailed(t) ==
  /\ t.at = "publish"
  /\ Finish(t)
  /\ UNCHANGED <<currentSeals, sealsById, revokedPairs, built, chat>>

-----------------------------------------------------------------------------
(* After the publisher answered *)

Track(t) ==
  /\ t.at = "track" /\ t.op # "revoke"
  /\ currentSeals' = [currentSeals EXCEPT ![t.pair] = t.seal]
  /\ sealsById' = sealsById \cup {t.seal}
  /\ Finish(t)
  /\ UNCHANGED <<revokedPairs, built, chat>>

MarkRevoked(t) ==
  /\ t.at = "track" /\ t.op = "revoke"
  /\ revokedPairs' = revokedPairs \cup {t.pair}
  /\ currentSeals' = [currentSeals EXCEPT ![t.pair] = None]
  /\ Finish(t)
  /\ UNCHANGED <<sealsById, built, chat>>

Resumes(t) ==
  \/ \E input \in Inputs : IssueResolved(t, input)
  \/ Signed(t) \/ Delivered(t) \/ PublishFailed(t) \/ Track(t) \/ MarkRevoked(t)

Next ==
  \/ \E p \in Pairs : Issue(p)
  \/ \E n \in sealsById : Refresh(n) \/ Revoke(n)
  \/ \E t \in tasks : Resumes(t)

Spec == Init /\ [][Next]_vars

-----------------------------------------------------------------------------
(* Properties *)

Tasks ==
  [op : {"issue", "refresh", "revoke"}, at : {"resolve", "sign", "publish", "track"},
   id : Nat, pair : Pairs, seal : Nat]

Seals == [pair : Pairs, input : Inputs, previous : Nat \cup {None}]

\* Types, and what a task may hold: past its resolver a task works on a seal
\* that was built for its pair, and only a revocation works on a tracked one.
SealTypeOK ==
  /\ built \in Seq(Seals)
  /\ sealsById \subseteq DOMAIN built
  /\ currentSeals \in [Pairs -> sealsById \cup {None}]
  /\ revokedPairs \subseteq Pairs /\ overlapped \subseteq Pairs
  /\ started \in Nat
  /\ tasks \subseteq Tasks
  /\ \A t \in tasks : t.at # "resolve" =>
       /\ t.seal \in DOMAIN built /\ built[t.seal].pair = t.pair
       /\ t.op = "revoke" => t.seal \in sealsById

\* What validateSealChain asks of a seal, and a predecessor that is tracked.
Linked(n) ==
  LET previous == built[n].previous
  IN  previous # None =>
        /\ previous \in sealsById
        /\ previous < n
        /\ built[previous].pair = built[n].pair

\* Every tracked seal passes validateSealChain against a predecessor that is
\* tracked too, whatever failed or overlapped: history() has no holes.
ChainValid == \A n \in sealsById : Linked(n)

Tracked(p) == {n \in sealsById : built[n].pair = p}

\* On a pair whose operations never overlapped, and whatever sign and publish
\* failures they met, the tracked seals form one chain that ends in the current
\* seal, and a revoked pair has none (issue, refresh, revoke).
SerialChain ==
  \A p \in Pairs \ overlapped :
    /\ \A m, n \in Tracked(p) : built[m].previous = built[n].previous => m = n
    /\ p \in revokedPairs => currentSeals[p] = None
    /\ p \notin revokedPairs =>
         \A n \in Tracked(p) : currentSeals[p] # None /\ n <= currentSeals[p]

\* What the manager tracks, the members of the chat were told: the current seal
\* and the revocation of a pair were published (issue, refresh, revoke).
TrackedIsPublished ==
  \A p \in Pairs :
    /\ \A n \in Tracked(p) : [revocation |-> FALSE, seal |-> n] \in chat[p]
    /\ p \in revokedPairs => \E m \in chat[p] : m.revocation

\* What the manager tracks is well formed, chained and known to the chat,
\* whatever overlapped or failed (issue, refresh, revoke of manager.ts).
SealsSound == SealTypeOK /\ ChainValid /\ TrackedIsPublished

\* Once a pair is revoked nothing new is begun for it, although operations that
\* began before may still end (issue after its resolver, refresh).
NothingBegunAfterRevocation ==
  [][\A p \in revokedPairs :
       \A n \in DOMAIN built' \ DOMAIN built : built'[n].pair # p]_vars

\* "The credential-chat pair is permanently marked as revoked": a revoked pair
\* has no current seal (issue and refresh, against revoke).
RevokedHasNoCurrent == \A p \in revokedPairs : currentSeals[p] = None
=============================================================================
