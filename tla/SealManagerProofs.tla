------------------------- MODULE SealManagerProofs -------------------------
(***************************************************************************)
(* The chain of seals the manager tracks is valid and published, however   *)
(* its operations interleave and fail, for every set of pairs and inputs.  *)
(* On a pair whose operations never overlapped the tracked seals form one  *)
(* chain that ends in the current seal.                                    *)
(***************************************************************************)
EXTENDS SealManager, TLAPS

Types ==
  /\ built \in Seq(Seals)
  /\ sealsById \subseteq DOMAIN built
  /\ currentSeals \in [Pairs -> sealsById \cup {None}]
  /\ revokedPairs \subseteq Pairs /\ overlapped \subseteq Pairs
  /\ started \in Nat
  /\ tasks \subseteq Tasks
  /\ DOMAIN chat = Pairs

\* The current seal of a pair is a seal of that pair.
HeadsOwn == \A p \in Pairs : currentSeals[p] # None => built[currentSeals[p]].pair = p

\* A seal under way, which no map shows yet, is already linked to a tracked one.
Holds(t) ==
  t.at # "resolve" =>
    /\ t.seal \in DOMAIN built /\ built[t.seal].pair = t.pair
    /\ t.op = "revoke" => t.seal \in sealsById
    /\ t.op # "revoke" => Linked(t.seal)

TasksHold == \A t \in tasks : Holds(t)

\* An operation that is about to update the maps has published.
TasksPublished == \A t \in tasks : t.at = "track" => Message(t) \in chat[t.pair]

SealInv == Types /\ HeadsOwn /\ ChainValid /\ TasksHold

\* Nothing is tracked or under way at first.
LEMMA InitSeal == Init => SealInv
<1> SUFFICES ASSUME Init PROVE SealInv
  OBVIOUS
<1>1. Types
  BY DEF Init, Types
<1>2. HeadsOwn /\ ChainValid /\ TasksHold
  BY DEF Init, HeadsOwn, ChainValid, TasksHold
<1>3. QED
  BY <1>1, <1>2 DEF SealInv

\* buildSeal only appends: every seal keeps its number and content, and the new
\* one carries the predecessor it was given.
LEMMA Built ==
  ASSUME Types, NEW pair \in Pairs, NEW input \in Inputs, NEW previous \in Nat \cup {None},
         buildSeal(pair, input, previous)
  PROVE  /\ built' \in Seq(Seals)
         /\ DOMAIN built' = DOMAIN built \cup {Len(built) + 1}
         /\ Len(built) + 1 \notin DOMAIN built
         /\ \A n \in DOMAIN built : n \in Nat /\ n < Len(built) + 1 /\ built'[n] = built[n]
         /\ built'[Len(built) + 1] = [pair |-> pair, input |-> input, previous |-> previous]
BY DEF Types, Seals, buildSeal

\* Appending seals disturbs no link between the old ones.
LEMMA LinkedKept ==
  ASSUME Types, NEW n \in DOMAIN built, Linked(n),
         sealsById \subseteq sealsById',
         \A k \in DOMAIN built : built'[k] = built[k]
  PROVE  Linked(n)'
<1>1. built[n].previous # None => built[n].previous \in sealsById
  BY DEF Linked
<1>2. built'[n] = built[n]
  OBVIOUS
<1>3. QED
  BY <1>1, <1>2 DEF Linked, Types

\* A step that leaves the tracked seals alone and builds nothing keeps what the
\* tasks hold, if it only moves a task on.
LEMMA TaskMoves ==
  ASSUME SealInv, NEW t \in tasks, t.at # "resolve", NEW a \in {"publish", "track"},
         Continue(t, [t EXCEPT !.at = a]) \/ Finish(t),
         UNCHANGED <<currentSeals, sealsById, revokedPairs, built>>, DOMAIN chat' = Pairs
  PROVE  SealInv'
<1> USE DEF SealInv
<1>1. t \in Tasks /\ [t EXCEPT !.at = a] \in Tasks
  BY DEF Types, Tasks
<1>2. tasks' \subseteq tasks \cup {[t EXCEPT !.at = a]}
  BY DEF Continue, Finish
<1>3. UNCHANGED <<started, overlapped>>
  BY DEF Continue, Finish
<1>4. Types'
  BY <1>1, <1>2, <1>3 DEF Types
<1>5. HeadsOwn' /\ ChainValid'
  BY DEF HeadsOwn, ChainValid, Linked
<1>6. \A u \in tasks : Holds(u)'
  BY DEF TasksHold, Holds, Linked
<1>7. Holds([t EXCEPT !.at = a])'
  BY <1>1 DEF TasksHold, Holds, Linked, Tasks
<1>8. TasksHold'
  BY <1>2, <1>6, <1>7 DEF TasksHold
<1>9. QED
  BY <1>4, <1>5, <1>8

\* A step that builds a seal on the current one of its pair, and whose task goes
\* on to sign it.
LEMMA BuildStep ==
  ASSUME SealInv, NEW p \in Pairs, NEW input \in Inputs, NEW old, NEW t \in Tasks,
         buildSeal(p, input, currentSeals[p]),
         t.pair = p, t.op # "revoke", t.seal = Len(built) + 1,
         tasks' = (tasks \ old) \cup {t},
         started' \in Nat, overlapped' \subseteq Pairs,
         UNCHANGED <<currentSeals, sealsById, revokedPairs, chat>>
  PROVE  SealInv'
<1> USE DEF SealInv
<1>n. PICK n \in Nat : n = Len(built) + 1
  BY DEF Types
<1>0. currentSeals[p] \in sealsById \cup {None} /\ sealsById \subseteq Nat
  BY DEF Types
<1>1. currentSeals[p] \in Nat \cup {None}
  BY <1>0
<1>2. /\ built' \in Seq(Seals)
      /\ DOMAIN built' = DOMAIN built \cup {n}
      /\ \A k \in DOMAIN built : k \in Nat /\ k < n /\ built'[k] = built[k]
      /\ built'[n] = [pair |-> p, input |-> input, previous |-> currentSeals[p]]
  BY <1>1, <1>n, Built
<1>3. Types'
  BY <1>2 DEF Types
<1>4. HeadsOwn'
  <2>1. \A q \in Pairs : currentSeals[q] # None => currentSeals[q] \in DOMAIN built
    BY DEF Types
  <2>2. QED
    BY <1>2, <2>1 DEF HeadsOwn
<1>5. \A k \in DOMAIN built : Linked(k) => Linked(k)'
  BY <1>2, LinkedKept
<1>6. ChainValid'
  BY <1>5 DEF ChainValid, Types
<1>7. Linked(n)'
  <2>1. CASE currentSeals[p] = None
    BY <1>2, <2>1 DEF Linked
  <2>2. CASE currentSeals[p] # None
    <3>1. currentSeals[p] \in sealsById /\ currentSeals[p] \in DOMAIN built
      BY <1>0, <2>2 DEF Types
    <3>2. built[currentSeals[p]].pair = p
      BY <2>2 DEF HeadsOwn
    <3>3. built'[currentSeals[p]].pair = p /\ currentSeals[p] < n
      BY <1>2, <3>1, <3>2
    <3>4. QED
      BY <1>2, <3>1, <3>3 DEF Linked
  <2>3. QED
    BY <2>1, <2>2
<1>8. \A u \in tasks : Holds(u)'
  <2> SUFFICES ASSUME NEW u \in tasks, u.at # "resolve"
               PROVE  Holds(u)'
    BY DEF Holds
  <2>1. u.seal \in DOMAIN built /\ built[u.seal].pair = u.pair
    BY DEF TasksHold, Holds
  <2>2. u.op = "revoke" => u.seal \in sealsById
    BY DEF TasksHold, Holds
  <2>3. u.op # "revoke" => Linked(u.seal)'
    BY <1>5, <2>1 DEF TasksHold, Holds
  <2>4. QED
    BY <1>2, <2>1, <2>2, <2>3 DEF Holds
<1>9. Holds(t)'
  BY <1>n, <1>2, <1>7 DEF Holds
<1>10. TasksHold'
  BY <1>8, <1>9 DEF TasksHold
<1>11. QED
  BY <1>3, <1>4, <1>6, <1>10

\* A step that only starts or ends a task; a started one holds what it must.
LEMMA TasksOnly ==
  ASSUME SealInv, NEW old, NEW new \in SUBSET Tasks,
         \A t \in new : Holds(t),
         tasks' = (tasks \ old) \cup new,
         started' \in Nat, overlapped' \subseteq Pairs,
         UNCHANGED <<currentSeals, sealsById, revokedPairs, built, chat>>
  PROVE  SealInv'
<1> USE DEF SealInv
<1>1. Types'
  BY DEF Types
<1>2. HeadsOwn' /\ ChainValid'
  BY DEF HeadsOwn, ChainValid, Linked
<1>3. \A t \in tasks \cup new : Holds(t)'
  BY DEF TasksHold, Holds, Linked
<1>4. QED
  BY <1>1, <1>2, <1>3 DEF TasksHold

\* What the tasks hold, and the maps, survive every step.
LEMMA StepSeal == SealInv /\ [Next]_vars => SealInv'
<1> SUFFICES ASSUME SealInv, [Next]_vars PROVE SealInv'
  OBVIOUS
<1>1. ASSUME NEW p \in Pairs, Issue(p) PROVE SealInv'
  <2> DEFINE t == [op |-> "issue", at |-> "resolve", id |-> started, pair |-> p, seal |-> 0]
  <2>1. t \in Tasks /\ t.at = "resolve"
    BY DEF SealInv, Types, Tasks
  <2>2. tasks' = (tasks \ {}) \cup {t} /\ started' \in Nat /\ overlapped' \subseteq Pairs
    BY <1>1 DEF Issue, Begin, SealInv, Types
  <2>3. \A u \in {t} : Holds(u)
    BY DEF Holds
  <2>4. {t} \in SUBSET Tasks
    BY <2>1
  <2>5. UNCHANGED <<currentSeals, sealsById, revokedPairs, built, chat>>
    BY <1>1 DEF Issue
  <2>6. QED
    BY <2>2, <2>3, <2>4, <2>5, TasksOnly
<1>2. ASSUME NEW n \in sealsById, Refresh(n) PROVE SealInv'
  <2> DEFINE p == built[n].pair
             t == [op |-> "refresh", at |-> "sign", id |-> started, pair |-> p,
                   seal |-> Len(built) + 1]
  <2>1. built[n] \in Seals /\ Len(built) \in Nat
    BY DEF SealInv, Types
  <2>2. p \in Pairs /\ built[n].input \in Inputs /\ t \in Tasks
    BY <2>1 DEF SealInv, Types, Seals, Tasks
  <2>3. currentSeals[p] = n
    BY <1>2 DEF Refresh, Refreshable
  <2>4. tasks' = (tasks \ {}) \cup {t} /\ started' \in Nat /\ overlapped' \subseteq Pairs
    BY <1>2, <2>2 DEF Refresh, Begin, SealInv, Types
  <2>5. buildSeal(p, built[n].input, currentSeals[p])
    BY <1>2, <2>3 DEF Refresh
  <2>6. UNCHANGED <<currentSeals, sealsById, revokedPairs, chat>>
    BY <1>2 DEF Refresh
  <2>7. QED
    BY <2>2, <2>4, <2>5, <2>6, BuildStep
<1>3. ASSUME NEW n \in sealsById, Revoke(n) PROVE SealInv'
  <2> DEFINE t == [op |-> "revoke", at |-> "sign", id |-> started, pair |-> built[n].pair,
                   seal |-> n]
  <2>1. n \in DOMAIN built /\ n \in Nat /\ built[n] \in Seals
    BY DEF SealInv, Types
  <2>2. t \in Tasks
    BY <2>1 DEF SealInv, Types, Seals, Tasks
  <2>3. Holds(t)
    BY <2>1 DEF Holds
  <2>4. tasks' = (tasks \ {}) \cup {t} /\ started' \in Nat /\ overlapped' \subseteq Pairs
    BY <1>3, <2>2 DEF Revoke, Begin, SealInv, Types, Tasks
  <2>5. UNCHANGED <<currentSeals, sealsById, revokedPairs, built, chat>>
    BY <1>3 DEF Revoke
  <2>6. {t} \in SUBSET Tasks /\ \A u \in {t} : Holds(u)
    BY <2>2, <2>3
  <2>7. QED
    BY <2>4, <2>5, <2>6, TasksOnly
<1>4. ASSUME NEW t \in tasks, NEW input \in Inputs, IssueResolved(t, input) PROVE SealInv'
  <2>0. t \in Tasks /\ t.pair \in Pairs /\ started \in Nat /\ overlapped \subseteq Pairs
    BY DEF SealInv, Types, Tasks
  <2>1. CASE Finish(t) /\ UNCHANGED built
    <3>1. tasks' = (tasks \ {t}) \cup {} /\ started' \in Nat /\ overlapped' \subseteq Pairs
      BY <2>0, <2>1 DEF Finish
    <3>2. UNCHANGED <<currentSeals, sealsById, revokedPairs, built, chat>>
      BY <1>4, <2>1 DEF IssueResolved
    <3>3. {} \in SUBSET Tasks /\ \A u \in {} : Holds(u)
      OBVIOUS
    <3>4. QED
      BY <3>1, <3>2, <3>3, TasksOnly
  <2>2. CASE /\ buildSeal(t.pair, input, currentSeals[t.pair])
             /\ Continue(t, [t EXCEPT !.at = "sign", !.seal = Len(built) + 1])
    <3> DEFINE u == [t EXCEPT !.at = "sign", !.seal = Len(built) + 1]
    <3>1. Len(built) + 1 \in Nat
      BY DEF SealInv, Types
    <3>2. u \in Tasks /\ u.pair = t.pair /\ u.op = "issue" /\ u.seal = Len(built) + 1
      BY <1>4, <2>0, <3>1 DEF Tasks, IssueResolved
    <3>3. tasks' = (tasks \ {t}) \cup {u} /\ started' \in Nat /\ overlapped' \subseteq Pairs
      BY <2>0, <2>2 DEF Continue
    <3>4. UNCHANGED <<currentSeals, sealsById, revokedPairs, chat>>
      BY <1>4 DEF IssueResolved
    <3> HIDE DEF u
    <3>5. QED
      BY <2>0, <2>2, <3>2, <3>3, <3>4, BuildStep
  <2>3. QED
    BY <1>4, <2>1, <2>2 DEF IssueResolved
<1>5. ASSUME NEW t \in tasks, Signed(t) PROVE SealInv'
  <2>1. t.at # "resolve" /\ (Continue(t, [t EXCEPT !.at = "publish"]) \/ Finish(t))
    BY <1>5 DEF Signed
  <2>2. UNCHANGED <<currentSeals, sealsById, revokedPairs, built>> /\ DOMAIN chat' = Pairs
    BY <1>5 DEF Signed, SealInv, Types
  <2>3. QED
    BY <2>1, <2>2, TaskMoves
<1>6. ASSUME NEW t \in tasks, Delivered(t) PROVE SealInv'
  <2>1. t.at # "resolve" /\ (Continue(t, [t EXCEPT !.at = "track"]) \/ Finish(t))
    BY <1>6 DEF Delivered
  <2>2. UNCHANGED <<currentSeals, sealsById, revokedPairs, built>> /\ DOMAIN chat' = Pairs
    BY <1>6 DEF Delivered, SealInv, Types
  <2>3. QED
    BY <2>1, <2>2, TaskMoves
<1>7. ASSUME NEW t \in tasks, PublishFailed(t) PROVE SealInv'
  <2>1. t.at # "resolve" /\ Finish(t)
    BY <1>7 DEF PublishFailed
  <2>2. UNCHANGED <<currentSeals, sealsById, revokedPairs, built>> /\ DOMAIN chat' = Pairs
    BY <1>7 DEF PublishFailed, SealInv, Types
  <2>3. QED
    BY <2>1, <2>2, TaskMoves
<1>8. ASSUME NEW t \in tasks, Track(t) PROVE SealInv'
  <2>1. t \in Tasks /\ Holds(t) /\ t.at = "track" /\ t.op # "revoke"
    BY <1>8 DEF Track, SealInv, Types, TasksHold
  <2>2. t.pair \in Pairs /\ t.seal \in DOMAIN built /\ built[t.seal].pair = t.pair
        /\ Linked(t.seal)
    BY <2>1 DEF Holds, Tasks
  <2>3. /\ currentSeals' = [currentSeals EXCEPT ![t.pair] = t.seal]
        /\ sealsById' = sealsById \cup {t.seal}
        /\ tasks' = tasks \ {t}
        /\ UNCHANGED <<started, overlapped, revokedPairs, built, chat>>
    BY <1>8 DEF Track, Finish
  <2>4. Types'
    BY <2>2, <2>3 DEF SealInv, Types
  <2>5. HeadsOwn'
    BY <2>2, <2>3 DEF SealInv, Types, HeadsOwn
  <2>6. \A n \in DOMAIN built : Linked(n) => Linked(n)'
    BY <2>3, LinkedKept DEF SealInv
  <2>7. ChainValid'
    BY <2>2, <2>3, <2>6 DEF SealInv, Types, ChainValid
  <2>8. TasksHold'
    BY <2>3, <2>6 DEF SealInv, TasksHold, Holds
  <2>9. QED
    BY <2>4, <2>5, <2>7, <2>8 DEF SealInv
<1>9. ASSUME NEW t \in tasks, MarkRevoked(t) PROVE SealInv'
  <2>1. t \in Tasks /\ t.pair \in Pairs
    BY DEF SealInv, Types, Tasks
  <2>2. /\ currentSeals' = [currentSeals EXCEPT ![t.pair] = None]
        /\ revokedPairs' = revokedPairs \cup {t.pair}
        /\ tasks' = tasks \ {t}
        /\ UNCHANGED <<started, overlapped, sealsById, built, chat>>
    BY <1>9 DEF MarkRevoked, Finish
  <2>3. Types'
    BY <2>1, <2>2 DEF SealInv, Types
  <2>4. HeadsOwn'
    BY <2>2 DEF SealInv, Types, HeadsOwn
  <2>5. ChainValid' /\ TasksHold'
    BY <2>2 DEF SealInv, ChainValid, TasksHold, Holds, Linked
  <2>6. QED
    BY <2>3, <2>4, <2>5 DEF SealInv
<1>10. CASE UNCHANGED vars
  BY <1>10 DEF vars, SealInv, Types, HeadsOwn, ChainValid, TasksHold, Holds, Linked
<1>11. QED
  BY <1>1, <1>2, <1>3, <1>4, <1>5, <1>6, <1>7, <1>8, <1>9, <1>10 DEF Next, Resumes

\* The manager's maps and what its suspended operations hold are consistent,
\* however the operations interleave and fail (issue, refresh, revoke).
THEOREM SealInvariant == Spec => []SealInv
<1>1. QED
  BY InitSeal, StepSeal, PTL DEF Spec

\* The tracked seals have their types and no task holds a seal of another pair.
THEOREM SealTypes == Spec => []SealTypeOK
<1>1. SealInv => SealTypeOK
  BY DEF SealInv, Types, TasksHold, Holds, SealTypeOK
<1>2. QED
  BY <1>1, SealInvariant, PTL

\* Every tracked seal is validly linked to a tracked predecessor of its pair,
\* also when operations on the pair overlap, fail or are revoked (history).
THEOREM ChainsAreValid == Spec => []ChainValid
<1>1. SealInv => ChainValid
  BY DEF SealInv
<1>2. QED
  BY <1>1, SealInvariant, PTL

-----------------------------------------------------------------------------
PublishedInv == SealInv /\ TasksPublished /\ TrackedIsPublished

\* A task gets to the maps only through the chat.
LEMMA StepPublished == PublishedInv /\ SealInv' /\ [Next]_vars => PublishedInv'
<1> SUFFICES ASSUME PublishedInv, SealInv', [Next]_vars
             PROVE  TasksPublished' /\ TrackedIsPublished'
  BY DEF PublishedInv
<1> USE DEF PublishedInv, TasksPublished, TrackedIsPublished, Message, Tracked
<1>t. tasks \subseteq Tasks /\ DOMAIN chat = Pairs
  BY DEF SealInv, Types
<1>k. ASSUME UNCHANGED <<sealsById, revokedPairs, chat>>,
             \A n \in sealsById : built'[n] = built[n],
             \A t \in tasks' : t.at = "track" => t \in tasks
      PROVE  TasksPublished' /\ TrackedIsPublished'
  BY <1>k
<1>b. ASSUME NEW p \in Pairs, NEW input \in Inputs, NEW previous \in Nat \cup {None},
             buildSeal(p, input, previous)
      PROVE  \A n \in sealsById : built'[n] = built[n]
  BY <1>b, Built DEF SealInv, Types
<1>1. ASSUME NEW p \in Pairs, Issue(p) PROVE TasksPublished' /\ TrackedIsPublished'
  <2>1. \A t \in tasks' : t.at = "track" => t \in tasks
    BY <1>1 DEF Issue, Begin
  <2>2. QED
    BY <1>1, <1>k, <2>1 DEF Issue
<1>2. ASSUME NEW n \in sealsById, Refresh(n) PROVE TasksPublished' /\ TrackedIsPublished'
  <2>1. built[n] \in Seals /\ n \in Nat
    BY DEF SealInv, Types
  <2>2. \A k \in sealsById : built'[k] = built[k]
    BY <1>2, <1>b, <2>1 DEF Refresh, Seals
  <2>3. \A t \in tasks' : t.at = "track" => t \in tasks
    BY <1>2 DEF Refresh, Begin
  <2>4. QED
    BY <1>2, <1>k, <2>2, <2>3 DEF Refresh
<1>3. ASSUME NEW n \in sealsById, Revoke(n) PROVE TasksPublished' /\ TrackedIsPublished'
  <2>1. \A t \in tasks' : t.at = "track" => t \in tasks
    BY <1>3 DEF Revoke, Begin
  <2>2. QED
    BY <1>3, <1>k, <2>1 DEF Revoke
<1>4. ASSUME NEW t \in tasks, NEW input \in Inputs, IssueResolved(t, input)
      PROVE  TasksPublished' /\ TrackedIsPublished'
  <2>1. t.pair \in Pairs /\ currentSeals[t.pair] \in Nat \cup {None}
    BY <1>t DEF Tasks, SealInv, Types
  <2>2. \A k \in sealsById : built'[k] = built[k]
    BY <1>4, <1>b, <2>1 DEF IssueResolved
  <2>3. [t EXCEPT !.at = "sign", !.seal = Len(built) + 1].at = "sign"
    BY <1>t DEF Tasks
  <2>4. \A u \in tasks' : u.at = "track" => u \in tasks
    BY <1>4, <2>3 DEF IssueResolved, Finish, Continue
  <2>5. QED
    BY <1>4, <1>k, <2>2, <2>4 DEF IssueResolved
<1>5. ASSUME NEW t \in tasks, Signed(t) PROVE TasksPublished' /\ TrackedIsPublished'
  <2>1. [t EXCEPT !.at = "publish"].at = "publish"
    BY <1>t DEF Tasks
  <2>2. \A u \in tasks' : u.at = "track" => u \in tasks
    BY <1>5, <2>1 DEF Signed, Finish, Continue
  <2>3. QED
    BY <1>5, <1>k, <2>2 DEF Signed
<1>6. ASSUME NEW t \in tasks, Delivered(t) PROVE TasksPublished' /\ TrackedIsPublished'
  <2> DEFINE u == [t EXCEPT !.at = "track"]
  <2>1. t.pair \in Pairs /\ u.pair = t.pair /\ u.op = t.op /\ u.seal = t.seal
    BY <1>t DEF Tasks
  <2>2. tasks' \subseteq tasks \cup {u}
    BY <1>6 DEF Delivered, Continue, Finish
  <2>3. UNCHANGED <<sealsById, revokedPairs, built>>
    BY <1>6 DEF Delivered
  <2>4. chat' = [chat EXCEPT ![t.pair] = @ \cup {Message(t)}]
    BY <1>6 DEF Delivered
  <2>5. \A q \in Pairs : chat[q] \subseteq chat'[q]
    BY <1>t, <2>4
  <2>6. Message(t) \in chat'[t.pair]
    BY <1>t, <2>1, <2>4
  <2>7. TrackedIsPublished'
    BY <2>3, <2>5
  <2>8. \A v \in tasks : v.at = "track" => v.pair \in Pairs /\ Message(v) \in chat'[v.pair]
    BY <1>t, <2>5 DEF Tasks
  <2>9. Message(u) \in chat'[u.pair]
    BY <2>1, <2>6
  <2> HIDE DEF u
  <2>10. QED
    BY <2>2, <2>7, <2>8, <2>9
<1>7. ASSUME NEW t \in tasks, PublishFailed(t) PROVE TasksPublished' /\ TrackedIsPublished'
  <2>1. \A u \in tasks' : u.at = "track" => u \in tasks
    BY <1>7 DEF PublishFailed, Finish
  <2>2. QED
    BY <1>7, <1>k, <2>1 DEF PublishFailed
<1>8. ASSUME NEW t \in tasks, Track(t) PROVE TasksPublished' /\ TrackedIsPublished'
  <2>1. built[t.seal].pair = t.pair /\ Message(t) \in chat[t.pair]
        /\ Message(t) = [revocation |-> FALSE, seal |-> t.seal]
    BY <1>8 DEF Track, SealInv, TasksHold, Holds
  <2>2. sealsById' = sealsById \cup {t.seal} /\ tasks' \subseteq tasks
        /\ UNCHANGED <<revokedPairs, built, chat>>
    BY <1>8 DEF Track, Finish
  <2>3. QED
    BY <2>1, <2>2
<1>9. ASSUME NEW t \in tasks, MarkRevoked(t) PROVE TasksPublished' /\ TrackedIsPublished'
  <2>1. Message(t) \in chat[t.pair] /\ Message(t).revocation
    BY <1>9 DEF MarkRevoked
  <2>2. revokedPairs' = revokedPairs \cup {t.pair} /\ tasks' \subseteq tasks
        /\ UNCHANGED <<sealsById, built, chat>>
    BY <1>9 DEF MarkRevoked, Finish
  <2>3. QED
    BY <2>1, <2>2
<1>10. CASE UNCHANGED vars
  BY <1>10 DEF vars
<1>11. QED
  BY <1>1, <1>2, <1>3, <1>4, <1>5, <1>6, <1>7, <1>8, <1>9, <1>10 DEF Next, Resumes

\* What the manager tracks or marks revoked was published to the pair's chat
\* first, whichever publish failed in between (issue, refresh, revoke).
THEOREM PublishedFirst == Spec => []TrackedIsPublished
<1>1. Init => TasksPublished /\ TrackedIsPublished
  BY DEF Init, TasksPublished, TrackedIsPublished, Tracked
<1>2. QED
  BY <1>1, SealInvariant, StepPublished, PTL DEF Spec, PublishedInv

\* No step builds a seal for a pair that is already revoked: the checks of issue
\* and refresh stop every operation that begins after the revocation.
THEOREM RevocationStops == Spec => NothingBegunAfterRevocation
<1> DEFINE NoneBuilt == \A p \in revokedPairs :
                          \A n \in DOMAIN built' \ DOMAIN built : built'[n].pair # p
<1>1. ASSUME SealInv, [Next]_vars PROVE [NoneBuilt]_vars
  <2>b. ASSUME NEW p \in Pairs \ revokedPairs, NEW input \in Inputs,
               NEW previous \in Nat \cup {None}, buildSeal(p, input, previous)
        PROVE  NoneBuilt
    <3>1. DOMAIN built' \ DOMAIN built = {Len(built) + 1}
      BY <1>1, <2>b, Built DEF SealInv
    <3>2. built'[Len(built) + 1] = [pair |-> p, input |-> input, previous |-> previous]
      BY <1>1, <2>b, Built DEF SealInv
    <3>3. built'[Len(built) + 1].pair = p
      BY <3>2
    <3>4. QED
      BY <2>b, <3>1, <3>3
  <2>1. ASSUME NEW n \in sealsById, Refresh(n) PROVE NoneBuilt
    <3>1. built[n] \in Seals /\ n \in Nat
      BY <1>1 DEF SealInv, Types
    <3>2. QED
      BY <2>1, <2>b, <3>1 DEF Refresh, Refreshable, Seals
  <2>2. ASSUME NEW t \in tasks, NEW input \in Inputs, IssueResolved(t, input)
        PROVE  NoneBuilt
    <3>1. t.pair \in Pairs /\ currentSeals[t.pair] \in Nat \cup {None}
      BY <1>1 DEF SealInv, Types, Tasks
    <3>2. CASE UNCHANGED built
      BY <3>2
    <3>3. CASE ~Refused(t.pair) /\ buildSeal(t.pair, input, currentSeals[t.pair])
      BY <2>b, <3>1, <3>3 DEF Refused
    <3>4. QED
      BY <2>2, <3>2, <3>3 DEF IssueResolved
  <2>3. CASE UNCHANGED built
    BY <2>3
  <2>4. CASE Next
    <3>1. CASE \E p \in Pairs : Issue(p)
      BY <3>1, <2>3 DEF Issue
    <3>2. CASE \E n \in sealsById : Revoke(n)
      BY <3>2, <2>3 DEF Revoke
    <3>3. CASE \E t \in tasks : Signed(t) \/ Delivered(t) \/ PublishFailed(t)
                               \/ Track(t) \/ MarkRevoked(t)
      BY <3>3, <2>3 DEF Signed, Delivered, PublishFailed, Track, MarkRevoked
    <3>4. QED
      BY <2>4, <2>1, <2>2, <3>1, <3>2, <3>3 DEF Next, Resumes
  <2>5. QED
    BY <1>1, <2>4
<1>2. QED
  BY <1>1, SealInvariant, PTL DEF Spec, NothingBegunAfterRevocation

\* What the manager tracks is well formed, chained and published (manager.ts).
THEOREM SealsAreSound == Spec => []SealsSound
<1>1. SealTypeOK /\ ChainValid /\ TrackedIsPublished => SealsSound
  BY DEF SealsSound
<1>2. QED
  BY <1>1, SealTypes, ChainsAreValid, PublishedFirst, PTL

-----------------------------------------------------------------------------
\* The operations on a pair that have never overlapped: one at a time, and one
\* that has built a seal built it on the head the pair still has.
Serial(p) ==
  /\ \A t, u \in tasks : t.pair = p /\ u.pair = p => t = u
  /\ \A t \in tasks : t.pair = p /\ t.at # "resolve" /\ t.op # "revoke" =>
       p \notin revokedPairs /\ built[t.seal].previous = currentSeals[p]
  /\ \A m, n \in Tracked(p) : built[m].previous = built[n].previous => m = n
  /\ p \in revokedPairs => currentSeals[p] = None
  /\ p \notin revokedPairs =>
       \A n \in Tracked(p) : currentSeals[p] # None /\ n <= currentSeals[p]

SerialInv == \A p \in Pairs \ overlapped : Serial(p)

\* What a pair's chain rests on, when a step leaves its maps alone: the tasks
\* of the pair are old ones, or there is one, built on the pair's head.
LEMMA SerialKept ==
  ASSUME Types, NEW p \in Pairs, Serial(p),
         currentSeals'[p] = currentSeals[p],
         p \in revokedPairs' <=> p \in revokedPairs,
         \A n \in sealsById' : n \in sealsById \/ built'[n].pair # p,
         \A n \in DOMAIN built : built'[n] = built[n],
         \/ \A t \in tasks' : t.pair = p => t \in tasks
         \/ \E t \in tasks' :
              /\ \A u \in tasks' : u.pair = p => u = t
              /\ t.at # "resolve" /\ t.op # "revoke" =>
                   p \notin revokedPairs /\ built'[t.seal].previous = currentSeals[p],
         \A t \in tasks : t.at # "resolve" => t.seal \in DOMAIN built
  PROVE  Serial(p)'
<1>1. \A n \in Tracked(p)' : n \in Tracked(p) /\ built'[n] = built[n]
  BY DEF Tracked, Types
<1>2. /\ \A m, n \in Tracked(p)' : built'[m].previous = built'[n].previous => m = n
      /\ p \in revokedPairs' => currentSeals'[p] = None
      /\ p \notin revokedPairs' =>
           \A n \in Tracked(p)' : currentSeals'[p] # None /\ n <= currentSeals'[p]
  BY <1>1 DEF Serial
<1>3. /\ \A t, u \in tasks' : t.pair = p /\ u.pair = p => t = u
      /\ \A t \in tasks' : t.pair = p /\ t.at # "resolve" /\ t.op # "revoke" =>
           p \notin revokedPairs' /\ built'[t.seal].previous = currentSeals'[p]
  BY DEF Serial
<1> QED
  BY <1>2, <1>3 DEF Serial

\* An operation begins: alone on its pair, or the pair counts as overlapped.
LEMMA SerialBegins ==
  ASSUME SealInv, SerialInv, NEW t \in Tasks, Begin(t),
         UNCHANGED <<currentSeals, sealsById, revokedPairs>>,
         \A n \in DOMAIN built : built'[n] = built[n],
         t.at # "resolve" /\ t.op # "revoke" =>
           t.pair \notin revokedPairs /\ built'[t.seal].previous = currentSeals[t.pair]
  PROVE  SerialInv'
<1> SUFFICES ASSUME NEW p \in Pairs \ overlapped' PROVE Serial(p)'
  BY DEF SerialInv
<1>1. Serial(p) /\ Types
  BY DEF Begin, SerialInv, SealInv
<1>2. \A u \in tasks : u.at # "resolve" => u.seal \in DOMAIN built
  BY DEF SealInv, TasksHold, Holds
<1>3. tasks' = tasks \cup {t}
  BY DEF Begin
<1>4. CASE t.pair # p
  BY <1>1, <1>2, <1>3, <1>4, SerialKept
<1>5. CASE t.pair = p
  <2>1. \A u \in tasks : u.pair # p
    BY <1>5 DEF Begin
  <2>2. \A u \in tasks' : u.pair = p => u = t
    BY <1>3, <2>1
  <2> QED
    BY <1>1, <1>2, <1>3, <1>5, <2>2, SerialKept
<1> QED
  BY <1>4, <1>5

\* An operation goes on as u, or ends, and its pair's maps stay as they are.
LEMMA SerialMoves ==
  ASSUME SealInv, SerialInv, NEW t \in tasks, NEW u, Continue(t, u) \/ Finish(t),
         u.pair = t.pair,
         UNCHANGED <<currentSeals, sealsById, revokedPairs>>,
         \A n \in DOMAIN built : built'[n] = built[n],
         t.pair \notin overlapped => (u.at # "resolve" /\ u.op # "revoke" =>
           t.pair \notin revokedPairs /\ built'[u.seal].previous = currentSeals[t.pair])
  PROVE  SerialInv'
<1> SUFFICES ASSUME NEW p \in Pairs \ overlapped' PROVE Serial(p)'
  BY DEF SerialInv
<1>1. Serial(p) /\ Types /\ p \notin overlapped
  BY DEF Continue, Finish, SerialInv, SealInv
<1>2. \A v \in tasks : v.at # "resolve" => v.seal \in DOMAIN built
  BY DEF SealInv, TasksHold, Holds
<1>3. CASE t.pair # p \/ Finish(t)
  <2>1. \A v \in tasks' : v.pair = p => v \in tasks
    BY <1>3 DEF Continue, Finish
  <2> QED
    BY <1>1, <1>2, <2>1, SerialKept
<1>4. CASE t.pair = p /\ Continue(t, u)
  <2>1. \A v \in tasks : v.pair = p => v = t
    BY <1>1, <1>4 DEF Serial
  <2>2. u \in tasks' /\ \A v \in tasks' : v.pair = p => v = u
    BY <1>4, <2>1 DEF Continue
  <2> QED
    BY <1>1, <1>2, <1>4, <2>2, SerialKept
<1> QED
  BY <1>3, <1>4

\* The seal a lone operation tracks becomes the head of its pair's chain.
LEMMA SerialTracks ==
  ASSUME SealInv, SerialInv, NEW t \in tasks, Track(t)
  PROVE  SerialInv'
<1> SUFFICES ASSUME NEW p \in Pairs \ overlapped' PROVE Serial(p)'
  BY DEF SerialInv
<1>1. Serial(p) /\ Types /\ ChainValid
  BY DEF Track, Finish, SerialInv, SealInv
<1>2. \A v \in tasks : v.at # "resolve" => v.seal \in DOMAIN built
  BY DEF SealInv, TasksHold, Holds
<1>3. /\ t \in Tasks /\ t.at = "track" /\ t.op # "revoke" /\ t.pair \in Pairs
      /\ built[t.seal].pair = t.pair /\ Linked(t.seal) /\ t.seal \in DOMAIN built
  BY DEF Track, SealInv, Types, TasksHold, Holds, Tasks
<1>4. /\ currentSeals' = [currentSeals EXCEPT ![t.pair] = t.seal]
      /\ sealsById' = sealsById \cup {t.seal} /\ tasks' = tasks \ {t}
      /\ UNCHANGED <<revokedPairs, built>>
  BY DEF Track, Finish
<1>5. CASE t.pair # p
  <2>1. currentSeals'[p] = currentSeals[p]
    BY <1>1, <1>3, <1>4, <1>5 DEF Types
  <2> QED
    BY <1>1, <1>2, <1>3, <1>4, <1>5, <2>1, SerialKept
<1>6. CASE t.pair = p
  <2>1. \A v \in tasks : v.pair = p => v = t
    BY <1>1, <1>6 DEF Serial
  <2>2. p \notin revokedPairs /\ built[t.seal].previous = currentSeals[p]
    BY <1>1, <1>3, <1>6 DEF Serial
  <2>3. currentSeals'[p] = t.seal /\ t.seal \in Nat /\ t.seal # None
    BY <1>1, <1>3, <1>4, <1>6, NoneAssumption DEF Types
  <2>4. Tracked(p)' = Tracked(p) \cup {t.seal} /\ \A m \in Tracked(p) : m \in Nat
    BY <1>1, <1>3, <1>4, <1>6 DEF Tracked, Types
  <2>5. \A m \in Tracked(p) : m < t.seal /\ built[m].previous # currentSeals[p]
    <3> SUFFICES ASSUME NEW m \in Tracked(p)
                 PROVE  m < t.seal /\ built[m].previous # currentSeals[p]
      OBVIOUS
    <3>1. currentSeals[p] # None /\ m <= currentSeals[p]
      BY <1>1, <2>2 DEF Serial
    <3>2. currentSeals[p] \in Nat /\ currentSeals[p] < t.seal
      BY <1>1, <1>3, <2>2, <3>1 DEF Linked, Types
    <3>3. built[m].previous = currentSeals[p] => currentSeals[p] < m
      BY <1>1, <3>1 DEF ChainValid, Linked, Tracked
    <3> QED
      BY <2>3, <2>4, <3>1, <3>2, <3>3
  <2>6. \A m, n \in Tracked(p)' : built'[m].previous = built'[n].previous => m = n
    BY <1>1, <1>4, <2>2, <2>4, <2>5 DEF Serial
  <2>7. \A n \in Tracked(p)' : currentSeals'[p] # None /\ n <= currentSeals'[p]
    BY <2>3, <2>4, <2>5
  <2>8. \A v \in tasks' : v.pair # p
    BY <1>4, <2>1
  <2> QED
    BY <1>4, <2>2, <2>6, <2>7, <2>8 DEF Serial
<1> QED
  BY <1>5, <1>6

\* A lone revocation leaves its pair without a head.
LEMMA SerialRevokes ==
  ASSUME SealInv, SerialInv, NEW t \in tasks, MarkRevoked(t)
  PROVE  SerialInv'
<1> SUFFICES ASSUME NEW p \in Pairs \ overlapped' PROVE Serial(p)'
  BY DEF SerialInv
<1>1. Serial(p) /\ Types
  BY DEF MarkRevoked, Finish, SerialInv, SealInv
<1>2. \A v \in tasks : v.at # "resolve" => v.seal \in DOMAIN built
  BY DEF SealInv, TasksHold, Holds
<1>3. t.pair \in Pairs
  BY DEF SealInv, Types, Tasks
<1>4. /\ currentSeals' = [currentSeals EXCEPT ![t.pair] = None]
      /\ revokedPairs' = revokedPairs \cup {t.pair} /\ tasks' = tasks \ {t}
      /\ UNCHANGED <<sealsById, built>>
  BY DEF MarkRevoked, Finish
<1>5. CASE t.pair # p
  <2>1. currentSeals'[p] = currentSeals[p]
    BY <1>1, <1>3, <1>4, <1>5 DEF Types
  <2> QED
    BY <1>1, <1>2, <1>4, <1>5, <2>1, SerialKept
<1>6. CASE t.pair = p
  <2>1. \A v \in tasks' : v.pair # p
    BY <1>1, <1>4, <1>6 DEF Serial
  <2>2. currentSeals'[p] = None /\ p \in revokedPairs' /\ Tracked(p)' = Tracked(p)
    BY <1>1, <1>3, <1>4, <1>6 DEF Types, Tracked
  <2> QED
    BY <1>1, <1>4, <2>1, <2>2 DEF Serial
<1> QED
  BY <1>5, <1>6

LEMMA StepSerial == SealInv /\ SerialInv /\ [Next]_vars => SerialInv'
<1> SUFFICES ASSUME SealInv, SerialInv, [Next]_vars PROVE SerialInv'
  OBVIOUS
<1>0. \A t \in tasks : t \in Tasks /\ t.pair \in Pairs
  BY DEF SealInv, Types, Tasks
<1>1. ASSUME NEW p \in Pairs, Issue(p) PROVE SerialInv'
  <2>1. PICK t : t = [op |-> "issue", at |-> "resolve", id |-> started, pair |-> p, seal |-> 0]
    OBVIOUS
  <2>2. t \in Tasks /\ t.at = "resolve" /\ Begin(t)
    BY <1>1, <2>1 DEF SealInv, Types, Tasks, Issue
  <2> QED
    BY <1>1, <2>2, SerialBegins DEF Issue
<1>2. ASSUME NEW n \in sealsById, Refresh(n) PROVE SerialInv'
  <2>1. PICK p : p = built[n].pair
    OBVIOUS
  <2>2. PICK t : t = [op |-> "refresh", at |-> "sign", id |-> started, pair |-> p,
                      seal |-> Len(built) + 1]
    OBVIOUS
  <2>3. built[n] \in Seals /\ n \in Nat /\ Len(built) \in Nat /\ Types
    BY DEF SealInv, Types
  <2>4. /\ p \in Pairs /\ built[n].input \in Inputs /\ t \in Tasks
        /\ t.pair = p /\ t.seal = Len(built) + 1
    BY <2>1, <2>2, <2>3 DEF SealInv, Types, Seals, Tasks
  <2>5. /\ currentSeals[p] = n /\ p \notin revokedPairs /\ Begin(t)
        /\ buildSeal(p, built[n].input, n)
        /\ UNCHANGED <<currentSeals, sealsById, revokedPairs>>
    BY <1>2, <2>1, <2>2 DEF Refresh, Refreshable
  <2>6. /\ \A k \in DOMAIN built : built'[k] = built[k]
        /\ built'[Len(built) + 1] = [pair |-> p, input |-> built[n].input, previous |-> n]
    BY <2>3, <2>4, <2>5, Built
  <2>7. built'[t.seal].previous = currentSeals[t.pair]
    BY <2>4, <2>5, <2>6
  <2> QED
    BY <2>4, <2>5, <2>6, <2>7, SerialBegins
<1>3. ASSUME NEW n \in sealsById, Revoke(n) PROVE SerialInv'
  <2>1. PICK t : t = [op |-> "revoke", at |-> "sign", id |-> started, pair |-> built[n].pair,
                      seal |-> n]
    OBVIOUS
  <2>2. n \in Nat /\ built[n] \in Seals
    BY DEF SealInv, Types
  <2>3. t \in Tasks /\ t.op = "revoke" /\ Begin(t)
    BY <1>3, <2>1, <2>2 DEF SealInv, Types, Seals, Tasks, Revoke
  <2> QED
    BY <1>3, <2>3, SerialBegins DEF Revoke
<1>4. ASSUME NEW t \in tasks, NEW input \in Inputs, IssueResolved(t, input) PROVE SerialInv'
  <2>1. t.at = "resolve" /\ t.op = "issue" /\ UNCHANGED <<currentSeals, sealsById, revokedPairs>>
    BY <1>4 DEF IssueResolved
  <2>2. CASE Finish(t) /\ UNCHANGED built
    BY <2>1, <2>2, SerialMoves
  <2>3. CASE /\ ~Refused(t.pair) /\ buildSeal(t.pair, input, currentSeals[t.pair])
             /\ Continue(t, [t EXCEPT !.at = "sign", !.seal = Len(built) + 1])
    <3>1. PICK u : u = [t EXCEPT !.at = "sign", !.seal = Len(built) + 1]
      OBVIOUS
    <3>2. u.pair = t.pair /\ u.seal = Len(built) + 1
      BY <1>0, <3>1 DEF Tasks
    <3>3. currentSeals[t.pair] \in Nat \cup {None} /\ Types
      BY <1>0 DEF SealInv, Types
    <3>4. /\ \A k \in DOMAIN built : built'[k] = built[k]
          /\ built'[Len(built) + 1] =
               [pair |-> t.pair, input |-> input, previous |-> currentSeals[t.pair]]
      BY <1>0, <2>3, <3>3, Built
    <3>5. built'[u.seal].previous = currentSeals[t.pair] /\ t.pair \notin revokedPairs
      BY <2>3, <3>2, <3>4 DEF Refused
    <3>6. Continue(t, u)
      BY <2>3, <3>1
    <3> QED
      BY <2>1, <3>2, <3>4, <3>5, <3>6, SerialMoves
  <2> QED
    BY <1>4, <2>2, <2>3 DEF IssueResolved
<1>5. ASSUME NEW t \in tasks, NEW a \in {"publish", "track"}, t.at # "resolve",
             Continue(t, [t EXCEPT !.at = a]) \/ Finish(t),
             UNCHANGED <<currentSeals, sealsById, revokedPairs, built>>
      PROVE  SerialInv'
  <2>1. PICK u : u = [t EXCEPT !.at = a]
    OBVIOUS
  <2>2. u.pair = t.pair /\ u.op = t.op /\ u.seal = t.seal
    BY <1>0, <2>1 DEF Tasks
  <2>3. t.pair \notin overlapped => (u.op # "revoke" =>
           t.pair \notin revokedPairs /\ built[u.seal].previous = currentSeals[t.pair])
    BY <1>0, <1>5, <2>2 DEF SerialInv, Serial
  <2>4. Continue(t, u) \/ Finish(t)
    BY <1>5, <2>1
  <2> QED
    BY <1>5, <2>2, <2>3, <2>4, SerialMoves
<1>6. ASSUME NEW t \in tasks, Signed(t) \/ Delivered(t) \/ PublishFailed(t) PROVE SerialInv'
  BY <1>5, <1>6 DEF Signed, Delivered, PublishFailed
<1>7. CASE UNCHANGED vars
  BY <1>7 DEF vars, SerialInv, Serial, Tracked
<1> QED
  BY <1>1, <1>2, <1>3, <1>4, <1>6, <1>7, SerialTracks, SerialRevokes DEF Next, Resumes

\* On a pair whose operations never overlapped, whatever failed, the tracked
\* seals form one chain that ends in the current seal, and a revoked pair has
\* none (issue, refresh, revoke of manager.ts).
THEOREM SerialChainsHold == Spec => []SerialChain
<1>1. Init => SerialInv
  BY DEF Init, SerialInv, Serial, Tracked
<1>2. SerialInv => SerialChain
  BY DEF SerialInv, Serial, SerialChain
<1> QED
  BY <1>1, <1>2, SealInvariant, StepSerial, PTL DEF Spec
=============================================================================
