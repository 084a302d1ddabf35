---------------------------- MODULE RoomsProofs ----------------------------
(***************************************************************************)
(* Proofs about who may do what where: the access of harnesses to messages *)
(* (Access), operators, policies and inboxes (Inboxes), and chats with     *)
(* their local ids and purges (Chats).                                     *)
(***************************************************************************)
EXTENDS Inboxes, Chats, Access, FiniteSetTheorems, TLAPS

-----------------------------------------------------------------------------
(* Access: a request acts on a copy of the credential, and remembers what    *)
(* the store said during its life.                                           *)

AccessRequest ==
    [pc : {"free", "frame", "core", "waiting", "recheck", "sending", "sent", "replay", "live",
           "scope", "listing", "token", "body", "target", "done"},
     surface : {"ws", "mcp", "http"}, kind : {"send", "reveal", "confirm", "read", "search"},
     chat : AccessChats \cup {"none"}, facts : SUBSET (AccessScopes \cup {"active"}),
     held : SUBSET (AccessScopes \cup AccessChats), got : SUBSET AccessChats,
     answer : {"none", "ok", "refused", "failed", "timeout", "lost"}]

\* The history of a request under way holds what the store says now.
Witnessed(q, c) ==
    q.pc \notin {"free", "done"} => FactsOf(c, q.kind) \subseteq q.facts /\ q.got = {}

\* What each step of a request has established for the next ones.
Entitled(q) ==
    /\ q.pc = "free" => q.got = {}
    /\ q.pc = "frame" => q.surface = "ws"
    /\ q.pc \in {"core", "waiting", "recheck"} =>
          q.surface = "ws" /\ q.kind = "send" /\ ValidateSend(q.facts, q.chat)
    /\ q.pc = "sending" =>
          /\ q.kind = "send" /\ "active" \in q.facts
          /\ q.surface = "ws" => ValidateSend(q.facts, q.chat)
    /\ q.pc = "sent" => q.kind = "send"
    /\ q.pc = "replay" =>
          /\ q.surface = "ws" /\ q.kind = "reveal"
          /\ "active" \in q.facts /\ q.held \subseteq q.facts
    /\ q.pc = "live" => q.surface = "mcp" /\ q.kind # "confirm"
    /\ q.pc = "scope" =>
          q.surface = "mcp" /\ q.kind \in {"read", "search"} /\ "active" \in q.facts
    /\ q.pc = "listing" =>
          /\ q.surface = "mcp" /\ q.kind \in {"read", "search"}
          /\ {"active", "read-messages"} \subseteq q.facts
          /\ q.kind = "read" => q.chat \in ScopedChats
          /\ q.kind = "search" => q.held \subseteq ScopedChats
    /\ q.pc \in {"token", "body"} => q.kind = "reveal" /\ q.surface = "http"
    /\ q.pc = "target" => q.kind = "reveal"

\* Content was read with a permission the store gave during the request.
MayHaveGot(q) ==
    q.got # {} =>
        /\ q.got \subseteq ScopedChats /\ "active" \in q.facts
        /\ (IF q.surface = "ws" THEN "read-history" ELSE "read-messages") \in q.facts

MayHaveSent(s) ==
    /\ "active" \in s.facts
    /\ s.surface = "ws" => s.chat \in ScopedChats /\ "send" \in s.facts

\* A request under way was answered by its timer or by nobody.
Early(q) == q.pc # "done" => q.answer \in {"none", "timeout", "lost"}

\* The message of a send is out when the client reports it, and when its caller
\* was told so.
Claims(q) == q.pc = "sent" \/ (q.kind = "send" /\ q.answer = "ok")
Delivered(q, r) == Claims(q) => \E s \in asent : s.req = r

\* A request whose message is out is not turned down any more.
Committed(q) == q.pc \in {"sent", "done"} /\ q.answer # "refused"

AccessInv ==
    /\ acred \in AccessCreds
    /\ areq \in [AccessRequests -> AccessRequest]
    /\ \A r \in AccessRequests : Witnessed(areq[r], acred) /\ Entitled(areq[r])
    /\ \A r \in AccessRequests :
          MayHaveGot(areq[r]) /\ Early(areq[r]) /\ Delivered(areq[r], r)
    /\ \A s \in asent :
          MayHaveSent(s) /\ s.req \in AccessRequests /\ Committed(areq[s.req])

LEMMA AccessInitially == AccessInit => AccessInv
BY DEF AccessInit, AccessInv, AccessCreds, AccessRequest, Free, Witnessed, Entitled, MayHaveGot,
   Early, Claims, Delivered

\* A step of one request that hands nothing to the network.
LEMMA MoveRequest ==
  ASSUME AccessInv, NEW r \in AccessRequests, areq[r].pc \notin {"sent", "done"},
         NEW q \in AccessRequest, areq' = [areq EXCEPT ![r] = q], UNCHANGED <<acred, asent>>,
         Witnessed(q, acred), Entitled(q), MayHaveGot(q), Early(q), ~Claims(q)
  PROVE  AccessInv'
<1>1. areq' \in [AccessRequests -> AccessRequest]
  BY DEF AccessInv
<1>2. areq'[r] = q /\ \A b \in AccessRequests : b # r => areq'[b] = areq[b]
  BY DEF AccessInv
<1>3. \A b \in AccessRequests : /\ Witnessed(areq'[b], acred) /\ Entitled(areq'[b])
                                /\ MayHaveGot(areq'[b]) /\ Early(areq'[b])
                                /\ Delivered(areq'[b], b)
  BY <1>2 DEF AccessInv, Delivered
<1>4. \A s \in asent : s.req # r
  BY DEF AccessInv, Committed
<1>5. \A b \in AccessRequests : Delivered(areq[b], b)'
  BY <1>3 DEF Delivered
<1> QED
  BY <1>1, <1>2, <1>3, <1>4, <1>5 DEF AccessInv

\* A step of one request that may have its message out already: it keeps to
\* what it has done.
LEMMA FinishRequest ==
  ASSUME AccessInv, NEW r \in AccessRequests, NEW q \in AccessRequest,
         areq' = [areq EXCEPT ![r] = q], UNCHANGED <<acred, asent>>,
         Witnessed(q, acred), Entitled(q), MayHaveGot(q), Early(q),
         Claims(q) => Claims(areq[r]), Committed(areq[r]) => Committed(q)
  PROVE  AccessInv'
<1>1. areq' \in [AccessRequests -> AccessRequest]
  BY DEF AccessInv
<1>2. areq'[r] = q /\ \A b \in AccessRequests : b # r => areq'[b] = areq[b]
  BY DEF AccessInv
<1>3. \A b \in AccessRequests : /\ Witnessed(areq'[b], acred) /\ Entitled(areq'[b])
                                /\ MayHaveGot(areq'[b]) /\ Early(areq'[b])
                                /\ Delivered(areq'[b], b)
  BY <1>2 DEF AccessInv, Delivered
<1>4. \A s \in asent : Committed(areq'[s.req])
  BY <1>2 DEF AccessInv
<1>5. \A b \in AccessRequests : Delivered(areq[b], b)'
  BY <1>3 DEF Delivered
<1> QED
  BY <1>1, <1>3, <1>4, <1>5 DEF AccessInv

\* An answer, by its fields.
LEMMA AnsweredFields ==
  ASSUME NEW q \in AccessRequest, NEW answer \in {"ok", "refused", "failed"},
         NEW got \in SUBSET AccessChats
  PROVE  LET a == Answered(q, answer, got)
         IN  /\ a \in AccessRequest /\ a.pc = "done" /\ a.got = got
             /\ a.answer = (IF q.answer = "none" THEN answer ELSE q.answer)
             /\ a.kind = q.kind /\ a.surface = q.surface
             /\ a.facts = IF got = {} THEN {} ELSE q.facts
<1> DEFINE facts == IF got = {} THEN {} ELSE q.facts
           heard == IF q.answer = "none" THEN answer ELSE q.answer
           a == [q EXCEPT !.pc = "done", !.answer = heard, !.got = got, !.held = {},
                          !.chat = "none", !.facts = facts]
<1>1. Answered(q, answer, got) = a
  BY DEF Answered, AccessRequest
<1>2. /\ facts \in SUBSET (AccessScopes \cup {"active"})
      /\ heard \in {"none", "ok", "refused", "failed", "timeout", "lost"}
  BY DEF AccessRequest
<1> HIDE DEF facts, heard
<1>3. /\ a \in AccessRequest /\ a.pc = "done" /\ a.answer = heard /\ a.got = got
      /\ a.kind = q.kind /\ a.surface = q.surface /\ a.facts = facts
  <2>1. /\ a.pc = "done" /\ a.answer = heard /\ a.got = got
        /\ a.kind = q.kind /\ a.surface = q.surface /\ a.facts = facts
    BY DEF AccessRequest
  <2>2. ASSUME NEW h \in {"none", "ok", "refused", "failed", "timeout", "lost"},
               NEW f \in SUBSET (AccessScopes \cup {"active"})
        PROVE  [q EXCEPT !.pc = "done", !.answer = h, !.got = got, !.held = {},
                         !.chat = "none", !.facts = f] \in AccessRequest
    BY DEF AccessRequest
  <2>3. a \in AccessRequest
    BY <1>2, <2>2, Zenon
  <2> QED
    BY <2>1, <2>3
<1> HIDE DEF a
<1>4. /\ a.answer = (IF q.answer = "none" THEN answer ELSE q.answer)
      /\ a.facts = (IF got = {} THEN {} ELSE q.facts)
  BY <1>3 DEF facts, heard
<1> QED
  BY <1>1, <1>3, <1>4

\* An answer whose content the request was entitled to.
LEMMA AnsweredContent ==
  ASSUME NEW q \in AccessRequest, NEW answer \in {"ok", "refused", "failed"},
         NEW got \in SUBSET AccessChats, NEW c,
         got # {} => /\ got \subseteq ScopedChats /\ "active" \in q.facts
                     /\ (IF q.surface = "ws" THEN "read-history" ELSE "read-messages") \in q.facts
  PROVE  LET a == Answered(q, answer, got)
         IN  /\ a \in AccessRequest /\ Witnessed(a, c) /\ Entitled(a) /\ MayHaveGot(a) /\ Early(a)
             /\ a.kind = q.kind /\ a.pc = "done"
             /\ a.answer = IF q.answer = "none" THEN answer ELSE q.answer
<1> DEFINE a == Answered(q, answer, got)
<1>1. /\ a \in AccessRequest /\ a.pc = "done" /\ a.got = got
      /\ a.answer = (IF q.answer = "none" THEN answer ELSE q.answer)
      /\ a.kind = q.kind /\ a.surface = q.surface
      /\ a.facts = IF got = {} THEN {} ELSE q.facts
  BY AnsweredFields
<1> HIDE DEF a
<1>2. Witnessed(a, c) /\ Entitled(a) /\ Early(a)
  BY <1>1 DEF Witnessed, Entitled, Early
<1>3. MayHaveGot(a)
  BY <1>1 DEF MayHaveGot
<1> QED
  BY <1>1, <1>2, <1>3 DEF a

LEMMA AnsweredPlain ==
  ASSUME NEW q \in AccessRequest, NEW answer \in {"ok", "refused", "failed"}, NEW c
  PROVE  LET a == Answered(q, answer, {})
         IN  /\ a \in AccessRequest /\ Witnessed(a, c) /\ Entitled(a) /\ MayHaveGot(a) /\ Early(a)
             /\ a.kind = q.kind /\ a.pc = "done"
             /\ a.answer = IF q.answer = "none" THEN answer ELSE q.answer
BY AnsweredContent

\* An answer that is not "ok", of a request whose message is not out.
LEMMA DeniedStep ==
  ASSUME AccessInv, NEW r \in AccessRequests, areq[r].pc \notin {"sent", "done"},
         NEW answer \in {"refused", "failed"}, Reply(r, answer, {}), UNCHANGED <<acred, asent>>
  PROVE  AccessInv'
<1> DEFINE q == Answered(areq[r], answer, {})
<1>1. areq[r] \in AccessRequest /\ Early(areq[r])
  BY DEF AccessInv
<1>2. /\ q \in AccessRequest /\ Witnessed(q, acred) /\ Entitled(q) /\ MayHaveGot(q) /\ Early(q)
      /\ q.pc = "done" /\ q.answer = IF areq[r].answer = "none" THEN answer ELSE areq[r].answer
  <2>1. answer \in {"ok", "refused", "failed"}
    OBVIOUS
  <2> QED
    BY <1>1, <2>1, AnsweredPlain
<1>3. areq' = [areq EXCEPT ![r] = q]
  BY DEF Reply
<1> HIDE DEF q
<1>4. ~Claims(q)
  BY <1>1, <1>2 DEF Claims, Early
<1> QED
  BY <1>2, <1>3, <1>4, MoveRequest

LEMMA FailStep ==
  ASSUME AccessInv, NEW r \in AccessRequests, areq[r].pc \notin {"sent", "done"}, Fail(r),
         UNCHANGED <<acred, asent>>
  PROVE  AccessInv'
BY DeniedStep DEF Fail

\* What a request that goes on with step pc must have established.
LEMMA AdvanceStep ==
  ASSUME AccessInv, NEW r \in AccessRequests, areq[r].pc \notin {"free", "sent", "done"},
         NEW pc \in {"core", "waiting", "sending", "scope", "listing", "body", "target"},
         Advance(r, pc), UNCHANGED <<acred, asent>>,
         \A e \in AccessRequest :
            /\ e.pc = pc /\ e.surface = areq[r].surface /\ e.kind = areq[r].kind
            /\ e.chat = areq[r].chat /\ e.facts = areq[r].facts /\ e.held = areq[r].held
            => Entitled(e)
  PROVE  AccessInv'
<1> DEFINE e == [areq[r] EXCEPT !.pc = pc]
<1>1. areq' = [areq EXCEPT ![r] = e]
  BY DEF Advance
<1>2. areq[r] \in AccessRequest /\ Witnessed(areq[r], acred) /\ Early(areq[r])
  BY DEF AccessInv
<1>3. /\ e \in AccessRequest /\ e.pc = pc /\ e.surface = areq[r].surface
      /\ e.kind = areq[r].kind /\ e.chat = areq[r].chat /\ e.facts = areq[r].facts
      /\ e.held = areq[r].held /\ e.got = areq[r].got /\ e.answer = areq[r].answer
  BY <1>2 DEF AccessRequest
<1> HIDE DEF e
<1>4. Entitled(e)
  BY <1>3
<1>5. Witnessed(e, acred) /\ MayHaveGot(e) /\ Early(e) /\ ~Claims(e)
  BY <1>2, <1>3 DEF Witnessed, MayHaveGot, Early, Claims
<1> QED
  BY <1>1, <1>3, <1>4, <1>5, MoveRequest

LEMMA ArrivesStep ==
  ASSUME AccessInv, NEW r \in AccessRequests, NEW chat \in AccessChats,
         \/ \E k \in AccessKinds.ws : WsRequest(r, k, chat)
         \/ \E k \in AccessKinds.mcp : McpCall(r, k, chat)
         \/ \E k \in AccessKinds.http : HttpRequest(r, k, chat)
  PROVE  AccessInv'
<1>1. PICK surface \in {"ws", "mcp", "http"}, pc \in {"frame", "live", "token"},
           kind \in {"send", "reveal", "confirm", "read", "search"} :
        /\ Arrives(r, surface, kind, chat, pc)
        /\ pc = "frame" => surface = "ws"
        /\ pc = "live" => surface = "mcp" /\ kind # "confirm"
        /\ pc = "token" => surface = "http" /\ kind = "reveal"
  BY DEF AccessKinds, WsRequest, McpCall, HttpRequest
<1> DEFINE q == [Free EXCEPT !.pc = pc, !.surface = surface, !.kind = kind,
                             !.chat = chat, !.facts = FactsOf(acred, kind)]
<1>2. areq[r].pc = "free" /\ areq' = [areq EXCEPT ![r] = q] /\ UNCHANGED <<acred, asent>>
  BY <1>1 DEF Arrives
<1>3. FactsOf(acred, kind) \in SUBSET (AccessScopes \cup {"active"})
  BY DEF AccessInv, FactsOf, AccessCreds
<1>4. /\ q \in AccessRequest /\ q.pc = pc /\ q.surface = surface /\ q.kind = kind
      /\ q.facts = FactsOf(acred, kind) /\ q.got = {} /\ q.answer = "none"
  BY <1>3 DEF Free, AccessRequest
<1> HIDE DEF q
<1>5. Witnessed(q, acred) /\ Entitled(q) /\ MayHaveGot(q) /\ Early(q) /\ ~Claims(q)
  BY <1>1, <1>4 DEF Witnessed, Entitled, MayHaveGot, Early, Claims
<1> QED
  BY <1>2, <1>4, <1>5, MoveRequest

\* Facts about a request that is under way.
LEMMA UnderWay ==
  ASSUME AccessInv, NEW r \in AccessRequests, areq[r].pc \notin {"free", "done"}
  PROVE  /\ areq[r] \in AccessRequest /\ Entitled(areq[r]) /\ areq[r].got = {}
         /\ areq[r].answer \in {"none", "timeout", "lost"}
         /\ acred.scopes \cap {ScopeFor[areq[r].kind]} \subseteq areq[r].facts
         /\ acred.status = "active" => "active" \in areq[r].facts
<1>1. /\ FactsOf(acred, areq[r].kind) \subseteq areq[r].facts /\ areq[r].got = {}
      /\ areq[r].answer \in {"none", "timeout", "lost"}
  BY DEF AccessInv, Witnessed, Early
<1> QED
  BY <1>1 DEF AccessInv, FactsOf

LEMMA DispatchStep ==
  ASSUME AccessInv, NEW r \in AccessRequests, Dispatch(r) PROVE AccessInv'
<1>1. /\ areq[r].pc = "frame" /\ areq[r].surface = "ws"
      /\ areq[r].pc \notin {"free", "sent", "done"}
      /\ UNCHANGED <<acred, asent>>
  BY DEF Dispatch, ReqAt
<1>2. /\ areq[r] \in AccessRequest /\ areq[r].got = {}
      /\ acred.scopes \cap {ScopeFor[areq[r].kind]} \subseteq areq[r].facts
      /\ areq[r].answer \in {"none", "timeout", "lost"}
      /\ acred.status = "active" => "active" \in areq[r].facts
  BY <1>1, UnderWay
<1>3. CASE Fail(r)
  BY <1>1, <1>3, FailStep
<1>4. CASE /\ areq[r].kind = "send" /\ ValidateSend(acred.scopes, areq[r].chat)
           /\ Advance(r, "core")
  <2>1. ValidateSend(areq[r].facts, areq[r].chat)
    BY <1>2, <1>4 DEF ValidateSend, ScopeFor
  <2> QED
    BY <1>1, <1>4, <2>1, AdvanceStep DEF Entitled
<1>5. CASE /\ StillActive /\ areq[r].kind = "reveal"
           /\ areq' = [areq EXCEPT ![r].pc = "replay",
                                   ![r].held = acred.scopes \cap {ScopeFor.reveal}]
  <2> DEFINE copy == acred.scopes \cap {ScopeFor.reveal}
             q == [areq[r] EXCEPT !.pc = "replay", !.held = copy]
  <2>1. areq' = [areq EXCEPT ![r] = q]
    BY <1>5 DEF AccessInv
  <2>2. copy \subseteq AccessScopes /\ copy \subseteq areq[r].facts
    BY <1>2, <1>5 DEF AccessInv, AccessCreds, ScopeFor
  <2> HIDE DEF copy
  <2>3. /\ q \in AccessRequest /\ q.pc = "replay" /\ q.held = copy
        /\ q.facts = areq[r].facts /\ q.got = {} /\ q.surface = "ws" /\ q.kind = "reveal"
        /\ q.answer = areq[r].answer
    BY <1>1, <1>2, <1>5, <2>2 DEF AccessRequest
  <2> HIDE DEF q
  <2>4. Entitled(q) /\ MayHaveGot(q) /\ Early(q) /\ ~Claims(q)
    BY <1>2, <1>5, <2>2, <2>3 DEF Entitled, MayHaveGot, StillActive, Early, Claims
  <2>5. Witnessed(q, acred)
    BY <1>1, <1>5, <2>3 DEF Witnessed, AccessInv
  <2> QED
    BY <1>1, <2>1, <2>3, <2>4, <2>5, MoveRequest
<1> QED
  BY <1>3, <1>4, <1>5 DEF Dispatch

\* The request that finds the core ready, or waited for it.
LEMMA ReadyFields ==
  ASSUME AccessInv, NEW r \in AccessRequests, areq[r].pc \in {"core", "waiting"}
  PROVE  LET q == Ready(areq[r])
         IN  /\ q \in AccessRequest /\ Witnessed(q, acred) /\ Entitled(q) /\ MayHaveGot(q)
             /\ Early(q) /\ ~Claims(q)
<1> DEFINE facts == (areq[r].facts \ {"active"}) \cup FactsOf(acred, areq[r].kind)
           q == [areq[r] EXCEPT !.pc = "recheck", !.facts = facts]
<1>0. /\ areq[r] \in AccessRequest /\ Entitled(areq[r]) /\ areq[r].got = {}
      /\ areq[r].answer \in {"none", "timeout", "lost"}
  BY UnderWay
<1>1. Ready(areq[r]) = q
  BY DEF Ready
<1>2. facts \in SUBSET (AccessScopes \cup {"active"})
  BY <1>0 DEF AccessInv, AccessRequest, FactsOf, AccessCreds
<1>3. FactsOf(acred, areq[r].kind) \subseteq facts /\ ("send" \in areq[r].facts => "send" \in facts)
  OBVIOUS
<1> HIDE DEF facts
<1>4. /\ q \in AccessRequest /\ q.pc = "recheck" /\ q.facts = facts /\ q.got = {}
      /\ q.surface = areq[r].surface /\ q.kind = areq[r].kind /\ q.chat = areq[r].chat
      /\ q.answer = areq[r].answer
  BY <1>0, <1>2 DEF AccessRequest
<1> HIDE DEF q
<1>5. Witnessed(q, acred) /\ MayHaveGot(q) /\ Early(q) /\ ~Claims(q)
  BY <1>0, <1>3, <1>4 DEF Witnessed, MayHaveGot, Early, Claims
<1>6. Entitled(q)
  BY <1>0, <1>3, <1>4 DEF Entitled, ValidateSend
<1> QED
  BY <1>1, <1>4, <1>5, <1>6

LEMMA EnsureCoreReadyStep ==
  ASSUME AccessInv, NEW r \in AccessRequests, EnsureCoreReady(r) PROVE AccessInv'
<1>1. /\ areq[r].pc = "core" /\ areq[r].pc \notin {"free", "sent", "done"}
      /\ UNCHANGED <<acred, asent>>
  BY DEF EnsureCoreReady, ReqAt
<1>2. CASE areq' = [areq EXCEPT ![r] = Ready(areq[r])]
  <2> DEFINE q == Ready(areq[r])
  <2>1. q \in AccessRequest /\ Witnessed(q, acred) /\ Entitled(q) /\ MayHaveGot(q)
        /\ Early(q) /\ ~Claims(q)
    BY <1>1, ReadyFields
  <2> HIDE DEF q
  <2>2. areq' = [areq EXCEPT ![r] = q]
    BY <1>2 DEF q
  <2> QED
    BY <1>1, <2>1, <2>2, MoveRequest
<1>3. CASE Advance(r, "waiting")
  <2>1. Entitled(areq[r])
    BY <1>1, UnderWay
  <2> QED
    BY <1>1, <1>3, <2>1, AdvanceStep DEF Entitled
<1>4. CASE Fail(r)
  BY <1>1, <1>4, FailStep
<1> QED
  BY <1>2, <1>3, <1>4 DEF EnsureCoreReady

LEMMA UpgradeSettlesStep ==
  ASSUME AccessInv, NEW ok \in BOOLEAN, UpgradeSettles(ok) PROVE AccessInv'
<1>1. /\ UNCHANGED <<acred, asent>>
      /\ areq' = [r \in AccessRequests |->
           IF areq[r].pc # "waiting" THEN areq[r]
           ELSE IF ok THEN Ready(areq[r])
           ELSE Answered(areq[r], "refused", {})]
  BY DEF UpgradeSettles
<1>2. ASSUME NEW r \in AccessRequests
      PROVE  /\ areq'[r] \in AccessRequest /\ Witnessed(areq'[r], acred) /\ Entitled(areq'[r])
             /\ MayHaveGot(areq'[r]) /\ Early(areq'[r]) /\ Delivered(areq'[r], r)
             /\ Committed(areq[r]) => Committed(areq'[r])
  <2>0. areq[r] \in AccessRequest /\ Early(areq[r])
    BY DEF AccessInv
  <2>1. CASE areq[r].pc # "waiting"
    <3>1. areq'[r] = areq[r]
      BY <1>1, <2>1
    <3> QED
      BY <3>1 DEF AccessInv
  <2>2. CASE areq[r].pc = "waiting" /\ ok
    <3> DEFINE q == Ready(areq[r])
    <3>1. areq'[r] = q
      BY <1>1, <2>2
    <3>2. q \in AccessRequest /\ Witnessed(q, acred) /\ Entitled(q) /\ MayHaveGot(q)
          /\ Early(q) /\ ~Claims(q)
      BY <2>2, ReadyFields
    <3> HIDE DEF q
    <3> QED
      BY <2>2, <3>1, <3>2 DEF Delivered, Committed
  <2>3. CASE areq[r].pc = "waiting" /\ ~ok
    <3> DEFINE q == Answered(areq[r], "refused", {})
    <3>1. areq'[r] = q
      BY <1>1, <2>3
    <3>2. /\ q \in AccessRequest /\ Witnessed(q, acred) /\ Entitled(q) /\ MayHaveGot(q)
          /\ Early(q) /\ q.pc = "done"
          /\ q.answer = IF areq[r].answer = "none" THEN "refused" ELSE areq[r].answer
      BY <2>0, AnsweredPlain
    <3> HIDE DEF q
    <3>3. ~Claims(q)
      BY <2>0, <2>3, <3>2 DEF Claims, Early
    <3> QED
      BY <2>3, <3>1, <3>2, <3>3 DEF Delivered, Committed
  <2> QED
    BY <2>1, <2>2, <2>3
<1>3. areq' \in [AccessRequests -> AccessRequest]
  BY <1>1, <1>2
<1>4. \A r \in AccessRequests : Delivered(areq[r], r)'
  BY <1>1, <1>2 DEF Delivered
<1>5. \A s \in asent : Committed(areq'[s.req])
  BY <1>2 DEF AccessInv
<1> QED
  BY <1>1, <1>2, <1>3, <1>4, <1>5 DEF AccessInv

LEMMA RecheckStep ==
  ASSUME AccessInv, NEW r \in AccessRequests, Recheck(r) PROVE AccessInv'
<1>1. /\ areq[r].pc = "recheck" /\ areq[r].pc \notin {"free", "sent", "done"}
      /\ UNCHANGED <<acred, asent>>
  BY DEF Recheck, ReqAt
<1>2. Entitled(areq[r]) /\ (acred.status = "active" => "active" \in areq[r].facts)
  BY <1>1, UnderWay
<1>3. CASE StillActive /\ Advance(r, "sending")
  BY <1>1, <1>2, <1>3, AdvanceStep DEF Entitled, StillActive
<1>4. CASE Fail(r)
  BY <1>1, <1>4, FailStep
<1> QED
  BY <1>3, <1>4 DEF Recheck

\* The network takes the message: its request goes on, answered or not.
LEMMA DeliversStep ==
  ASSUME AccessInv, NEW r \in AccessRequests, Delivers(r) PROVE AccessInv'
<1> DEFINE q == [areq[r] EXCEPT !.pc = "sent"]
           m == [req |-> r, surface |-> areq[r].surface, chat |-> areq[r].chat,
                 facts |-> areq[r].facts]
<1>1. /\ areq[r].pc = "sending" /\ areq[r].pc \notin {"free", "done"} /\ UNCHANGED acred
      /\ asent' = asent \cup {m} /\ areq' = [areq EXCEPT ![r] = q]
  BY DEF Delivers, Advance
<1>2. /\ areq[r] \in AccessRequest /\ Entitled(areq[r]) /\ areq[r].got = {}
      /\ areq[r].answer \in {"none", "timeout", "lost"}
  BY <1>1, UnderWay
<1>3. /\ q \in AccessRequest /\ q.pc = "sent" /\ q.kind = areq[r].kind
      /\ q.facts = areq[r].facts /\ q.got = areq[r].got /\ q.answer = areq[r].answer
  BY <1>2 DEF AccessRequest
<1>4. m.req = r /\ MayHaveSent(m)
  BY <1>1, <1>2 DEF Entitled, MayHaveSent, ValidateSend
<1> HIDE DEF q, m
<1>5. Witnessed(q, acred) /\ Entitled(q) /\ MayHaveGot(q) /\ Early(q) /\ Committed(q)
  BY <1>1, <1>2, <1>3 DEF AccessInv, Witnessed, Entitled, MayHaveGot, Early, Committed
<1>6. areq' \in [AccessRequests -> AccessRequest]
  BY <1>1, <1>3 DEF AccessInv
<1>7. areq'[r] = q /\ \A b \in AccessRequests : b # r => areq'[b] = areq[b]
  BY <1>1 DEF AccessInv
<1>8. \A b \in AccessRequests : /\ Witnessed(areq'[b], acred) /\ Entitled(areq'[b])
                                /\ MayHaveGot(areq'[b]) /\ Early(areq'[b])
  BY <1>5, <1>7 DEF AccessInv
<1>9. \A b \in AccessRequests : Delivered(areq[b], b)'
  <2>1. Delivered(areq[r], r)'
    BY <1>1, <1>4 DEF Delivered
  <2>2. ASSUME NEW b \in AccessRequests, b # r PROVE Delivered(areq[b], b)'
    BY <1>1, <1>7, <2>2 DEF Delivered, AccessInv
  <2> QED
    BY <2>1, <2>2
<1>10. \A s \in asent' :
          MayHaveSent(s) /\ s.req \in AccessRequests /\ Committed(areq'[s.req])
  BY <1>1, <1>4, <1>5, <1>7 DEF AccessInv
<1> QED
  BY <1>1, <1>6, <1>8, <1>9, <1>10 DEF AccessInv

\* The client reports a message that is out as sent, or as failed.
LEMMA ReportedStep ==
  ASSUME AccessInv, NEW r \in AccessRequests, areq[r].pc = "sent",
         NEW answer \in {"ok", "failed"}, Reply(r, answer, {}), UNCHANGED <<acred, asent>>
  PROVE  AccessInv'
<1> DEFINE q == Answered(areq[r], answer, {})
<1>1. areq[r] \in AccessRequest
  BY DEF AccessInv
<1>2. /\ q \in AccessRequest /\ Witnessed(q, acred) /\ Entitled(q) /\ MayHaveGot(q) /\ Early(q)
      /\ q.pc = "done" /\ q.answer = IF areq[r].answer = "none" THEN answer ELSE areq[r].answer
  <2>1. answer \in {"ok", "refused", "failed"}
    OBVIOUS
  <2> QED
    BY <1>1, <2>1, AnsweredPlain
<1>3. areq' = [areq EXCEPT ![r] = q]
  BY DEF Reply
<1> HIDE DEF q
<1>4. Claims(areq[r]) /\ (Committed(areq[r]) => Committed(q))
  BY <1>2 DEF Claims, Committed
<1> QED
  BY <1>2, <1>3, <1>4, FinishRequest

LEMMA SendFailsStep ==
  ASSUME AccessInv, NEW r \in AccessRequests, SendFails(r) PROVE AccessInv'
<1>1. areq[r].pc \in {"sending", "sent"} /\ UNCHANGED <<acred, asent>>
  BY DEF SendFails
<1>2. CASE areq[r].pc = "sending" /\ Fail(r)
  BY <1>1, <1>2, FailStep
<1>3. CASE areq[r].pc = "sending" /\ Reply(r, "failed", {})
  BY <1>1, <1>3, DeniedStep
<1>4. CASE areq[r].pc = "sent" /\ Reply(r, "failed", {})
  BY <1>1, <1>4, ReportedStep
<1> QED
  BY <1>1, <1>2, <1>3, <1>4 DEF SendFails

\* The timer answers, or nobody does any more; the handler stays where it is.
LEMMA AnsweredEarlyStep ==
  ASSUME AccessInv, NEW r \in AccessRequests, RequestTimesOut(r) \/ SocketCloses(r)
  PROVE  AccessInv'
<1>1. PICK answer \in {"timeout", "lost"} : AnsweredEarly(r, answer)
  BY DEF RequestTimesOut, SocketCloses
<1>2. areq[r].pc \notin {"free", "done"} /\ UNCHANGED <<acred, asent>>
  BY <1>1 DEF RequestTimesOut, SocketCloses, AnsweredEarly, Dispatched
<1> DEFINE q == [areq[r] EXCEPT !.answer = answer]
<1>3. areq' = [areq EXCEPT ![r] = q]
  BY <1>1 DEF AnsweredEarly
<1>4. areq[r] \in AccessRequest /\ Witnessed(areq[r], acred) /\ Entitled(areq[r])
      /\ MayHaveGot(areq[r])
  BY DEF AccessInv
<1>5. /\ q \in AccessRequest /\ q.pc = areq[r].pc /\ q.surface = areq[r].surface
      /\ q.kind = areq[r].kind /\ q.chat = areq[r].chat /\ q.facts = areq[r].facts
      /\ q.held = areq[r].held /\ q.got = areq[r].got /\ q.answer = answer
  BY <1>4 DEF AccessRequest
<1> HIDE DEF q
<1>6. Witnessed(q, acred) /\ MayHaveGot(q)
  BY <1>4, <1>5 DEF Witnessed, MayHaveGot
<1>7. Entitled(q)
  BY <1>4, <1>5 DEF Entitled
<1>8. Early(q) /\ (Claims(q) => Claims(areq[r])) /\ (Committed(areq[r]) => Committed(q))
  BY <1>5 DEF Early, Claims, Committed
<1> QED
  BY <1>2, <1>3, <1>5, <1>6, <1>7, <1>8, FinishRequest

\* An answer of a request that is not a send.
LEMMA ReplyStep ==
  ASSUME AccessInv, NEW r \in AccessRequests, areq[r].pc \notin {"sent", "done"},
         NEW got \in SUBSET AccessChats, Reply(r, "ok", got), areq[r].kind # "send",
         UNCHANGED <<acred, asent>>,
         got # {} => /\ got \subseteq ScopedChats /\ "active" \in areq[r].facts
                     /\ (IF areq[r].surface = "ws" THEN "read-history" ELSE "read-messages")
                          \in areq[r].facts
  PROVE  AccessInv'
<1> DEFINE q == Answered(areq[r], "ok", got)
<1>1. areq[r] \in AccessRequest
  BY DEF AccessInv
<1>2. q \in AccessRequest /\ Witnessed(q, acred) /\ Entitled(q) /\ MayHaveGot(q)
      /\ Early(q) /\ q.kind = areq[r].kind /\ q.pc = "done"
  BY <1>1, AnsweredContent
<1>3. areq' = [areq EXCEPT ![r] = q]
  BY DEF Reply
<1> HIDE DEF q
<1>4. ~Claims(q)
  BY <1>2 DEF Claims
<1> QED
  BY <1>2, <1>3, <1>4, MoveRequest

LEMMA ReplayStep ==
  ASSUME AccessInv, NEW r \in AccessRequests, Replay(r) PROVE AccessInv'
<1>1. /\ areq[r].pc = "replay" /\ areq[r].pc \notin {"free", "sent", "done"}
      /\ UNCHANGED <<acred, asent>>
  BY DEF Replay, ReqAt
<1>2. /\ areq[r] \in AccessRequest /\ areq[r].kind = "reveal" /\ areq[r].surface = "ws"
      /\ "active" \in areq[r].facts /\ areq[r].held \subseteq areq[r].facts
  BY <1>1, UnderWay DEF Entitled
<1>3. CASE Reply(r, "ok", {})
  BY <1>1, <1>2, <1>3, ReplyStep
<1>4. CASE ProjectsRevealed(areq[r].held, areq[r].chat) /\ Reply(r, "ok", {areq[r].chat})
  <2> DEFINE got == {areq[r].chat}
  <2>1. got \subseteq ScopedChats /\ "read-history" \in areq[r].facts
    BY <1>2, <1>4 DEF ProjectsRevealed
  <2>2. got \in SUBSET AccessChats
    BY <2>1, AccessAssumption
  <2>3. Reply(r, "ok", got)
    BY <1>4
  <2> HIDE DEF got
  <2> QED
    BY <1>1, <1>2, <2>1, <2>2, <2>3, ReplyStep
<1> QED
  BY <1>3, <1>4 DEF Replay

LEMMA McpLiveStep ==
  ASSUME AccessInv, NEW r \in AccessRequests, McpLive(r) PROVE AccessInv'
<1>1. /\ areq[r].pc = "live" /\ areq[r].surface = "mcp"
      /\ areq[r].pc \notin {"free", "sent", "done"}
      /\ UNCHANGED <<acred, asent>>
  BY DEF McpLive, ReqAt
<1>2. /\ acred.status = "active" => "active" \in areq[r].facts
      /\ areq[r].kind \in {"send", "read", "search", "reveal"}
  BY <1>1, UnderWay DEF Entitled, AccessRequest
<1>3. CASE Fail(r)
  BY <1>1, <1>3, FailStep
<1>4. CASE StillActive /\ areq[r].kind = "send" /\ Advance(r, "sending")
  BY <1>1, <1>2, <1>4, AdvanceStep DEF Entitled, StillActive
<1>5. CASE StillActive /\ areq[r].kind \in {"read", "search"} /\ Advance(r, "scope")
  BY <1>1, <1>2, <1>5, AdvanceStep DEF Entitled, StillActive
<1>6. CASE StillActive /\ areq[r].kind = "reveal" /\ Advance(r, "target")
  BY <1>1, <1>6, AdvanceStep DEF Entitled
<1> QED
  BY <1>2, <1>3, <1>4, <1>5, <1>6 DEF McpLive

LEMMA ReadScopeStep ==
  ASSUME AccessInv, NEW r \in AccessRequests, ReadScope(r) PROVE AccessInv'
<1>1. /\ areq[r].pc = "scope" /\ areq[r].kind = "read" /\ areq[r].pc \notin {"free", "sent", "done"}
      /\ areq[r].surface = "mcp" /\ UNCHANGED <<acred, asent>>
  BY DEF ReadScope, ReqAt
<1>2. /\ "active" \in areq[r].facts
      /\ "read-messages" \in acred.scopes => "read-messages" \in areq[r].facts
  BY <1>1, UnderWay DEF Entitled, ScopeFor
<1>3. CASE MayRead(areq[r].chat) /\ Advance(r, "listing")
  <2>1. areq[r].chat \in ScopedChats /\ "read-messages" \in areq[r].facts
    BY <1>2, <1>3 DEF MayRead
  <2> QED
    BY <1>1, <1>2, <1>3, <2>1, AdvanceStep DEF Entitled
<1>4. CASE Fail(r)
  BY <1>1, <1>4, FailStep
<1> QED
  BY <1>3, <1>4 DEF ReadScope

LEMMA SearchScopeStep ==
  ASSUME AccessInv, NEW r \in AccessRequests, SearchScope(r) PROVE AccessInv'
<1>1. /\ areq[r].pc = "scope" /\ areq[r].kind = "search"
      /\ areq[r].pc \notin {"free", "sent", "done"}
      /\ areq[r].surface = "mcp" /\ UNCHANGED <<acred, asent>>
  BY DEF SearchScope, ReqAt
<1>2. /\ "active" \in areq[r].facts
      /\ "read-messages" \in acred.scopes => "read-messages" \in areq[r].facts
      /\ areq[r] \in AccessRequest /\ areq[r].got = {}
      /\ areq[r].answer \in {"none", "timeout", "lost"}
  BY <1>1, UnderWay DEF Entitled, ScopeFor
<1>3. CASE Reply(r, "ok", {})
  BY <1>1, <1>3, ReplyStep
<1>4. CASE /\ SearchedChats # {}
           /\ areq' = [areq EXCEPT ![r].pc = "listing", ![r].held = SearchedChats]
  <2> DEFINE q == [areq[r] EXCEPT !.pc = "listing", !.held = SearchedChats]
  <2>1. areq' = [areq EXCEPT ![r] = q]
    BY <1>4 DEF AccessInv
  <2>2. SearchedChats = ScopedChats /\ "read-messages" \in areq[r].facts
    BY <1>2, <1>4 DEF SearchedChats
  <2>3. /\ q \in AccessRequest /\ q.pc = "listing" /\ q.held = ScopedChats
        /\ q.facts = areq[r].facts /\ q.got = {} /\ q.surface = "mcp" /\ q.kind = "search"
        /\ q.answer = areq[r].answer
    BY <1>1, <1>2, <2>2, AccessAssumption DEF AccessRequest
  <2> HIDE DEF q
  <2>4. Entitled(q) /\ MayHaveGot(q) /\ Early(q) /\ ~Claims(q)
    BY <1>2, <2>2, <2>3 DEF Entitled, MayHaveGot, Early, Claims
  <2>5. Witnessed(q, acred)
    BY <1>1, <2>3 DEF Witnessed, AccessInv
  <2> QED
    BY <1>1, <2>1, <2>3, <2>4, <2>5, MoveRequest
<1> QED
  BY <1>3, <1>4 DEF SearchScope

LEMMA ListedStep ==
  ASSUME AccessInv, NEW r \in AccessRequests, Listed(r) PROVE AccessInv'
<1>1. /\ areq[r].pc = "listing" /\ areq[r].pc \notin {"free", "sent", "done"}
      /\ areq[r].surface = "mcp" /\ UNCHANGED <<acred, asent>>
  BY DEF Listed, ReqAt
<1>2. /\ areq[r] \in AccessRequest /\ areq[r].kind \in {"read", "search"}
      /\ "active" \in areq[r].facts /\ "read-messages" \in areq[r].facts
      /\ areq[r].kind = "read" => areq[r].chat \in ScopedChats
      /\ areq[r].kind = "search" => areq[r].held \subseteq ScopedChats
  BY <1>1, UnderWay DEF Entitled
<1>3. CASE Fail(r)
  BY <1>1, <1>3, FailStep
<1>4. ASSUME NEW got \in SUBSET ScopedChats, Reply(r, "ok", got) PROVE AccessInv'
  BY <1>1, <1>2, <1>4, AccessAssumption, ReplyStep
<1>5. CASE areq[r].kind = "read" /\ Reply(r, "ok", {areq[r].chat})
  BY <1>2, <1>4, <1>5
<1>6. CASE areq[r].kind = "search" /\ Reply(r, "ok", {areq[r].chat} \cap areq[r].held)
  BY <1>2, <1>4, <1>6
<1>7. CASE areq[r].kind = "search" /\ Reply(r, "ok", AccessChats \cap areq[r].held)
  BY <1>2, <1>4, <1>7
<1> QED
  BY <1>3, <1>5, <1>6, <1>7 DEF Listed

LEMMA HttpStep ==
  ASSUME AccessInv, NEW r \in AccessRequests, HttpToken(r) \/ HttpBody(r) PROVE AccessInv'
<1>1. /\ areq[r].pc \in {"token", "body"} /\ areq[r].pc \notin {"free", "sent", "done"}
      /\ UNCHANGED <<acred, asent>>
  BY DEF HttpToken, HttpBody, ReqAt
<1>2. areq[r].kind = "reveal" /\ areq[r].surface = "http"
  BY <1>1, UnderWay DEF Entitled
<1>3. CASE Fail(r)
  BY <1>1, <1>3, FailStep
<1>4. CASE Advance(r, "body")
  BY <1>1, <1>2, <1>4, AdvanceStep DEF Entitled
<1>5. CASE Advance(r, "target")
  BY <1>1, <1>2, <1>5, AdvanceStep DEF Entitled
<1> QED
  BY <1>3, <1>4, <1>5 DEF HttpToken, HttpBody

LEMMA RevealRequestedStep ==
  ASSUME AccessInv, NEW r \in AccessRequests, RevealRequested(r) PROVE AccessInv'
<1>1. /\ areq[r].pc = "target" /\ areq[r].pc \notin {"free", "sent", "done"}
      /\ UNCHANGED <<acred, asent>>
  BY DEF RevealRequested
<1>2. areq[r].kind = "reveal"
  BY <1>1, UnderWay DEF Entitled
<1>3. CASE Fail(r)
  BY <1>1, <1>3, FailStep
<1>4. CASE Reply(r, "ok", {})
  BY <1>1, <1>2, <1>4, ReplyStep
<1> QED
  BY <1>3, <1>4 DEF RevealRequested

\* A change of the credential is added to the history of every request under
\* way.
LEMMA CredentialChangesStep ==
  ASSUME AccessInv, NEW c \in AccessCreds, CredentialChanges(c) PROVE AccessInv'
<1>1. /\ acred' = c /\ UNCHANGED asent
      /\ areq' = [r \in AccessRequests |->
           IF areq[r].pc \in {"free", "done"} THEN areq[r]
           ELSE [areq[r] EXCEPT !.facts = areq[r].facts \cup FactsOf(c, areq[r].kind)]]
  BY DEF CredentialChanges
<1>2. \A r \in AccessRequests : FactsOf(c, areq[r].kind) \subseteq AccessScopes \cup {"active"}
  BY DEF FactsOf, AccessCreds
<1>3. ASSUME NEW r \in AccessRequests
      PROVE  /\ areq'[r] \in AccessRequest /\ Witnessed(areq'[r], c) /\ Entitled(areq'[r])
             /\ MayHaveGot(areq'[r]) /\ Early(areq'[r]) /\ Delivered(areq'[r], r)
             /\ Committed(areq[r]) => Committed(areq'[r])
  <2>1. CASE areq[r].pc \in {"free", "done"}
    <3>1. areq'[r] = areq[r]
      BY <1>1, <2>1
    <3> QED
      BY <2>1, <3>1 DEF AccessInv, Witnessed
  <2>2. CASE areq[r].pc \notin {"free", "done"}
    <3> DEFINE facts == areq[r].facts \cup FactsOf(c, areq[r].kind)
               q == [areq[r] EXCEPT !.facts = facts]
    <3>1. areq'[r] = q
      BY <1>1, <2>2
    <3>2. /\ areq[r] \in AccessRequest /\ Entitled(areq[r]) /\ areq[r].got = {}
          /\ areq[r].answer \in {"none", "timeout", "lost"}
      BY <2>2, UnderWay
    <3>3. facts \in SUBSET (AccessScopes \cup {"active"})
      BY <1>2, <3>2 DEF AccessRequest
    <3>4. areq[r].facts \subseteq facts /\ FactsOf(c, areq[r].kind) \subseteq facts
      OBVIOUS
    <3> HIDE DEF facts
    <3>5. /\ q \in AccessRequest /\ q.pc = areq[r].pc /\ q.surface = areq[r].surface
          /\ q.kind = areq[r].kind /\ q.chat = areq[r].chat /\ q.held = areq[r].held
          /\ q.got = {} /\ q.facts = facts /\ q.answer = areq[r].answer
      BY <3>2, <3>3 DEF AccessRequest
    <3> HIDE DEF q
    <3>6. Entitled(q)
      BY <3>2, <3>4, <3>5 DEF Entitled, ValidateSend
    <3>7. Witnessed(q, c) /\ MayHaveGot(q) /\ Early(q)
      BY <3>2, <3>4, <3>5 DEF Witnessed, MayHaveGot, Early
    <3>8. Delivered(q, r) /\ (Committed(areq[r]) => Committed(q))
      BY <3>5 DEF AccessInv, Claims, Delivered, Committed
    <3> QED
      BY <2>2, <3>1, <3>5, <3>6, <3>7, <3>8
  <2> QED
    BY <2>1, <2>2
<1>4. areq' \in [AccessRequests -> AccessRequest]
  BY <1>1, <1>3
<1>5. \A r \in AccessRequests : Delivered(areq[r], r)'
  BY <1>1, <1>3 DEF Delivered
<1>6. \A s \in asent : Committed(areq'[s.req])
  BY <1>3 DEF AccessInv
<1> QED
  BY <1>1, <1>3, <1>4, <1>5, <1>6 DEF AccessInv

LEMMA AccessStep == AccessInv /\ [AccessNext]_accessVars => AccessInv'
<1> SUFFICES ASSUME AccessInv, [AccessNext]_accessVars PROVE AccessInv'
  OBVIOUS
<1>1. CASE UNCHANGED <<acred, areq, asent>>
  BY <1>1 DEF AccessInv, Delivered
<1>2. CASE AccessNext
  <2>1. CASE CoreStops
    BY <1>1, <2>1 DEF CoreStops
  <2>2. ASSUME NEW r \in AccessRequests,
               \/ Dispatch(r) \/ EnsureCoreReady(r) \/ Recheck(r) \/ Delivers(r)
               \/ SendFails(r) \/ RequestTimesOut(r) \/ SocketCloses(r) \/ Replay(r)
               \/ McpLive(r) \/ ReadScope(r) \/ SearchScope(r) \/ Listed(r) \/ HttpToken(r)
               \/ HttpBody(r) \/ RevealRequested(r)
        PROVE  AccessInv'
    BY <2>2, DispatchStep, EnsureCoreReadyStep, RecheckStep, DeliversStep, SendFailsStep,
       AnsweredEarlyStep, ReplayStep, McpLiveStep, ReadScopeStep, SearchScopeStep, ListedStep,
       HttpStep, RevealRequestedStep
  <2>3. ASSUME NEW r \in AccessRequests, SendsOk(r) PROVE AccessInv'
    BY <2>3, ReportedStep DEF SendsOk
  <2> QED
    BY <1>2, <2>1, <2>2, <2>3, ArrivesStep, UpgradeSettlesStep, CredentialChangesStep
    DEF AccessNext
<1> QED
  BY <1>1, <1>2 DEF accessVars

\* Content reaches a harness only from the chats of its credential and with a
\* permission the store gave during that very request; a message goes out only
\* for a credential that was active during the request, and over a WebSocket
\* after the core became ready, also when the timer or the socket ended the
\* request for its caller; a caller told "ok" had its message taken, and one
\* that was turned down never has it sent, for any number of requests and
\* changes of the credential (request-handler.ts, ws/src/server.ts:431-501,
\* message-actions.ts, search-actions.ts).
THEOREM AccessIsPermitted == AccessSpec => []AccessPermitted
<1>1. AccessInv => AccessPermitted
  <2> SUFFICES ASSUME AccessInv PROVE AccessPermitted
    OBVIOUS
  <2>1. \A r \in AccessRequests : areq[r].kind = "send" /\ areq[r].answer = "ok" =>
          \E s \in asent : s.req = r
    BY DEF AccessInv, Delivered, Claims
  <2>2. \A r \in AccessRequests : MayHaveGot(areq[r])
    BY DEF AccessInv
  <2>3. \A s \in asent : MayHaveSent(s) /\ areq[s.req].answer # "refused"
    BY DEF AccessInv, Committed
  <2> QED
    BY <2>1, <2>2, <2>3 DEF AccessPermitted, MayHaveGot, MayHaveSent
<1> QED
  BY <1>1, AccessInitially, AccessStep, PTL DEF AccessSpec

-----------------------------------------------------------------------------
(* Inboxes: what a call under way has read still holds, unless a write of    *)
(* another call overtook it.                                                 *)

Operator == [status : {"none", "active", "removed"}, inboxIds : SUBSET InboxIds]

DirCall ==
    [at : {"idle", "opinfo", "opupdate", "opremove", "opremoved", "polinfo", "polupdate",
           "polremove", "register", "map", "resolve", "linkmap", "linklookup", "unlinkmap",
           "unlinklookup", "setids", "info", "rm", "detach", "unfile", "unmap", "unrow"},
     op : {"none", "opinfo", "opupdate", "opremove", "polinfo", "polupdate", "polremove",
           "create", "link", "unlink", "info", "rm"},
     inbox : InboxIds \union {NoOne}, target : OperatorIds \union PolicyIds \union {NoOne},
     ids : SUBSET InboxIds, old : Operator, execute : BOOLEAN, mapping : BOOLEAN,
     overtaken : BOOLEAN]

Known(o) == o \in OperatorIds /\ operators[o].status # "none"

\* Which calls can be at which step, and what they work on.
DirAt(r) ==
    /\ r.at = "idle" => r = DirIdle
    /\ r.at \in {"opupdate", "opremove"} => r.target \in OperatorIds
    /\ r.at \in {"opremoved", "linkmap", "linklookup", "unlinklookup", "setids"} =>
          Known(r.target)
    /\ r.at \in {"register", "map", "resolve", "linkmap", "linklookup", "unlinkmap",
                 "unlinklookup", "setids", "info", "rm", "detach", "unfile", "unmap", "unrow"} =>
          r.inbox \in InboxIds
    /\ r.at \in {"opinfo", "opupdate", "opremove", "opremoved", "polinfo", "polupdate",
                 "polremove", "resolve", "info"} =>
          r.op \notin {"create", "rm"}
    /\ r.at \in {"register", "map"} => r.op = "create"
    /\ r.at = "resolve" => r.op = "link"
    /\ r.at \in {"linkmap", "linklookup"} => r.op \in {"create", "link"}
    /\ r.at \in {"unlinkmap", "unlinklookup"} => r.op \in {"unlink", "rm"}
    /\ r.at \in {"rm", "detach", "unfile", "unmap", "unrow"} => r.op = "rm"
    /\ r.at = "setids" => r.op \in {"create", "link", "unlink", "rm"}

DirTypes ==
    /\ operators \in [OperatorIds -> Operator]
    /\ \A o \in OperatorIds : operators[o].status = "none" => operators[o].inboxIds = {}
    /\ policies \in [PolicyIds -> {"none", "active", "removed"}]
    /\ rows \subseteq InboxIds /\ idMapped \subseteq InboxIds
    /\ dbFiles \subseteq InboxIds /\ managed \subseteq InboxIds
    /\ dirCall \in [DirCallers -> DirCall] /\ overlapped \in BOOLEAN
    /\ \A c \in DirCallers : DirAt(dirCall[c])

Linking(r)   == r.at = "linklookup" \/ (r.at = "setids" /\ r.op \in {"create", "link"})
Unlinking(r) == r.at = "unlinklookup" \/ (r.at = "setids" /\ r.op \in {"unlink", "rm"})

\* What a call has read or done, and relies on.
Holds(r) ==
    /\ r.at \in {"map", "resolve", "linkmap"} \/ Linking(r) => r.inbox \in rows
    /\ Linking(r) \/ Unlinking(r) => LinkedTo(r.inbox) \subseteq {r.target}
    /\ Linking(r) /\ r.at = "setids" => r.ids = operators[r.target].inboxIds \union {r.inbox}
    /\ Unlinking(r) /\ r.at = "setids" => r.ids = operators[r.target].inboxIds \ {r.inbox}
    /\ r.op = "rm" =>
          /\ r.at \notin {"rm", "detach"} => r.inbox \notin managed
          /\ r.at \notin {"rm", "detach", "unfile"} => r.inbox \notin dbFiles
          /\ r.at # "rm" /\ (~r.mapping \/ r.at = "unrow") => r.inbox \notin idMapped
          /\ r.at \in {"unmap", "unrow"} => LinkedTo(r.inbox) = {}

Sound(r) == r.overtaken \/ Holds(r)

\* One operator per inbox, and a row for whatever exists of it.
Tidy ==
    \A i \in InboxIds :
        /\ \A o, p \in LinkedTo(i) : o = p
        /\ i \in idMapped \union managed \union dbFiles => i \in rows
        /\ LinkedTo(i) # {} => i \in rows

DirInv == DirTypes /\ (overlapped \/ (Tidy /\ \A c \in DirCallers : Sound(dirCall[c])))

LEMMA IdleCall == DirIdle \in DirCall /\ DirAt(DirIdle) /\ Holds(DirIdle) /\ ~DirIdle.overtaken
BY DEF DirIdle, DirCall, Operator, Unborn, DirAt, Holds, Linking, Unlinking, NoOne

LEMMA DirInitially == InboxesInit => DirInv
<1> SUFFICES ASSUME InboxesInit PROVE DirInv
  OBVIOUS
<1>1. DirTypes
  BY IdleCall DEF InboxesInit, DirTypes, Operator, Unborn
<1>2. Tidy
  BY DEF InboxesInit, Tidy, LinkedTo, Active, Unborn
<1>3. \A c \in DirCallers : Sound(dirCall[c])
  BY IdleCall DEF InboxesInit, Sound
<1> QED
  BY <1>1, <1>2, <1>3 DEF DirInv

\* What a call relies on survives when operators keep their inboxes and only
\* mappings, files and clients go.
LEMMA HoldsKept ==
  ASSUME NEW c \in DirCallers, dirCall'[c] = dirCall[c], Holds(dirCall[c]), DirAt(dirCall[c]),
         UNCHANGED rows, managed' \subseteq managed, dbFiles' \subseteq dbFiles,
         idMapped' \subseteq idMapped,
         \A o \in OperatorIds : /\ operators'[o].inboxIds = operators[o].inboxIds
                                /\ operators[o].inboxIds # {} =>
                                     operators'[o].status = operators[o].status
  PROVE  Holds(dirCall[c])'
<1>1. \A i : LinkedTo(i)' = LinkedTo(i)
  BY DEF LinkedTo, Active
<1>2. Linking(dirCall[c])' = Linking(dirCall[c]) /\ Unlinking(dirCall[c])' = Unlinking(dirCall[c])
  BY DEF Linking, Unlinking
<1>3. dirCall[c].at = "setids" =>
        operators'[dirCall[c].target].inboxIds = operators[dirCall[c].target].inboxIds
  BY DEF DirAt, Known
<1>4. LinkedTo(dirCall[c].inbox)' = LinkedTo(dirCall[c].inbox)
  BY <1>1
<1> HIDE DEF LinkedTo, Linking, Unlinking
<1> QED
  BY <1>2, <1>3, <1>4 DEF Holds

LEMMA TidyKept ==
  ASSUME Tidy, rows \subseteq rows',
         (idMapped' \union managed' \union dbFiles') \subseteq
            (idMapped \union managed \union dbFiles \union rows'),
         \A i \in InboxIds : LinkedTo(i)' \subseteq LinkedTo(i)
  PROVE  Tidy'
BY DEF Tidy

\* A step of one call that writes nothing others could have read.
LEMMA ContinueStep ==
  ASSUME DirInv, NEW c \in DirCallers, NEW r \in DirCall, Continue(c, r),
         UNCHANGED <<operators, rows>>,
         UNCHANGED policies \/ policies' \in [PolicyIds -> {"none", "active", "removed"}],
         managed' \subseteq managed,
         dbFiles' \subseteq dbFiles, idMapped' \subseteq idMapped,
         DirAt(dirCall[c])',
         Tidy /\ Sound(dirCall[c]) => Sound(dirCall[c])'
  PROVE  DirInv'
<1>1. /\ dirCall'[c] = r /\ dirCall' \in [DirCallers -> DirCall]
      /\ \A d \in DirCallers : d # c => dirCall'[d] = dirCall[d]
      /\ overlapped' = overlapped
  BY DEF Continue, DirInv, DirTypes
<1>2. \A d \in DirCallers : DirAt(dirCall[d])'
  <2>1. ASSUME NEW d \in DirCallers, d # c PROVE DirAt(dirCall[d])'
    BY <1>1, <2>1 DEF DirInv, DirTypes, DirAt, Known
  <2> QED
    BY <2>1
<1>3. DirTypes'
  BY <1>1, <1>2 DEF DirInv, DirTypes
<1>4. ASSUME Tidy, \A d \in DirCallers : Sound(dirCall[d])
      PROVE  Tidy' /\ \A d \in DirCallers : Sound(dirCall[d])'
  <2>1. Tidy'
    BY <1>4, TidyKept DEF LinkedTo, Active
  <2>2. ASSUME NEW d \in DirCallers, d # c PROVE Sound(dirCall[d])'
    <3>1. CASE dirCall[d].overtaken
      BY <1>1, <2>2, <3>1 DEF Sound
    <3>2. CASE Holds(dirCall[d])
      <4>1. DirAt(dirCall[d])
        BY DEF DirInv, DirTypes
      <4>2. Holds(dirCall[d])'
        BY <1>1, <2>2, <3>2, <4>1, HoldsKept
      <4> QED
        BY <4>2 DEF Sound
    <3> QED
      BY <1>4, <3>1, <3>2 DEF Sound
  <2> QED
    BY <1>4, <2>1, <2>2
<1> QED
  BY <1>1, <1>3, <1>4 DEF DirInv

LEMMA AnswerStep ==
  ASSUME DirInv, NEW c \in DirCallers, Answer(c), UNCHANGED <<operators, rows>>,
         UNCHANGED policies \/ policies' \in [PolicyIds -> {"none", "active", "removed"}],
         managed' \subseteq managed, dbFiles' \subseteq dbFiles, idMapped' \subseteq idMapped
  PROVE  DirInv'
<1>1. dirCall'[c] = DirIdle /\ Continue(c, DirIdle)
  BY DEF Answer, Continue, DirInv, DirTypes
<1>2. DirAt(dirCall[c])' /\ Sound(dirCall[c])'
  BY <1>1, IdleCall DEF DirAt, DirIdle, Sound, Holds, Linking, Unlinking
<1> QED
  BY <1>1, <1>2, IdleCall, ContinueStep

\* A step that writes: the other calls under way are overtaken.
LEMMA WriteStep ==
  ASSUME DirInv, NEW c \in DirCallers, NEW r \in DirCall, WriteThen(c, r),
         operators' \in [OperatorIds -> Operator], UNCHANGED policies,
         \A o \in OperatorIds : /\ operators[o].status # "none" => operators'[o].status # "none"
                                /\ operators'[o].status = "none" => operators'[o].inboxIds = {},
         rows' \subseteq InboxIds, idMapped' \subseteq InboxIds,
         dbFiles' \subseteq InboxIds, managed' \subseteq InboxIds,
         DirAt(dirCall[c])',
         Tidy /\ ~dirCall[c].overtaken /\ Holds(dirCall[c]) => Tidy' /\ Holds(dirCall[c])'
  PROVE  DirInv'
<1>0. dirCall \in [DirCallers -> DirCall] /\ \A d \in DirCallers : DirAt(dirCall[d])
  BY DEF DirInv, DirTypes
<1>1. /\ dirCall'[c] = r /\ overlapped' = (overlapped \/ dirCall[c].overtaken)
      /\ dirCall' = [d \in DirCallers |->
           IF d = c THEN r ELSE IF dirCall[d] = DirIdle THEN DirIdle
           ELSE [dirCall[d] EXCEPT !.overtaken = TRUE]]
  BY DEF WriteThen
<1>2. ASSUME NEW d \in DirCallers, d # c
      PROVE  dirCall'[d] \in DirCall /\ DirAt(dirCall[d])' /\ Sound(dirCall[d])'
  <2>1. CASE dirCall[d] = DirIdle
    <3>1. dirCall'[d] = DirIdle
      BY <1>1, <1>2, <2>1
    <3> QED
      BY <3>1, IdleCall DEF DirAt, DirIdle, Sound, Holds, Linking, Unlinking
  <2>2. CASE dirCall[d] # DirIdle
    <3>1. dirCall'[d] = [dirCall[d] EXCEPT !.overtaken = TRUE]
      BY <1>1, <1>2, <2>2
    <3>2. dirCall[d] \in DirCall /\ DirAt(dirCall[d])
      BY <1>0
    <3>3. /\ dirCall'[d] \in DirCall /\ dirCall'[d].overtaken
          /\ dirCall'[d].at = dirCall[d].at /\ dirCall'[d].op = dirCall[d].op
          /\ dirCall'[d].inbox = dirCall[d].inbox /\ dirCall'[d].target = dirCall[d].target
      BY <3>1, <3>2 DEF DirCall
    <3>4. Known(dirCall[d].target) => Known(dirCall[d].target)'
      BY <3>3 DEF Known
    <3>5. DirAt(dirCall[d])'
      BY <2>2, <3>2, <3>3, <3>4 DEF DirAt
    <3> QED
      BY <3>3, <3>5 DEF Sound
  <2> QED
    BY <2>1, <2>2
<1>3. dirCall' \in [DirCallers -> DirCall] /\ overlapped' \in BOOLEAN
  BY <1>0, <1>1, <1>2 DEF DirInv, DirTypes, DirCall
<1>4. DirTypes'
  BY <1>2, <1>3 DEF DirInv, DirTypes
<1>5. ASSUME ~overlapped' PROVE Tidy' /\ \A d \in DirCallers : Sound(dirCall[d])'
  <2>1. Tidy /\ ~dirCall[c].overtaken /\ Holds(dirCall[c])
    BY <1>1, <1>5 DEF DirInv, Sound
  <2>2. Tidy' /\ Sound(dirCall[c])'
    BY <2>1 DEF Sound
  <2> QED
    BY <1>2, <2>2
<1> QED
  BY <1>3, <1>4, <1>5 DEF DirInv

\* A call that only goes on to another step.
LEMMA Stepped ==
  ASSUME NEW q \in DirCall,
         NEW s \in {"map", "linkmap", "linklookup", "unlinkmap", "unfile", "unmap", "unrow"}
  PROVE  LET r == [q EXCEPT !.at = s]
         IN  /\ r \in DirCall /\ r.at = s /\ r.op = q.op /\ r.inbox = q.inbox
             /\ r.target = q.target /\ r.ids = q.ids /\ r.mapping = q.mapping
             /\ r.overtaken = q.overtaken
BY DEF DirCall

LEMMA CreateOperatorStep ==
  ASSUME DirInv, NEW o \in OperatorIds, CreateOperator(o) PROVE DirInv'
<1>1. /\ operators' = [operators EXCEPT ![o] = [status |-> "active", inboxIds |-> {}]]
      /\ operators[o].status = "none" /\ operators[o].inboxIds = {}
      /\ UNCHANGED <<policies, rows, idMapped, dbFiles, managed, dirCall, overlapped>>
  BY DEF CreateOperator, DirInv, DirTypes
<1>2. /\ operators' \in [OperatorIds -> Operator]
      /\ \A p \in OperatorIds : /\ operators'[p].inboxIds = operators[p].inboxIds
                                /\ p # o => operators'[p] = operators[p]
      /\ operators'[o].status = "active"
  BY <1>1 DEF DirInv, DirTypes, Operator
<1>3. \A d \in DirCallers : DirAt(dirCall[d])'
  BY <1>1, <1>2 DEF DirInv, DirTypes, DirAt, Known
<1>4. DirTypes'
  BY <1>1, <1>2, <1>3 DEF DirInv, DirTypes
<1>5. ASSUME Tidy, \A d \in DirCallers : Sound(dirCall[d])
      PROVE  Tidy' /\ \A d \in DirCallers : Sound(dirCall[d])'
  <2>1. \A i \in InboxIds : LinkedTo(i)' \subseteq LinkedTo(i)
    BY <1>1, <1>2 DEF LinkedTo, Active
  <2>2. Tidy'
    BY <1>1, <1>5, <2>1, TidyKept
  <2>3. ASSUME NEW d \in DirCallers PROVE Sound(dirCall[d])'
    <3>1. CASE dirCall[d].overtaken
      BY <1>1, <3>1 DEF Sound
    <3>2. CASE Holds(dirCall[d])
      <4>1. DirAt(dirCall[d]) /\ dirCall'[d] = dirCall[d]
        BY <1>1 DEF DirInv, DirTypes
      <4>2. Holds(dirCall[d])'
        BY <1>1, <1>2, <3>2, <4>1, HoldsKept
      <4> QED
        BY <4>2 DEF Sound
    <3> QED
      BY <1>5, <3>1, <3>2 DEF Sound
  <2> QED
    BY <2>2, <2>3
<1> QED
  BY <1>1, <1>4, <1>5 DEF DirInv

LEMMA CreatePolicyStep ==
  ASSUME DirInv, NEW p \in PolicyIds, CreatePolicy(p) PROVE DirInv'
<1>1. /\ policies' = [policies EXCEPT ![p] = "active"]
      /\ UNCHANGED <<operators, rows, idMapped, dbFiles, managed, dirCall, overlapped>>
  BY DEF CreatePolicy
<1>2. policies' \in [PolicyIds -> {"none", "active", "removed"}]
  BY <1>1 DEF DirInv, DirTypes
<1>3. DirTypes'
  BY <1>1, <1>2 DEF DirInv, DirTypes, DirAt, Known
<1>4. Tidy' = Tidy
  BY <1>1 DEF Tidy, LinkedTo, Active
<1>5. \A d \in DirCallers : Sound(dirCall[d]) => Sound(dirCall[d])'
  BY <1>1 DEF Sound, Holds, Linking, Unlinking, LinkedTo, Active
<1> QED
  BY <1>1, <1>3, <1>4, <1>5 DEF DirInv

\* A call that begins relies on nothing yet but the row it found.
LEMMA BeginStep ==
  ASSUME DirInv, NEW c \in DirCallers, NEW r \in DirCall, Continue(c, r),
         UNCHANGED <<operators, policies, rows, idMapped, dbFiles, managed>>,
         r.at \in {"opinfo", "opupdate", "opremove", "polinfo", "polupdate", "polremove",
                   "register", "resolve", "unlinkmap", "info", "rm"},
         r.at \in {"opupdate", "opremove"} => r.target \in OperatorIds,
         r.at \in {"register", "resolve", "unlinkmap", "info", "rm"} => r.inbox \in InboxIds,
         r.at = "resolve" => r.inbox \in rows,
         r.op = (IF r.at = "register" THEN "create" ELSE IF r.at = "resolve" THEN "link"
                 ELSE IF r.at = "unlinkmap" THEN "unlink" ELSE r.at)
  PROVE  DirInv'
<1>1. dirCall'[c] = r
  BY DEF Continue, DirInv, DirTypes
<1>2. DirAt(dirCall[c])'
  BY <1>1 DEF DirAt
<1>3. Holds(dirCall[c])'
  BY <1>1 DEF Holds, Linking, Unlinking
<1>4. Sound(dirCall[c])'
  BY <1>3 DEF Sound
<1> QED
  BY <1>2, <1>4, ContinueStep

LEMMA BeginsStep ==
  ASSUME DirInv, NEW c \in DirCallers,
         \/ \E op \in {"opinfo", "opupdate", "opremove"}, o \in OperatorIds :
                BeginOperator(c, op, o)
         \/ \E op \in {"polinfo", "polupdate", "polremove"}, p \in PolicyIds :
                BeginPolicy(c, op, p)
  PROVE  DirInv'
<1>1. PICK op \in {"opinfo", "opupdate", "opremove", "polinfo", "polupdate", "polremove"},
           o \in OperatorIds \union PolicyIds :
        /\ Continue(c, [DirIdle EXCEPT !.at = op, !.op = op, !.target = o])
        /\ op \in {"opupdate", "opremove"} => o \in OperatorIds
        /\ UNCHANGED <<operators, policies, rows, idMapped, dbFiles, managed>>
  BY DEF BeginOperator, BeginPolicy
<1> DEFINE r == [DirIdle EXCEPT !.at = op, !.op = op, !.target = o]
<1>2. r \in DirCall /\ r.at = op /\ r.op = op /\ r.target = o
  BY IdleCall DEF DirCall
<1> HIDE DEF r
<1>3. Continue(c, r)
  BY <1>1 DEF r
<1> QED
  BY <1>1, <1>2, <1>3, BeginStep

LEMMA CreateInboxStep ==
  ASSUME DirInv, NEW c \in DirCallers, NEW i \in InboxIds, NEW o \in OperatorIds \union {NoOne},
         CreateInbox(c, i, o)
  PROVE  DirInv'
<1> DEFINE r == [DirIdle EXCEPT !.at = "register", !.op = "create", !.inbox = i, !.target = o]
<1>1. r \in DirCall /\ r.at = "register" /\ r.op = "create" /\ r.inbox = i
  BY IdleCall DEF DirCall
<1>2. Continue(c, r) /\ UNCHANGED <<operators, policies, rows, idMapped, dbFiles, managed>>
  BY DEF CreateInbox
<1> HIDE DEF r
<1> QED
  BY <1>1, <1>2, BeginStep

LEMMA BeginInboxStep ==
  ASSUME DirInv, NEW c \in DirCallers, NEW op \in {"link", "unlink", "info", "rm"},
         NEW i \in InboxIds, NEW o \in OperatorIds \union {NoOne}, NEW execute \in BOOLEAN,
         BeginInbox(c, op, i, o, execute)
  PROVE  DirInv'
<1> DEFINE at == CASE op = "link" -> "resolve" [] op = "unlink" -> "unlinkmap" [] OTHER -> op
           r == [DirIdle EXCEPT !.at = at, !.op = op, !.inbox = i, !.target = o,
                                !.execute = execute]
<1>1. at = (IF op = "link" THEN "resolve" ELSE IF op = "unlink" THEN "unlinkmap" ELSE op)
  OBVIOUS
<1>2. /\ Continue(c, r) /\ UNCHANGED <<operators, policies, rows, idMapped, dbFiles, managed>>
      /\ i \in rows
  BY DEF BeginInbox
<1> HIDE DEF at
<1>3. at \in {"resolve", "unlinkmap", "info", "rm"}
  BY <1>1
<1>4. r.at = at /\ r.op = op /\ r.inbox = i
  BY DEF DirIdle
<1>5. r \in DirCall
  BY <1>3, IdleCall DEF DirCall
<1> HIDE DEF r
<1> QED
  BY <1>1, <1>2, <1>3, <1>4, <1>5, BeginStep

-----------------------------------------------------------------------------
(* Operators and policies.                                                  *)

LEMMA UpdateOperatorStep ==
  ASSUME DirInv, NEW c \in DirCallers, NEW given \in BOOLEAN, UpdateOperator(c, given)
  PROVE  DirInv'
<1> DEFINE o == dirCall[c].target
           ids == IF given THEN InboxIds ELSE operators[o].inboxIds
<1>1. dirCall[c].at = "opupdate" /\ UNCHANGED <<policies, rows, idMapped, dbFiles, managed>>
  BY DEF UpdateOperator, CallAt
<1>2. o \in OperatorIds /\ operators \in [OperatorIds -> Operator]
  BY <1>1 DEF DirInv, DirTypes, DirAt
<1>3. CASE operators[o].status = "none"
  BY <1>1, <1>3, AnswerStep DEF UpdateOperator
<1>4. CASE operators[o].status # "none"
  <2>1. /\ operators' = [operators EXCEPT ![o].inboxIds = ids]
        /\ dirCall' = [dirCall EXCEPT ![c] = DirIdle]
        /\ overlapped' = (overlapped \/ ids # operators[o].inboxIds)
    BY <1>4 DEF UpdateOperator
  <2>2. ids \subseteq InboxIds
    BY <1>2 DEF Operator
  <2>3. CASE ids = operators[o].inboxIds
    <3> HIDE DEF ids, o
    <3>1. operators' = operators
      BY <1>2, <2>1, <2>3 DEF Operator
    <3>2. overlapped' = overlapped
      BY <2>1, <2>3 DEF DirInv, DirTypes
    <3> QED
      BY <1>1, <2>1, <3>1, <3>2, AnswerStep DEF Answer, Continue
  <2>4. CASE ids # operators[o].inboxIds
    <3> HIDE DEF ids, o
    <3>1. /\ operators' \in [OperatorIds -> Operator]
          /\ \A p \in OperatorIds : /\ operators'[p].status = operators[p].status
                                    /\ p # o => operators'[p] = operators[p]
      BY <1>2, <2>1, <2>2 DEF Operator
    <3>2. /\ dirCall' \in [DirCallers -> DirCall] /\ dirCall'[c] = DirIdle
          /\ \A d \in DirCallers : d # c => dirCall'[d] = dirCall[d]
      BY <2>1, IdleCall DEF DirInv, DirTypes
    <3>3. ASSUME NEW d \in DirCallers PROVE DirAt(dirCall[d])'
      <4>1. CASE d = c
        BY <3>2, <4>1 DEF DirAt, DirIdle
      <4>2. CASE d # c
        <5>1. DirAt(dirCall[d]) /\ dirCall'[d] = dirCall[d]
          BY <3>2, <4>2 DEF DirInv, DirTypes
        <5> QED
          BY <3>1, <5>1 DEF DirAt, Known
      <4> QED
        BY <4>1, <4>2
    <3>4. overlapped'
      BY <2>1, <2>4
    <3>5. \A p \in OperatorIds : operators'[p].status = "none" => operators'[p].inboxIds = {}
      BY <1>4, <3>1 DEF DirInv, DirTypes
    <3>6. DirTypes'
      BY <1>1, <3>1, <3>2, <3>3, <3>4, <3>5 DEF DirInv, DirTypes
    <3> QED
      BY <3>4, <3>6 DEF DirInv
  <2> QED
    BY <2>3, <2>4
<1> QED
  BY <1>3, <1>4

LEMMA RemoveOperatorStep ==
  ASSUME DirInv, NEW c \in DirCallers, RemoveOperator(c) PROVE DirInv'
<1> DEFINE o == dirCall[c].target
           r == [dirCall[c] EXCEPT !.at = "opremoved", !.old = operators[o]]
<1>1. /\ dirCall[c].at = "opremove"
      /\ UNCHANGED <<operators, policies, rows, idMapped, dbFiles, managed>>
  BY DEF RemoveOperator, CallAt
<1>2. o \in OperatorIds /\ operators[o] \in Operator /\ dirCall[c] \in DirCall /\ DirAt(dirCall[c])
  BY <1>1 DEF DirInv, DirTypes, DirAt
<1>3. CASE operators[o].status = "none"
  BY <1>1, <1>3, AnswerStep DEF RemoveOperator
<1>4. CASE operators[o].status # "none"
  <2>1. Continue(c, r)
    BY <1>4 DEF RemoveOperator
  <2>2. /\ r \in DirCall /\ r.at = "opremoved" /\ r.target = o /\ r.op = dirCall[c].op
        /\ r.inbox = dirCall[c].inbox
    BY <1>2 DEF DirCall
  <2> HIDE DEF r
  <2>3. dirCall'[c] = r
    BY <2>1 DEF Continue, DirInv, DirTypes
  <2>4. r.op \notin {"create", "rm"}
    BY <1>1, <1>2, <2>2 DEF DirAt
  <2>5. DirAt(dirCall[c])'
    BY <1>1, <1>2, <1>4, <2>2, <2>3, <2>4 DEF DirAt, Known
  <2>6. Sound(dirCall[c])'
    BY <2>2, <2>3, <2>4 DEF Sound, Holds, Linking, Unlinking
  <2> QED
    BY <1>1, <2>1, <2>2, <2>5, <2>6, ContinueStep
<1> QED
  BY <1>3, <1>4

LEMMA OperatorRemovedStep ==
  ASSUME DirInv, NEW c \in DirCallers, OperatorRemoved(c) PROVE DirInv'
<1> DEFINE o == dirCall[c].target
           r == MarkRemoved(dirCall[c].old)
<1>1. /\ dirCall[c].at = "opremoved" /\ operators' = [operators EXCEPT ![o] = r]
      /\ WriteThen(c, DirIdle) /\ UNCHANGED <<policies, rows, idMapped, dbFiles, managed>>
  BY DEF OperatorRemoved, CallAt
<1>2. /\ o \in OperatorIds /\ dirCall[c] \in DirCall /\ operators \in [OperatorIds -> Operator]
      /\ dirCall[c].old \in Operator
  BY <1>1 DEF DirInv, DirTypes, DirAt, Known, DirCall
<1>3. r \in Operator /\ r.status = "removed"
  BY <1>2 DEF MarkRemoved, Operator
<1> HIDE DEF r, o
<1>4. /\ operators' \in [OperatorIds -> Operator] /\ operators'[o].status = "removed"
      /\ \A p \in OperatorIds : p # o => operators'[p] = operators[p]
  BY <1>1, <1>2, <1>3
<1>5. dirCall'[c] = DirIdle
  BY <1>1 DEF WriteThen
<1>6. DirAt(dirCall[c])' /\ Holds(dirCall[c])'
  BY <1>5, IdleCall DEF DirAt, DirIdle, Holds, Linking, Unlinking
<1>7. Tidy => Tidy'
  <2>1. \A i \in InboxIds : LinkedTo(i)' \subseteq LinkedTo(i)
    BY <1>4 DEF LinkedTo, Active
  <2> QED
    BY <1>1, <2>1, TidyKept
<1>8. /\ \A p \in OperatorIds : /\ operators[p].status # "none" => operators'[p].status # "none"
                                /\ operators'[p].status = "none" => operators'[p].inboxIds = {}
      /\ rows' \subseteq InboxIds /\ idMapped' \subseteq InboxIds
      /\ dbFiles' \subseteq InboxIds /\ managed' \subseteq InboxIds
  BY <1>1, <1>4 DEF DirInv, DirTypes
<1> QED
  BY <1>1, <1>4, <1>6, <1>7, <1>8, IdleCall, WriteStep

LEMMA OperatorInfoStep ==
  ASSUME DirInv, NEW c \in DirCallers, OperatorInfo(c) PROVE DirInv'
BY AnswerStep DEF OperatorInfo

LEMMA PolicyStepStep ==
  ASSUME DirInv, NEW c \in DirCallers, PolicyStep(c) PROVE DirInv'
<1>1. policies' \in [PolicyIds -> {"none", "active", "removed"}]
  BY DEF PolicyStep, DirInv, DirTypes
<1> QED
  BY <1>1, AnswerStep DEF PolicyStep

-----------------------------------------------------------------------------
(* inbox.create, link and unlink.                                           *)

\* An idle call, after a write.
LEMMA AnsweredCall ==
  ASSUME NEW c, dirCall'[c] = DirIdle PROVE DirAt(dirCall[c])' /\ Holds(dirCall[c])'
BY IdleCall DEF DirAt, DirIdle, Holds, Linking, Unlinking

LEMMA RegisteredStep ==
  ASSUME DirInv, NEW c \in DirCallers, Registered(c) PROVE DirInv'
<1> DEFINE i == dirCall[c].inbox
           r == [dirCall[c] EXCEPT !.at = "map"]
<1>1. dirCall[c].at = "register" /\ UNCHANGED <<operators, policies, idMapped>>
  BY DEF Registered, CallAt
<1>2. dirCall[c] \in DirCall /\ i \in InboxIds /\ dirCall[c].op = "create"
  BY <1>1 DEF DirInv, DirTypes, DirAt
<1>3. CASE Answer(c) /\ UNCHANGED <<rows, dbFiles, managed>>
  BY <1>1, <1>3, AnswerStep
<1>4. CASE /\ rows' = rows \union {i} /\ dbFiles' = dbFiles \union {i}
           /\ managed' = managed \union {i} /\ WriteThen(c, r)
  <2>1. r \in DirCall /\ r.at = "map" /\ r.op = "create" /\ r.inbox = i
    BY <1>2, Stepped
  <2> HIDE DEF r
  <2>2. dirCall'[c] = r
    BY <1>4 DEF WriteThen
  <2>3. DirAt(dirCall[c])'
    BY <1>2, <2>1, <2>2 DEF DirAt
  <2>4. Holds(dirCall[c])'
    BY <1>4, <2>1, <2>2 DEF Holds, Linking, Unlinking
  <2>5. \A j \in InboxIds : LinkedTo(j)' \subseteq LinkedTo(j)
    BY <1>1 DEF LinkedTo, Active
  <2> HIDE DEF i
  <2>6. Tidy => Tidy'
    BY <1>1, <1>4, <2>5, TidyKept
  <2>7. /\ operators' \in [OperatorIds -> Operator]
        /\ \A p \in OperatorIds : /\ operators[p].status # "none" => operators'[p].status # "none"
                                  /\ operators'[p].status = "none" => operators'[p].inboxIds = {}
        /\ rows' \subseteq InboxIds /\ idMapped' \subseteq InboxIds
        /\ dbFiles' \subseteq InboxIds /\ managed' \subseteq InboxIds
    BY <1>1, <1>2, <1>4 DEF DirInv, DirTypes
  <2> QED
    BY <1>1, <1>4, <2>1, <2>3, <2>4, <2>6, <2>7, WriteStep
<1> QED
  BY <1>3, <1>4 DEF Registered

LEMMA MapInboxStep ==
  ASSUME DirInv, NEW c \in DirCallers, MapInbox(c) PROVE DirInv'
<1> DEFINE i == dirCall[c].inbox
           o == dirCall[c].target
           q == [dirCall[c] EXCEPT !.at = "linkmap"]
           r == IF o = NoOne \/ ~ResolvesActive(o) THEN DirIdle ELSE q
<1>1. /\ dirCall[c].at = "map" /\ idMapped' = idMapped \union {i} /\ WriteThen(c, r)
      /\ UNCHANGED <<operators, policies, rows, dbFiles, managed>>
  BY DEF MapInbox, CallAt
<1>2. dirCall[c] \in DirCall /\ i \in InboxIds /\ dirCall[c].op = "create"
  BY <1>1 DEF DirInv, DirTypes, DirAt
<1>3. /\ q \in DirCall /\ q.at = "linkmap" /\ q.op = "create" /\ q.inbox = i /\ q.target = o
  BY <1>2, Stepped
<1> HIDE DEF q
<1>4. r \in DirCall /\ (r = DirIdle \/ (r = q /\ ResolvesActive(o)))
  BY <1>3, IdleCall
<1> HIDE DEF r
<1>5. dirCall'[c] = r
  BY <1>1 DEF WriteThen
<1>6. DirAt(dirCall[c])'
  <2>1. CASE r = DirIdle
    BY <1>5, <2>1, AnsweredCall
  <2>2. CASE r = q /\ ResolvesActive(o)
    BY <1>1, <1>2, <1>3, <1>5, <2>2 DEF DirAt, Known, ResolvesActive, Active
  <2> QED
    BY <1>4, <2>1, <2>2
<1>7. Tidy /\ Holds(dirCall[c]) => Tidy' /\ Holds(dirCall[c])'
  <2> SUFFICES ASSUME Tidy, Holds(dirCall[c]) PROVE Tidy' /\ Holds(dirCall[c])'
    OBVIOUS
  <2>1. i \in rows
    BY <1>1 DEF Holds
  <2>2. \A j \in InboxIds : LinkedTo(j)' \subseteq LinkedTo(j)
    BY <1>1 DEF LinkedTo, Active
  <2>3. Tidy'
    <3> HIDE DEF i
    <3> QED
      BY <1>1, <2>1, <2>2, TidyKept
  <2>4. CASE r = DirIdle
    BY <1>5, <2>3, <2>4, AnsweredCall
  <2>5. CASE r = q
    <3>1. dirCall'[c].at = "linkmap" /\ dirCall'[c].op = "create" /\ dirCall'[c].inbox = i
      BY <1>3, <1>5, <2>5
    <3>2. Holds(dirCall[c])'
      BY <1>1, <2>1, <3>1 DEF Holds, Linking, Unlinking
    <3> QED
      BY <2>3, <3>2
  <2> QED
    BY <1>4, <2>4, <2>5
<1>8. /\ operators' \in [OperatorIds -> Operator]
      /\ \A p \in OperatorIds : /\ operators[p].status # "none" => operators'[p].status # "none"
                                /\ operators'[p].status = "none" => operators'[p].inboxIds = {}
      /\ rows' \subseteq InboxIds /\ idMapped' \subseteq InboxIds
      /\ dbFiles' \subseteq InboxIds /\ managed' \subseteq InboxIds
  <2> HIDE DEF i, o
  <2> QED
    BY <1>1, <1>2 DEF DirInv, DirTypes
<1> QED
  BY <1>1, <1>4, <1>6, <1>7, <1>8, WriteStep

LEMMA ResolveForLinkStep ==
  ASSUME DirInv, NEW c \in DirCallers, ResolveForLink(c) PROVE DirInv'
<1> DEFINE r == [dirCall[c] EXCEPT !.at = "linkmap"]
<1>1. /\ dirCall[c].at = "resolve"
      /\ UNCHANGED <<operators, policies, rows, idMapped, dbFiles, managed>>
      /\ (ResolvesActive(dirCall[c].target) /\ Continue(c, r)) \/ Answer(c)
  BY DEF ResolveForLink, CallAt
<1>2. CASE Answer(c)
  BY <1>1, <1>2, AnswerStep
<1>3. CASE ResolvesActive(dirCall[c].target) /\ Continue(c, r)
  <2>1. dirCall[c] \in DirCall /\ DirAt(dirCall[c])
    BY DEF DirInv, DirTypes
  <2>2. /\ r \in DirCall /\ r.at = "linkmap" /\ r.op = dirCall[c].op
        /\ r.inbox = dirCall[c].inbox /\ r.target = dirCall[c].target
        /\ r.overtaken = dirCall[c].overtaken
    BY <2>1, Stepped
  <2> HIDE DEF r
  <2>3. dirCall'[c] = r
    BY <1>3 DEF Continue, DirInv, DirTypes
  <2>4. r.op = "link"
    BY <1>1, <2>1, <2>2 DEF DirAt, DirCall
  <2>5. DirAt(dirCall[c])'
    BY <1>1, <1>3, <2>1, <2>2, <2>3, <2>4 DEF DirAt, Known, ResolvesActive, Active
  <2>6. Sound(dirCall[c]) => Sound(dirCall[c])'
    BY <1>1, <2>2, <2>3, <2>4 DEF Sound, Holds, Linking, Unlinking
  <2> QED
    BY <1>1, <1>3, <2>2, <2>5, <2>6, ContinueStep
<1> QED
  BY <1>1, <1>2, <1>3

\* The one operator of an inbox, when it has one.
LEMMA OnlyOperator ==
  ASSUME Tidy, NEW i \in InboxIds
  PROVE  /\ LinkedTo(i) # {} => OperatorOf(i) \in LinkedTo(i) /\ LinkedTo(i) = {OperatorOf(i)}
         /\ OperatorOf(i) = NoOne => LinkedTo(i) = {}
         /\ LinkedTo(i) = {} => OperatorOf(i) = NoOne
<1>1. CASE LinkedTo(i) = {}
  BY <1>1 DEF OperatorOf
<1>2. CASE LinkedTo(i) # {}
  <2>1. OperatorOf(i) \in LinkedTo(i)
    BY <1>2 DEF OperatorOf
  <2>2. \A o, p \in LinkedTo(i) : o = p
    BY DEF Tidy
  <2>3. OperatorOf(i) # NoOne
    BY <2>1, DirIds DEF LinkedTo
  <2> QED
    BY <1>2, <2>1, <2>2, <2>3
<1> QED
  BY <1>1, <1>2

LEMMA LinkMapStep ==
  ASSUME DirInv, NEW c \in DirCallers, LinkMap(c) PROVE DirInv'
<1> DEFINE r == [dirCall[c] EXCEPT !.at = "linklookup"]
           i == dirCall[c].inbox
           o == dirCall[c].target
<1>1. /\ dirCall[c].at = "linkmap"
      /\ UNCHANGED <<operators, policies, rows, idMapped, dbFiles, managed>>
      /\ (LinkAllowed(i, o) /\ Continue(c, r)) \/ Answer(c)
  BY DEF LinkMap, CallAt
<1>2. CASE Answer(c)
  BY <1>1, <1>2, AnswerStep
<1>3. CASE LinkAllowed(i, o) /\ Continue(c, r)
  <2>1. dirCall[c] \in DirCall /\ DirAt(dirCall[c])
    BY DEF DirInv, DirTypes
  <2>2. /\ i \in InboxIds /\ Known(o) /\ o # NoOne /\ dirCall[c].op \in {"create", "link"}
    BY <1>1, <2>1, DirIds DEF DirAt, Known
  <2>3. /\ r \in DirCall /\ r.at = "linklookup" /\ r.op = dirCall[c].op
        /\ r.inbox = i /\ r.target = o /\ r.overtaken = dirCall[c].overtaken
    BY <2>1, Stepped
  <2> HIDE DEF r
  <2>4. dirCall'[c] = r
    BY <1>3 DEF Continue, DirInv, DirTypes
  <2>5. DirAt(dirCall[c])'
    BY <1>1, <2>2, <2>3, <2>4 DEF DirAt, Known
  <2>6. ASSUME Tidy, Sound(dirCall[c]) PROVE Sound(dirCall[c])'
    <3>1. LinkedTo(i) \subseteq {o}
      BY <1>3, <2>2, <2>6, OnlyOperator DEF LinkAllowed
    <3>2. LinkedTo(dirCall[c].inbox)' = LinkedTo(i)
      BY <1>1, <2>3, <2>4 DEF LinkedTo, Active
    <3>3. CASE dirCall[c].overtaken
      BY <2>3, <2>4, <3>3 DEF Sound
    <3>4. CASE Holds(dirCall[c])
      <4>1. i \in rows
        BY <1>1, <3>4 DEF Holds
      <4>2. Holds(dirCall[c])'
        BY <1>1, <2>2, <2>3, <2>4, <3>1, <3>2, <4>1 DEF Holds, Linking, Unlinking
      <4> QED
        BY <4>2 DEF Sound
    <3> QED
      BY <2>6, <3>3, <3>4 DEF Sound
  <2> QED
    BY <1>1, <1>3, <2>3, <2>5, <2>6, ContinueStep
<1> QED
  BY <1>1, <1>2, <1>3

\* The call that has computed the inboxes to store.
LEMMA LookedUp ==
  ASSUME NEW q \in DirCall, NEW ids \in SUBSET InboxIds
  PROVE  LET r == [q EXCEPT !.at = "setids", !.ids = ids]
         IN  /\ r \in DirCall /\ r.at = "setids" /\ r.op = q.op /\ r.inbox = q.inbox
             /\ r.target = q.target /\ r.ids = ids /\ r.mapping = q.mapping
             /\ r.overtaken = q.overtaken
BY DEF DirCall

LEMMA LinkLookupStep ==
  ASSUME DirInv, NEW c \in DirCallers, LinkLookup(c) PROVE DirInv'
<1> DEFINE i == dirCall[c].inbox
           o == dirCall[c].target
           ids == operators[o].inboxIds \union {i}
           r == [dirCall[c] EXCEPT !.at = "setids", !.ids = ids]
<1>1. /\ dirCall[c].at = "linklookup" /\ Continue(c, r)
      /\ UNCHANGED <<operators, policies, rows, idMapped, dbFiles, managed>>
  BY DEF LinkLookup, CallAt
<1>2. dirCall[c] \in DirCall /\ DirAt(dirCall[c])
  BY DEF DirInv, DirTypes
<1>3. i \in InboxIds /\ Known(o) /\ dirCall[c].op \in {"create", "link"}
  BY <1>1, <1>2 DEF DirAt
<1>4. ids \in SUBSET InboxIds
  BY <1>3 DEF Known, DirInv, DirTypes, Operator
<1>5. /\ r \in DirCall /\ r.at = "setids" /\ r.op = dirCall[c].op
      /\ r.inbox = i /\ r.target = o /\ r.ids = ids /\ r.overtaken = dirCall[c].overtaken
  <2> HIDE DEF ids
  <2> QED
    BY <1>2, <1>4, LookedUp
<1> HIDE DEF r
<1>6. dirCall'[c] = r
  BY <1>1 DEF Continue, DirInv, DirTypes
<1>7. DirAt(dirCall[c])'
  BY <1>1, <1>3, <1>5, <1>6 DEF DirAt, Known
<1>8. Sound(dirCall[c]) => Sound(dirCall[c])'
  <2>1. CASE dirCall[c].overtaken
    BY <1>5, <1>6, <2>1 DEF Sound
  <2>2. CASE Holds(dirCall[c])
    <3>1. i \in rows /\ LinkedTo(i) \subseteq {o}
      BY <1>1, <2>2 DEF Holds, Linking
    <3>2. LinkedTo(dirCall[c].inbox)' = LinkedTo(i)
      BY <1>1, <1>5, <1>6 DEF LinkedTo, Active
    <3>3. Holds(dirCall[c])'
      BY <1>1, <1>3, <1>5, <1>6, <3>1, <3>2 DEF Holds, Linking, Unlinking
    <3> QED
      BY <3>3 DEF Sound
  <2> QED
    BY <2>1, <2>2 DEF Sound
<1> QED
  BY <1>1, <1>5, <1>7, <1>8, ContinueStep

\* What inbox.rm has removed by the time it unlinks.
LEMMA RmFacts ==
  ASSUME NEW c, Holds(dirCall[c]), dirCall[c].op = "rm",
         dirCall[c].at \in {"unlinkmap", "unlinklookup", "setids", "unmap", "unrow"}
  PROVE  /\ dirCall[c].inbox \notin managed /\ dirCall[c].inbox \notin dbFiles
         /\ ~dirCall[c].mapping => dirCall[c].inbox \notin idMapped
BY DEF Holds

LEMMA UnlinkMapStep ==
  ASSUME DirInv, NEW c \in DirCallers, UnlinkMap(c) PROVE DirInv'
<1> DEFINE i == dirCall[c].inbox
           o == OperatorOf(i)
           q == [dirCall[c] EXCEPT !.at = "unlinklookup", !.target = o]
           r == [dirCall[c] EXCEPT !.at = "unmap"]
<1>1. /\ dirCall[c].at = "unlinkmap"
      /\ UNCHANGED <<operators, policies, rows, idMapped, dbFiles, managed>>
      /\ \/ Answer(c)
         \/ o # NoOne /\ Continue(c, q)
         \/ o = NoOne /\ dirCall[c].op = "rm" /\ Continue(c, r)
  BY DEF UnlinkMap, CallAt
<1>2. dirCall[c] \in DirCall /\ DirAt(dirCall[c])
  BY DEF DirInv, DirTypes
<1>3. i \in InboxIds /\ dirCall[c].op \in {"unlink", "rm"}
  BY <1>1, <1>2 DEF DirAt
<1>4. CASE Answer(c)
  BY <1>1, <1>4, AnswerStep
<1>5. CASE o # NoOne /\ Continue(c, q)
  <2>1. o \in LinkedTo(i)
    BY <1>5 DEF OperatorOf
  <2>2. o \in OperatorIds /\ Known(o)
    BY <2>1 DEF LinkedTo, Active, Known
  <2> HIDE DEF o
  <2>3. /\ q \in DirCall /\ q.at = "unlinklookup" /\ q.op = dirCall[c].op
        /\ q.inbox = i /\ q.target = o /\ q.mapping = dirCall[c].mapping
        /\ q.overtaken = dirCall[c].overtaken
    BY <1>2, <2>2 DEF DirCall
  <2> HIDE DEF q
  <2>4. dirCall'[c] = q
    BY <1>5 DEF Continue, DirInv, DirTypes
  <2>5. DirAt(dirCall[c])'
    BY <1>1, <1>3, <2>2, <2>3, <2>4 DEF DirAt, Known
  <2>6. ASSUME Tidy, Sound(dirCall[c]) PROVE Sound(dirCall[c])'
    <3>1. LinkedTo(i) \subseteq {o}
      BY <1>3, <2>1, <2>6, OnlyOperator DEF o
    <3>2. LinkedTo(dirCall[c].inbox)' = LinkedTo(i)
      BY <1>1, <2>3, <2>4 DEF LinkedTo, Active
    <3>3. CASE dirCall[c].overtaken
      BY <2>3, <2>4, <3>3 DEF Sound
    <3>4. CASE Holds(dirCall[c])
      <4>1. dirCall[c].op = "rm" => /\ i \notin managed /\ i \notin dbFiles
                                    /\ ~dirCall[c].mapping => i \notin idMapped
        BY <1>1, <3>4, RmFacts
      <4>2. Holds(dirCall[c])'
        BY <1>1, <1>3, <2>3, <2>4, <3>1, <3>2, <4>1 DEF Holds, Linking, Unlinking
      <4> QED
        BY <4>2 DEF Sound
    <3> QED
      BY <2>6, <3>3, <3>4 DEF Sound
  <2> QED
    BY <1>1, <1>5, <2>3, <2>5, <2>6, ContinueStep
<1>6. CASE o = NoOne /\ dirCall[c].op = "rm" /\ Continue(c, r)
  <2>1. /\ r \in DirCall /\ r.at = "unmap" /\ r.op = "rm" /\ r.inbox = i
        /\ r.mapping = dirCall[c].mapping /\ r.overtaken = dirCall[c].overtaken
    BY <1>2, <1>6, Stepped
  <2> HIDE DEF r
  <2>2. dirCall'[c] = r
    BY <1>6 DEF Continue, DirInv, DirTypes
  <2>3. DirAt(dirCall[c])'
    BY <1>3, <2>1, <2>2 DEF DirAt
  <2>4. ASSUME Tidy, Sound(dirCall[c]) PROVE Sound(dirCall[c])'
    <3>1. LinkedTo(i) = {}
      BY <1>3, <1>6, <2>4, OnlyOperator
    <3>2. LinkedTo(dirCall[c].inbox)' = LinkedTo(i)
      BY <1>1, <2>1, <2>2 DEF LinkedTo, Active
    <3>3. CASE dirCall[c].overtaken
      BY <2>1, <2>2, <3>3 DEF Sound
    <3>4. CASE Holds(dirCall[c])
      <4>1. /\ i \notin managed /\ i \notin dbFiles
            /\ ~dirCall[c].mapping => i \notin idMapped
        BY <1>1, <1>6, <3>4, RmFacts
      <4>2. Holds(dirCall[c])'
        BY <1>1, <2>1, <2>2, <3>1, <3>2, <4>1 DEF Holds, Linking, Unlinking
      <4> QED
        BY <4>2 DEF Sound
    <3> QED
      BY <2>4, <3>3, <3>4 DEF Sound
  <2> QED
    BY <1>1, <1>6, <2>1, <2>3, <2>4, ContinueStep
<1> QED
  BY <1>1, <1>4, <1>5, <1>6

LEMMA UnlinkLookupStep ==
  ASSUME DirInv, NEW c \in DirCallers, UnlinkLookup(c) PROVE DirInv'
<1> DEFINE i == dirCall[c].inbox
           o == dirCall[c].target
           ids == operators[o].inboxIds \ {i}
           r == [dirCall[c] EXCEPT !.at = "setids", !.ids = ids]
<1>1. /\ dirCall[c].at = "unlinklookup" /\ Continue(c, r)
      /\ UNCHANGED <<operators, policies, rows, idMapped, dbFiles, managed>>
  BY DEF UnlinkLookup, CallAt
<1>2. dirCall[c] \in DirCall /\ DirAt(dirCall[c])
  BY DEF DirInv, DirTypes
<1>3. i \in InboxIds /\ Known(o) /\ dirCall[c].op \in {"unlink", "rm"}
  BY <1>1, <1>2 DEF DirAt
<1>4. ids \in SUBSET InboxIds
  BY <1>3 DEF Known, DirInv, DirTypes, Operator
<1>5. /\ r \in DirCall /\ r.at = "setids" /\ r.op = dirCall[c].op /\ r.inbox = i /\ r.target = o
      /\ r.ids = ids /\ r.mapping = dirCall[c].mapping /\ r.overtaken = dirCall[c].overtaken
  <2> HIDE DEF ids
  <2> QED
    BY <1>2, <1>4, LookedUp
<1> HIDE DEF r
<1>6. dirCall'[c] = r
  BY <1>1 DEF Continue, DirInv, DirTypes
<1>7. DirAt(dirCall[c])'
  BY <1>1, <1>3, <1>5, <1>6 DEF DirAt, Known
<1>8. Sound(dirCall[c]) => Sound(dirCall[c])'
  <2>1. CASE dirCall[c].overtaken
    BY <1>5, <1>6, <2>1 DEF Sound
  <2>2. CASE Holds(dirCall[c])
    <3>1. LinkedTo(i) \subseteq {o}
      BY <1>1, <2>2 DEF Holds, Unlinking
    <3>2. LinkedTo(dirCall[c].inbox)' = LinkedTo(i)
      BY <1>1, <1>5, <1>6 DEF LinkedTo, Active
    <3>3. dirCall[c].op = "rm" => /\ i \notin managed /\ i \notin dbFiles
                                  /\ ~dirCall[c].mapping => i \notin idMapped
      BY <1>1, <2>2, RmFacts
    <3>4. Holds(dirCall[c])'
      BY <1>1, <1>3, <1>5, <1>6, <3>1, <3>2, <3>3 DEF Holds, Linking, Unlinking
    <3> QED
      BY <3>4 DEF Sound
  <2> QED
    BY <2>1, <2>2 DEF Sound
<1> QED
  BY <1>1, <1>5, <1>7, <1>8, ContinueStep

\* What storing the computed inboxes does to the links of every inbox.
LEMMA LinksStored ==
  ASSUME DirInv, NEW i \in InboxIds, NEW o \in OperatorIds, NEW ids,
         operators' = [operators EXCEPT ![o].inboxIds = ids], LinkedTo(i) \subseteq {o},
         ids = operators[o].inboxIds \union {i} \/ ids = operators[o].inboxIds \ {i}
  PROVE  /\ \A j \in InboxIds : j # i => LinkedTo(j)' = LinkedTo(j)
         /\ LinkedTo(i)' \subseteq {o}
         /\ ids = operators[o].inboxIds \ {i} => LinkedTo(i)' = {}
<1>1. /\ operators'[o].inboxIds = ids /\ operators'[o].status = operators[o].status
      /\ \A p \in OperatorIds : p # o => operators'[p] = operators[p]
  BY DEF DirInv, DirTypes, Operator
<1>2. ASSUME NEW j \in InboxIds, j # i PROVE LinkedTo(j)' = LinkedTo(j)
  <2>1. j \in operators'[o].inboxIds <=> j \in operators[o].inboxIds
    BY <1>1, <1>2
  <2>2. \A p \in OperatorIds :
          (operators'[p].status = "active" /\ j \in operators'[p].inboxIds)
          <=> (operators[p].status = "active" /\ j \in operators[p].inboxIds)
    BY <1>1, <2>1
  <2> QED
    BY <2>2 DEF LinkedTo, Active
<1>3. LinkedTo(i)' \subseteq {o}
  BY <1>1 DEF LinkedTo, Active
<1>4. ids = operators[o].inboxIds \ {i} => LinkedTo(i)' = {}
  BY <1>1, <1>3 DEF LinkedTo, Active
<1> QED
  BY <1>2, <1>3, <1>4

LEMMA SetInboxIdsStep ==
  ASSUME DirInv, NEW c \in DirCallers, SetInboxIds(c) PROVE DirInv'
<1> DEFINE q == [dirCall[c] EXCEPT !.at = "unmap"]
           r == IF dirCall[c].op = "rm" THEN q ELSE DirIdle
<1>1. /\ dirCall[c].at = "setids" /\ WriteThen(c, r)
      /\ operators' = [operators EXCEPT ![dirCall[c].target].inboxIds = dirCall[c].ids]
      /\ UNCHANGED <<policies, rows, idMapped, dbFiles, managed>>
  BY DEF SetInboxIds, CallAt
<1>2. dirCall[c] \in DirCall /\ DirAt(dirCall[c]) /\ operators \in [OperatorIds -> Operator]
  BY DEF DirInv, DirTypes
<1>3. PICK i \in InboxIds, o \in OperatorIds, ids \in SUBSET InboxIds :
        /\ i = dirCall[c].inbox /\ o = dirCall[c].target /\ ids = dirCall[c].ids
        /\ operators[o].status # "none"
  BY <1>1, <1>2 DEF DirAt, Known, DirCall
<1>4. /\ q \in DirCall /\ q.at = "unmap" /\ q.op = dirCall[c].op /\ q.inbox = i
      /\ q.mapping = dirCall[c].mapping
  BY <1>2, <1>3, Stepped
<1> HIDE DEF q
<1>5. r \in DirCall /\ ((r = DirIdle /\ dirCall[c].op # "rm") \/ (r = q /\ dirCall[c].op = "rm"))
  BY <1>4, IdleCall
<1> HIDE DEF r
<1>6. dirCall'[c] = r
  BY <1>1 DEF WriteThen
<1>7. DirAt(dirCall[c])'
  <2>1. CASE r = DirIdle
    BY <1>6, <2>1, AnsweredCall
  <2>2. CASE r = q /\ dirCall[c].op = "rm"
    BY <1>4, <1>6, <2>2 DEF DirAt
  <2> QED
    BY <1>5, <2>1, <2>2
<1>8. ASSUME Tidy, Holds(dirCall[c]) PROVE Tidy' /\ Holds(dirCall[c])'
  <2>1. dirCall[c].op \in {"create", "link", "unlink", "rm"}
    BY <1>1, <1>2 DEF DirAt
  <2>2. /\ LinkedTo(i) \subseteq {o}
        /\ dirCall[c].op \in {"create", "link"} =>
              ids = operators[o].inboxIds \union {i} /\ i \in rows
        /\ dirCall[c].op \in {"unlink", "rm"} => ids = operators[o].inboxIds \ {i}
    BY <1>1, <1>3, <1>8, <2>1 DEF Holds, Linking, Unlinking
  <2>3. /\ \A j \in InboxIds : j # i => LinkedTo(j)' = LinkedTo(j)
        /\ LinkedTo(i)' \subseteq {o}
        /\ dirCall[c].op \in {"unlink", "rm"} => LinkedTo(i)' = {}
    <3>1. operators' = [operators EXCEPT ![o].inboxIds = ids]
      BY <1>1, <1>3
    <3>2. ids = operators[o].inboxIds \union {i} \/ ids = operators[o].inboxIds \ {i}
      BY <2>1, <2>2
    <3>3. /\ \A j \in InboxIds : j # i => LinkedTo(j)' = LinkedTo(j)
          /\ LinkedTo(i)' \subseteq {o}
          /\ ids = operators[o].inboxIds \ {i} => LinkedTo(i)' = {}
      BY <2>2, <3>1, <3>2, LinksStored
    <3> QED
      BY <2>2, <3>3
  <2>4. LinkedTo(i)' # {} => i \in rows
    BY <2>1, <2>2, <2>3
  <2>5. Tidy'
    BY <1>1, <1>8, <2>3, <2>4 DEF Tidy
  <2>6. Holds(dirCall[c])'
    <3>1. CASE r = DirIdle
      BY <1>6, <3>1, AnsweredCall
    <3>2. CASE r = q /\ dirCall[c].op = "rm"
      <4>1. LinkedTo(dirCall[c].inbox)' = {}
        <5>1. dirCall'[c].inbox = i
          BY <1>4, <1>6, <3>2
        <5>2. LinkedTo(i)' = {}
          BY <2>3, <3>2
        <5> QED
          BY <5>1, <5>2 DEF LinkedTo
      <4>2. i \notin managed /\ i \notin dbFiles /\ (~dirCall[c].mapping => i \notin idMapped)
        BY <1>1, <1>3, <1>8, <3>2, RmFacts
      <4> QED
        BY <1>1, <1>4, <1>6, <3>2, <4>1, <4>2 DEF Holds, Linking, Unlinking
    <3> QED
      BY <1>5, <3>1, <3>2
  <2> QED
    BY <2>5, <2>6
<1>9. /\ operators' \in [OperatorIds -> Operator]
      /\ \A p \in OperatorIds : /\ operators'[p].status = operators[p].status
                                /\ p # o => operators'[p] = operators[p]
  BY <1>1, <1>2, <1>3 DEF Operator
<1>10. /\ \A p \in OperatorIds : /\ operators[p].status # "none" => operators'[p].status # "none"
                                 /\ operators'[p].status = "none" => operators'[p].inboxIds = {}
       /\ rows' \subseteq InboxIds /\ idMapped' \subseteq InboxIds
       /\ dbFiles' \subseteq InboxIds /\ managed' \subseteq InboxIds
  BY <1>1, <1>3, <1>9 DEF DirInv, DirTypes
<1> QED
  BY <1>1, <1>5, <1>7, <1>8, <1>9, <1>10, WriteStep

-----------------------------------------------------------------------------
(* inbox.rm and restarts.                                                   *)

LEMMA ReadLinksStep ==
  ASSUME DirInv, NEW c \in DirCallers, ReadLinks(c) PROVE DirInv'
<1> DEFINE i == dirCall[c].inbox
           mapping == i \in idMapped
           r == [dirCall[c] EXCEPT !.at = "detach", !.mapping = mapping]
<1>1. /\ dirCall[c].at \in {"info", "rm"}
      /\ UNCHANGED <<operators, policies, rows, idMapped, dbFiles, managed>>
      /\ Answer(c) \/ (dirCall[c].at = "rm" /\ Continue(c, r))
  BY DEF ReadLinks, CallAt
<1>2. CASE Answer(c)
  BY <1>1, <1>2, AnswerStep
<1>3. CASE dirCall[c].at = "rm" /\ Continue(c, r)
  <2>1. dirCall[c] \in DirCall /\ DirAt(dirCall[c])
    BY DEF DirInv, DirTypes
  <2>2. i \in InboxIds /\ dirCall[c].op = "rm"
    BY <1>3, <2>1 DEF DirAt
  <2>3. mapping \in BOOLEAN
    OBVIOUS
  <2>4. /\ r \in DirCall /\ r.at = "detach" /\ r.op = "rm" /\ r.inbox = i
        /\ r.overtaken = dirCall[c].overtaken
    <3> HIDE DEF mapping
    <3> QED
      BY <2>1, <2>2, <2>3 DEF DirCall
  <2>5. r.mapping = mapping
    BY <2>1 DEF DirCall
  <2> HIDE DEF r
  <2>6. dirCall'[c] = r
    BY <1>3 DEF Continue, DirInv, DirTypes
  <2>7. DirAt(dirCall[c])'
    BY <2>2, <2>4, <2>6 DEF DirAt
  <2>8. Sound(dirCall[c])'
    BY <1>1, <2>4, <2>5, <2>6 DEF Sound, Holds, Linking, Unlinking
  <2> QED
    BY <1>1, <1>3, <2>4, <2>7, <2>8, ContinueStep
<1> QED
  BY <1>1, <1>2, <1>3

LEMMA DetachInboxStep ==
  ASSUME DirInv, NEW c \in DirCallers, DetachInbox(c) PROVE DirInv'
<1> DEFINE i == dirCall[c].inbox
           r == [dirCall[c] EXCEPT !.at = "unfile"]
<1>1. dirCall[c].at = "detach" /\ UNCHANGED <<operators, policies, rows, idMapped, dbFiles>>
  BY DEF DetachInbox, CallAt
<1>2. CASE Answer(c) /\ UNCHANGED managed
  BY <1>1, <1>2, AnswerStep
<1>3. CASE managed' = managed \ {i} /\ Continue(c, r)
  <2>1. dirCall[c] \in DirCall /\ DirAt(dirCall[c])
    BY DEF DirInv, DirTypes
  <2>2. i \in InboxIds /\ dirCall[c].op = "rm"
    BY <1>1, <2>1 DEF DirAt
  <2>3. /\ r \in DirCall /\ r.at = "unfile" /\ r.op = "rm" /\ r.inbox = i
        /\ r.mapping = dirCall[c].mapping /\ r.overtaken = dirCall[c].overtaken
    BY <2>1, <2>2, Stepped
  <2> HIDE DEF r
  <2>4. dirCall'[c] = r
    BY <1>3 DEF Continue, DirInv, DirTypes
  <2>5. DirAt(dirCall[c])'
    BY <2>2, <2>3, <2>4 DEF DirAt
  <2>6. Sound(dirCall[c]) => Sound(dirCall[c])'
    BY <1>1, <1>3, <2>2, <2>3, <2>4 DEF Sound, Holds, Linking, Unlinking
  <2>7. managed' \subseteq managed
    BY <1>3
  <2> QED
    BY <1>1, <1>3, <2>3, <2>5, <2>6, <2>7, ContinueStep
<1> QED
  BY <1>2, <1>3 DEF DetachInbox

LEMMA DeleteFilesStep ==
  ASSUME DirInv, NEW c \in DirCallers, DeleteFiles(c) PROVE DirInv'
<1> DEFINE i == dirCall[c].inbox
           r == [dirCall[c] EXCEPT !.at = "unlinkmap"]
<1>1. dirCall[c].at = "unfile" /\ UNCHANGED <<operators, policies, rows, idMapped, managed>>
  BY DEF DeleteFiles, CallAt
<1>2. CASE Answer(c) /\ UNCHANGED dbFiles
  BY <1>1, <1>2, AnswerStep
<1>3. CASE dbFiles' = dbFiles \ {i} /\ Continue(c, r)
  <2>1. dirCall[c] \in DirCall /\ DirAt(dirCall[c])
    BY DEF DirInv, DirTypes
  <2>2. i \in InboxIds /\ dirCall[c].op = "rm"
    BY <1>1, <2>1 DEF DirAt
  <2>3. /\ r \in DirCall /\ r.at = "unlinkmap" /\ r.op = "rm" /\ r.inbox = i
        /\ r.mapping = dirCall[c].mapping /\ r.overtaken = dirCall[c].overtaken
    BY <2>1, <2>2, Stepped
  <2> HIDE DEF r
  <2>4. dirCall'[c] = r
    BY <1>3 DEF Continue, DirInv, DirTypes
  <2>5. DirAt(dirCall[c])'
    BY <2>2, <2>3, <2>4 DEF DirAt
  <2>6. Sound(dirCall[c]) => Sound(dirCall[c])'
    BY <1>1, <1>3, <2>2, <2>3, <2>4 DEF Sound, Holds, Linking, Unlinking
  <2>7. dbFiles' \subseteq dbFiles
    BY <1>3
  <2> QED
    BY <1>1, <1>3, <2>3, <2>5, <2>6, <2>7, ContinueStep
<1> QED
  BY <1>2, <1>3 DEF DeleteFiles

LEMMA RemoveMappingStep ==
  ASSUME DirInv, NEW c \in DirCallers, RemoveMapping(c) PROVE DirInv'
<1> DEFINE i == dirCall[c].inbox
           r == [dirCall[c] EXCEPT !.at = "unrow"]
<1>1. /\ dirCall[c].at = "unmap" /\ UNCHANGED <<operators, policies, rows, dbFiles, managed>>
      /\ idMapped' = IF dirCall[c].mapping THEN idMapped \ {i} ELSE idMapped
      /\ Continue(c, r)
  BY DEF RemoveMapping, CallAt
<1>2. dirCall[c] \in DirCall /\ DirAt(dirCall[c])
  BY DEF DirInv, DirTypes
<1>3. i \in InboxIds /\ dirCall[c].op = "rm"
  BY <1>1, <1>2 DEF DirAt
<1>4. /\ r \in DirCall /\ r.at = "unrow" /\ r.op = "rm" /\ r.inbox = i
      /\ r.mapping = dirCall[c].mapping /\ r.overtaken = dirCall[c].overtaken
  BY <1>2, <1>3, Stepped
<1> HIDE DEF r
<1>5. dirCall'[c] = r
  BY <1>1 DEF Continue, DirInv, DirTypes
<1>6. DirAt(dirCall[c])'
  BY <1>3, <1>4, <1>5 DEF DirAt
<1>7. Sound(dirCall[c]) => Sound(dirCall[c])'
  <2>1. CASE dirCall[c].overtaken
    BY <1>4, <1>5, <2>1 DEF Sound
  <2>2. CASE Holds(dirCall[c])
    <3>1. /\ i \notin managed /\ i \notin dbFiles /\ LinkedTo(i) = {}
          /\ ~dirCall[c].mapping => i \notin idMapped
      BY <1>1, <1>3, <2>2 DEF Holds
    <3>2. i \notin idMapped'
      BY <1>1, <3>1
    <3>3. LinkedTo(dirCall[c].inbox)' = {}
      BY <1>1, <1>4, <1>5, <3>1 DEF LinkedTo, Active
    <3>4. Holds(dirCall[c])'
      BY <1>1, <1>4, <1>5, <3>1, <3>2, <3>3 DEF Holds, Linking, Unlinking
    <3> QED
      BY <3>4 DEF Sound
  <2> QED
    BY <2>1, <2>2 DEF Sound
<1>8. idMapped' \subseteq idMapped
  BY <1>1
<1> QED
  BY <1>1, <1>4, <1>6, <1>7, <1>8, ContinueStep

LEMMA RemoveInboxRowStep ==
  ASSUME DirInv, NEW c \in DirCallers, RemoveInboxRow(c) PROVE DirInv'
<1> DEFINE i == dirCall[c].inbox
<1>1. /\ dirCall[c].at = "unrow" /\ rows' = rows \ {i} /\ WriteThen(c, DirIdle)
      /\ UNCHANGED <<operators, policies, idMapped, dbFiles, managed>>
  BY DEF RemoveInboxRow, CallAt
<1>2. dirCall[c] \in DirCall /\ i \in InboxIds /\ dirCall[c].op = "rm"
  BY <1>1 DEF DirInv, DirTypes, DirAt
<1>3. dirCall'[c] = DirIdle
  BY <1>1 DEF WriteThen
<1>4. DirAt(dirCall[c])' /\ Holds(dirCall[c])'
  BY <1>3, AnsweredCall
<1>5. ASSUME Tidy, Holds(dirCall[c]) PROVE Tidy'
  <2>1. i \notin managed /\ i \notin dbFiles /\ i \notin idMapped /\ LinkedTo(i) = {}
    BY <1>1, <1>2, <1>5 DEF Holds
  <2>2. \A j \in InboxIds : LinkedTo(j)' = LinkedTo(j)
    BY <1>1 DEF LinkedTo, Active
  <2> HIDE DEF i
  <2> QED
    BY <1>1, <1>5, <2>1, <2>2 DEF Tidy
<1>6. /\ operators' \in [OperatorIds -> Operator]
      /\ \A p \in OperatorIds : /\ operators[p].status # "none" => operators'[p].status # "none"
                                /\ operators'[p].status = "none" => operators'[p].inboxIds = {}
      /\ rows' \subseteq InboxIds /\ idMapped' \subseteq InboxIds
      /\ dbFiles' \subseteq InboxIds /\ managed' \subseteq InboxIds
  BY <1>1 DEF DirInv, DirTypes
<1> QED
  BY <1>1, <1>4, <1>5, <1>6, IdleCall, WriteStep

LEMMA RestartDirectoryStep ==
  ASSUME DirInv, RestartDirectory PROVE DirInv'
<1>1. /\ operators' = [o \in OperatorIds |-> [operators[o] EXCEPT !.status =
                         IF operators[o].status = "none" THEN "none" ELSE "removed"]]
      /\ policies' = [p \in PolicyIds |-> IF policies[p] = "none" THEN "none" ELSE "removed"]
      /\ managed' = rows /\ dbFiles' = dbFiles \union rows
      /\ dirCall' = [c \in DirCallers |-> DirIdle]
      /\ UNCHANGED <<rows, idMapped, overlapped>>
  BY DEF RestartDirectory
<1>2. /\ operators' \in [OperatorIds -> Operator]
      /\ \A o \in OperatorIds :
            /\ operators'[o].inboxIds = operators[o].inboxIds
            /\ operators'[o].status # "active"
            /\ operators'[o].status = "none" => operators[o].status = "none"
  BY <1>1 DEF DirInv, DirTypes, Operator
<1>3. policies' \in [PolicyIds -> {"none", "active", "removed"}]
  BY <1>1
<1>4. /\ dirCall' \in [DirCallers -> DirCall]
      /\ \A c \in DirCallers : DirAt(dirCall[c])' /\ Holds(dirCall[c])'
  BY <1>1, IdleCall, AnsweredCall
<1>5. DirTypes'
  BY <1>1, <1>2, <1>3, <1>4 DEF DirInv, DirTypes
<1>6. \A i \in InboxIds : LinkedTo(i)' \subseteq LinkedTo(i)
  BY <1>2 DEF LinkedTo, Active
<1>7. Tidy => Tidy'
  BY <1>1, <1>6, TidyKept
<1> QED
  BY <1>1, <1>4, <1>5, <1>7 DEF DirInv, Sound

LEMMA DirStep == DirInv /\ [InboxesNext]_dirVars => DirInv'
<1> SUFFICES ASSUME DirInv, [InboxesNext]_dirVars PROVE DirInv'
  OBVIOUS
<1>1. CASE UNCHANGED dirVars
  BY <1>1 DEF dirVars, DirInv, DirTypes, DirAt, Known, Tidy, Sound, Holds, Linking, Unlinking,
     LinkedTo, Active
<1>2. ASSUME NEW c \in DirCallers, InboxStep(c) PROVE DirInv'
  BY <1>2, RegisteredStep, MapInboxStep, ResolveForLinkStep, LinkMapStep, LinkLookupStep,
     UnlinkMapStep, UnlinkLookupStep, SetInboxIdsStep, ReadLinksStep, DetachInboxStep,
     DeleteFilesStep, RemoveMappingStep, RemoveInboxRowStep DEF InboxStep
<1>3. ASSUME NEW c \in DirCallers,
             \/ RemoveOperator(c) \/ OperatorRemoved(c) \/ OperatorInfo(c) \/ PolicyStep(c)
             \/ \E given \in BOOLEAN : UpdateOperator(c, given)
      PROVE  DirInv'
  BY <1>3, RemoveOperatorStep, OperatorRemovedStep, OperatorInfoStep, PolicyStepStep,
     UpdateOperatorStep
<1>4. ASSUME NEW c \in DirCallers, NEW i \in InboxIds,
             \/ \E o \in OperatorIds : BeginInbox(c, "link", i, o, FALSE)
             \/ BeginInbox(c, "unlink", i, NoOne, FALSE)
             \/ BeginInbox(c, "info", i, NoOne, FALSE)
             \/ \E execute \in BOOLEAN : BeginInbox(c, "rm", i, NoOne, execute)
      PROVE  DirInv'
  BY <1>4, BeginInboxStep
<1> QED
  BY <1>1, <1>2, <1>3, <1>4, CreateOperatorStep, CreatePolicyStep, BeginsStep, CreateInboxStep,
     RestartDirectoryStep DEF InboxesNext

\* Unless a call wrote on what another call's write had overtaken, or inboxIds
\* were given to operator.update directly, every inbox has at most one operator
\* and whatever exists for it has its row, for any number of calls under way,
\* operators, inboxes and restarts (inbox-actions.ts, operator-manager.ts).
THEOREM InboxesAreConsistent == InboxesSpec => []InboxesConsistent
<1>1. DirInv => InboxesConsistent
  <2> SUFFICES ASSUME DirInv, Tidy PROVE InboxesConsistent
    BY DEF DirInv, InboxesConsistent
  <2>1. ASSUME NEW i \in InboxIds PROVE Cardinality(LinkedTo(i)) <= 1
    <3>1. CASE LinkedTo(i) = {}
      <4>1. Cardinality(LinkedTo(i)) = 0
        BY <3>1, FS_EmptySet
      <4> QED
        BY <4>1
    <3>2. CASE LinkedTo(i) # {}
      <4>1. LinkedTo(i) = {OperatorOf(i)}
        BY <3>2, OnlyOperator
      <4>2. Cardinality({OperatorOf(i)}) = 1
        BY FS_Singleton
      <4> QED
        BY <4>1, <4>2
    <3> QED
      BY <3>1, <3>2
  <2> QED
    BY <2>1 DEF Tidy, InboxesConsistent
<1> QED
  BY <1>1, DirInitially, DirStep, PTL DEF InboxesSpec

\* What was removed stays removed, operator or policy, whatever calls
\* interleave: update, link and unlink never write a status, remove only the
\* removed one, and a restart drops what is active (operator-manager.ts,
\* policy-manager.ts).
THEOREM RemovedIsFinal == InboxesSpec => RemovedStaysRemoved
<1> DEFINE OperatorsStay ==
               \A o \in OperatorIds :
                   operators[o].status = "removed" => operators'[o].status = "removed"
           PoliciesStay ==
               \A p \in PolicyIds : policies[p] = "removed" => policies'[p] = "removed"
<1>1. ASSUME DirInv, [InboxesNext]_dirVars PROVE OperatorsStay /\ PoliciesStay
  <2>0. /\ operators \in [OperatorIds -> Operator]
        /\ policies \in [PolicyIds -> {"none", "active", "removed"}]
        /\ \A c \in DirCallers : DirAt(dirCall[c]) /\ dirCall[c] \in DirCall
    BY <1>1 DEF DirInv, DirTypes
  <2>1. CASE UNCHANGED <<operators, policies>>
    BY <2>1
  <2>2. ASSUME NEW o \in OperatorIds, CreateOperator(o) PROVE OperatorsStay /\ PoliciesStay
    BY <2>0, <2>2 DEF CreateOperator
  <2>3. ASSUME NEW p \in PolicyIds, CreatePolicy(p) PROVE OperatorsStay /\ PoliciesStay
    BY <2>0, <2>3 DEF CreatePolicy
  <2>4. ASSUME NEW c \in DirCallers, NEW given \in BOOLEAN, UpdateOperator(c, given)
        PROVE  OperatorsStay /\ PoliciesStay
    <3> DEFINE o == dirCall[c].target
               ids == IF given THEN InboxIds ELSE operators[o].inboxIds
    <3>1. /\ UNCHANGED policies
          /\ \/ UNCHANGED operators
             \/ operators' = [operators EXCEPT ![o].inboxIds = ids]
      BY <2>4 DEF UpdateOperator
    <3> HIDE DEF ids, o
    <3> QED
      BY <2>0, <3>1 DEF Operator
  <2>5. ASSUME NEW c \in DirCallers, OperatorRemoved(c) PROVE OperatorsStay /\ PoliciesStay
    <3> DEFINE o == dirCall[c].target
               r == MarkRemoved(dirCall[c].old)
    <3>1. UNCHANGED policies /\ operators' = [operators EXCEPT ![o] = r]
      BY <2>5 DEF OperatorRemoved
    <3>2. r.status = "removed"
      BY <2>0 DEF MarkRemoved, DirCall, Operator
    <3> HIDE DEF r, o
    <3> QED
      BY <2>0, <3>1, <3>2
  <2>6. ASSUME NEW c \in DirCallers, PolicyStep(c) PROVE OperatorsStay /\ PoliciesStay
    <3>1. /\ UNCHANGED operators
          /\ \/ UNCHANGED policies
             \/ policies' = [policies EXCEPT ![dirCall[c].target] = "removed"]
             \/ /\ policies[dirCall[c].target] = "active"
                /\ policies' = [policies EXCEPT ![dirCall[c].target] = "active"]
      BY <2>6 DEF PolicyStep, PolicyThere
    <3> QED
      BY <2>0, <3>1
  <2>7. ASSUME NEW c \in DirCallers, SetInboxIds(c) PROVE OperatorsStay /\ PoliciesStay
    <3> DEFINE o == dirCall[c].target
               ids == dirCall[c].ids
    <3>1. UNCHANGED policies /\ operators' = [operators EXCEPT ![o].inboxIds = ids]
      BY <2>7 DEF SetInboxIds
    <3> HIDE DEF ids, o
    <3> QED
      BY <2>0, <3>1 DEF Operator
  <2>8. CASE RestartDirectory
    BY <2>0, <2>8 DEF RestartDirectory, Operator
  <2>9. CASE UNCHANGED dirVars
    BY <2>1, <2>9 DEF dirVars
  <2>10. ASSUME NEW c \in DirCallers,
                \/ InboxStep(c) /\ ~SetInboxIds(c)
                \/ RemoveOperator(c) \/ OperatorInfo(c)
         PROVE  UNCHANGED <<operators, policies>>
    BY <2>10 DEF InboxStep, Registered, MapInbox, ResolveForLink, LinkMap, LinkLookup, UnlinkMap,
       UnlinkLookup, ReadLinks, DetachInbox, DeleteFiles, RemoveMapping, RemoveInboxRow,
       RemoveOperator, OperatorInfo
  <2>11. \A c, op, o, i, execute :
           BeginOperator(c, op, o) \/ BeginPolicy(c, op, o) \/ CreateInbox(c, i, o)
           \/ BeginInbox(c, op, i, o, execute) => UNCHANGED <<operators, policies>>
    BY DEF BeginOperator, BeginPolicy, CreateInbox, BeginInbox
  <2> HIDE DEF OperatorsStay, PoliciesStay
  <2> QED
    BY <1>1, <2>1, <2>2, <2>3, <2>4, <2>5, <2>6, <2>7, <2>8, <2>9, <2>10, <2>11 DEF InboxesNext
<1>2. DirInv /\ [InboxesNext]_dirVars => [OperatorsStay /\ PoliciesStay]_dirVars
  BY <1>1
<1> QED
  BY <1>2, DirInitially, DirStep, PTL DEF InboxesSpec, RemovedStaysRemoved

-----------------------------------------------------------------------------
(* Chats: the mapping of conv ids agrees with what callers were told, and a  *)
(* purge knows what is left of its chat, unless a write overtook it.         *)

ChatStep ==
    {"idle", "create", "list", "command", "leave", "ensure", "match", "plan", "revoke", "unrow",
     "unfile", "purged"}

ChatCall ==
    [at : ChatStep, op : {"none", "create", "list", "command", "leave", "rm"},
     who : ChatIdentities \union {NoId}, ref : ConvIds \union Groups \union {NoConv},
     group : ConvIds \union Groups \union {NoGroup}, execute : BOOLEAN, creds : SUBSET ChatCreds,
     conv : ConvIds \union {NoConv}, bound : ChatIdentities \union {NoId}, overtaken : BOOLEAN]

\* What a call works on at each step.
ChatAt(r) ==
    /\ r.at = "idle" => r = ChatIdle
    /\ r.at \in {"create", "list", "command", "leave"} => r.who \in ChatIdentities
    /\ r.at = "ensure" => r.group \in Groups
    /\ r.at \in {"leave", "match", "plan", "revoke", "unrow", "unfile", "purged"} =>
          r.group # NoGroup
    /\ r.at \in {"revoke", "unrow", "unfile"} /\ r.bound # NoId =>
          r.group \in Groups /\ identityRow[r.bound].group = r.group
    /\ r.at \in {"unrow", "unfile"} => r.bound # NoId /\ ~client[r.bound].on
    /\ r.at = "unfile" => ~identityRow[r.bound].there

ChatTypes ==
    /\ identityRow \in [ChatIdentities -> [there : BOOLEAN, group : Groups \union {NoGroup}]]
    /\ \A m, n \in ChatIdentities : m # n =>
          identityRow[m].group = NoGroup \/ identityRow[m].group # identityRow[n].group
    /\ memberOf \in [ChatIdentities -> SUBSET Groups]
    /\ client \in [ChatIdentities -> [on : BOOLEAN, groups : SUBSET Groups]]
    /\ localId \in [Groups -> ConvIds \union {NoConv}]
    /\ scoped \in [ChatCreds -> [status : {"none", "active", "revoked"},
                                 chat : ConvIds \union Groups \union {NoConv}]]
    /\ \A k \in ChatCreds : scoped[k].status = "active" => scoped[k].chat # NoConv
    /\ chatCall \in [ChatCallers -> ChatCall]
    /\ \A c \in ChatCallers : ChatAt(chatCall[c])

\* The mapping of conv ids and what callers were told of it.
MapInv ==
    /\ told \subseteq [conv : ConvIds, group : Groups]
    /\ \A t, u \in told : t.conv = u.conv => t.group = u.group
    /\ \A g \in Groups : localId[g] # NoConv => \E t \in told : t.conv = localId[g] /\ t.group = g
    /\ \A t \in told : t.conv \notin unmapped => localId[t.group] = t.conv
    /\ \A v \in unmapped : \E t \in told : t.conv = v
    /\ \A g \in Groups : localId[g] \notin unmapped

\* A purge removes a conv id that was told.
ConvTold(r) == r.conv # NoConv => \E t \in told : t.conv = r.conv

\* No active credential for a chat but those the purge is going to revoke.
OnlyLeft(ids, creds) ==
    \A k \in ChatCreds : scoped[k].status = "active" /\ scoped[k].chat \in ids => k \in creds

\* What a purge has read or done, for the group it is about.
PurgeHolds(r) ==
    r.group \in Groups =>
        /\ r.at \in {"leave", "match", "plan"} =>
              (r.ref \in ConvIds /\ NetworkOf(r.ref) # {} => localId[r.group] = r.ref)
        /\ r.at = "plan" => OnlyLeft({r.group, r.ref, localId[r.group]}, r.creds)
        /\ r.at = "revoke" => localId[r.group] = r.conv
        /\ r.at = "revoke" => OnlyLeft({r.group, r.ref, r.conv}, r.creds)
        /\ r.at \in {"unrow", "unfile", "purged"} =>
              localId[r.group] = NoConv /\ OnlyLeft({r.group, r.ref, r.conv}, {})
        /\ r.at \in {"revoke", "unrow"} => BoundTo(r.group) \subseteq {r.bound}
        /\ r.at \in {"unfile", "purged"} => BoundTo(r.group) = {}

\* An identity without a row has no client, and its database is on its way out.
Leftovers ==
    \A n \in ChatIdentities : ~identityRow[n].there =>
        /\ ~client[n].on
        /\ n \in dbOf => \/ identityRow[n].group \in broken
                         \/ \E c \in ChatCallers :
                                chatCall[c].at = "unfile" /\ chatCall[c].bound = n

ChatInv ==
    /\ ChatTypes /\ MapInv /\ Leftovers /\ PurgeLeavesNothing
    /\ \A c \in ChatCallers :
          ConvTold(chatCall[c]) /\ (chatCall[c].overtaken \/ PurgeHolds(chatCall[c]))

LEMMA IdleChat ==
  /\ ChatIdle \in ChatCall /\ ChatIdle.at = "idle" /\ ChatIdle.conv = NoConv
  /\ ~ChatIdle.overtaken /\ ChatIdle.group \notin Groups /\ ChatIdle.bound = NoId
<1>1. /\ ChatIdle.at = "idle" /\ ChatIdle.conv = NoConv /\ ~ChatIdle.overtaken
      /\ ChatIdle.group \notin Groups /\ ChatIdle.bound = NoId
  BY ChatIds DEF ChatIdle
<1>2. ChatIdle \in ChatCall
  BY DEF ChatIdle, ChatCall, ChatStep
<1> QED
  BY <1>1, <1>2

\* A call that has been answered.
LEMMA ChatAnswered ==
  ASSUME NEW c, chatCall'[c] = ChatIdle
  PROVE  ChatAt(chatCall[c])' /\ PurgeHolds(chatCall[c])' /\ ConvTold(chatCall[c])'
BY IdleChat DEF ChatAt, PurgeHolds, ConvTold

LEMMA ChatInitially == ChatsInit => ChatInv
<1> SUFFICES ASSUME ChatsInit PROVE ChatInv
  OBVIOUS
<1>1. \A c \in ChatCallers : chatCall[c] = ChatIdle
  BY DEF ChatsInit
<1>2. \A c \in ChatCallers : ChatAt(chatCall[c]) /\ PurgeHolds(chatCall[c]) /\ ConvTold(chatCall[c])
  BY <1>1, IdleChat DEF ChatAt, PurgeHolds, ConvTold
<1>3. /\ memberOf \in [ChatIdentities -> SUBSET Groups]
      /\ client \in [ChatIdentities -> [on : BOOLEAN, groups : SUBSET Groups]]
      /\ identityRow \in [ChatIdentities -> [there : BOOLEAN, group : Groups \union {NoGroup}]]
      /\ \A n \in ChatIdentities : identityRow[n].there
  BY DEF ChatsInit
<1>4. /\ scoped \in [ChatCreds -> [status : {"none", "active", "revoked"},
                                   chat : ConvIds \union Groups \union {NoConv}]]
      /\ \A k \in ChatCreds : scoped[k].status = "none"
      /\ localId \in [Groups -> ConvIds \union {NoConv}] /\ \A g \in Groups : localId[g] = NoConv
  BY DEF ChatsInit
<1>5. chatCall \in [ChatCallers -> ChatCall]
  BY IdleChat DEF ChatsInit
<1>6. ChatTypes
  BY <1>2, <1>3, <1>4, <1>5 DEF ChatsInit, ChatTypes
<1>7. MapInv
  BY <1>4 DEF ChatsInit, MapInv
<1>8. Leftovers /\ PurgeLeavesNothing
  BY <1>3 DEF ChatsInit, Leftovers, PurgeLeavesNothing
<1> QED
  BY <1>2, <1>6, <1>7, <1>8 DEF ChatInv

\* A call that another call's step leaves as it is.
LEMMA KeptChat ==
  ASSUME ChatInv, NEW d \in ChatCallers, chatCall'[d] = chatCall[d],
         UNCHANGED <<identityRow, localId, scoped, told>>,
         \A n \in ChatIdentities : client'[n].on => client[n].on
  PROVE  /\ chatCall'[d] \in ChatCall /\ ChatAt(chatCall[d])' /\ ConvTold(chatCall[d])'
         /\ chatCall'[d].overtaken \/ PurgeHolds(chatCall[d])'
<1>1. /\ chatCall[d] \in ChatCall /\ ChatAt(chatCall[d]) /\ ConvTold(chatCall[d])
      /\ chatCall[d].overtaken \/ PurgeHolds(chatCall[d])
  BY DEF ChatInv, ChatTypes
<1>2. ChatAt(chatCall[d])'
  BY <1>1 DEF ChatAt, ChatCall
<1>3. PurgeHolds(chatCall[d]) => PurgeHolds(chatCall[d])'
  BY DEF PurgeHolds, OnlyLeft, NetworkOf, BoundTo
<1>4. ConvTold(chatCall[d])'
  BY <1>1 DEF ConvTold
<1> QED
  BY <1>1, <1>2, <1>3, <1>4

\* A call under way that another's write overtakes.
LEMMA OvertakenChat ==
  ASSUME ChatInv, NEW d \in ChatCallers,
         chatCall'[d] = (IF chatCall[d] = ChatIdle THEN ChatIdle
                         ELSE [chatCall[d] EXCEPT !.overtaken = TRUE]),
         told \subseteq told',
         \A n \in ChatIdentities : /\ client'[n].on => client[n].on
                                   /\ identityRow'[n].there => identityRow[n].there
                                   /\ identityRow'[n].group = identityRow[n].group
  PROVE  /\ chatCall'[d] \in ChatCall /\ ChatAt(chatCall[d])' /\ ConvTold(chatCall[d])'
         /\ chatCall'[d].overtaken \/ PurgeHolds(chatCall[d])'
         /\ chatCall'[d].at = chatCall[d].at /\ chatCall'[d].bound = chatCall[d].bound
<1>1. CASE chatCall[d] = ChatIdle
  <2>1. chatCall'[d] = ChatIdle
    BY <1>1
  <2> QED
    BY <1>1, <2>1, IdleChat, ChatAnswered
<1>2. CASE chatCall[d] # ChatIdle
  <2>1. chatCall[d] \in ChatCall /\ ChatAt(chatCall[d]) /\ ConvTold(chatCall[d])
    BY DEF ChatInv, ChatTypes
  <2>2. /\ chatCall'[d] \in ChatCall /\ chatCall'[d].overtaken
        /\ chatCall'[d].at = chatCall[d].at /\ chatCall'[d].bound = chatCall[d].bound
        /\ chatCall'[d].who = chatCall[d].who /\ chatCall'[d].group = chatCall[d].group
        /\ chatCall'[d].conv = chatCall[d].conv
    BY <1>2, <2>1 DEF ChatCall
  <2>3. chatCall[d].at # "idle"
    BY <1>2, <2>1 DEF ChatAt
  <2>4. chatCall[d].bound \in ChatIdentities \union {NoId}
    BY <2>1 DEF ChatCall
  <2>5. ChatAt(chatCall[d])'
    BY <2>1, <2>2, <2>3, <2>4 DEF ChatAt
  <2>6. ConvTold(chatCall[d])'
    BY <2>1, <2>2 DEF ConvTold
  <2> QED
    BY <2>2, <2>5, <2>6
<1> QED
  BY <1>1, <1>2

LEMMA LeftoversKept ==
  ASSUME Leftovers, UNCHANGED identityRow, dbOf' \subseteq dbOf, broken \subseteq broken',
         \A n \in ChatIdentities : client'[n].on => client[n].on,
         \A d \in ChatCallers : chatCall[d].at = "unfile" =>
            \/ chatCall'[d].at = "unfile" /\ chatCall'[d].bound = chatCall[d].bound
            \/ chatCall[d].bound \notin dbOf'
            \/ identityRow[chatCall[d].bound].group \in broken'
  PROVE  Leftovers'
BY DEF Leftovers

\* A step of one call that changes nothing the others have read.
LEMMA GoesStep ==
  ASSUME ChatInv, NEW c \in ChatCallers, NEW r \in ChatCall, ChatGoes(c, r),
         UNCHANGED <<identityRow, localId, scoped, told, unmapped, client>>,
         memberOf' \in [ChatIdentities -> SUBSET Groups],
         dbOf' \subseteq dbOf, broken \subseteq broken',
         ChatAt(chatCall[c])', ConvTold(chatCall[c])',
         chatCall'[c].overtaken \/ PurgeHolds(chatCall[c])',
         chatCall[c].at = "unfile" => \/ chatCall[c].bound \notin dbOf'
                                      \/ identityRow[chatCall[c].bound].group \in broken',
         PurgeLeavesNothing'
  PROVE  ChatInv'
<1>1. /\ chatCall' \in [ChatCallers -> ChatCall]
      /\ \A d \in ChatCallers : d # c => chatCall'[d] = chatCall[d]
  BY DEF ChatGoes, ChatInv, ChatTypes
<1>2. \A d \in ChatCallers : /\ ChatAt(chatCall[d])' /\ ConvTold(chatCall[d])'
                             /\ chatCall'[d].overtaken \/ PurgeHolds(chatCall[d])'
  <2>1. ASSUME NEW d \in ChatCallers, d # c
        PROVE  /\ ChatAt(chatCall[d])' /\ ConvTold(chatCall[d])'
               /\ chatCall'[d].overtaken \/ PurgeHolds(chatCall[d])'
    BY <1>1, <2>1, KeptChat
  <2> QED
    BY <2>1
<1>3. ChatTypes'
  BY <1>1, <1>2 DEF ChatInv, ChatTypes
<1>4. MapInv'
  BY DEF ChatInv, MapInv
<1>5. Leftovers'
  BY <1>1, LeftoversKept DEF ChatInv
<1> QED
  BY <1>2, <1>3, <1>4, <1>5 DEF ChatInv

\* A call that ends without having written anything.
LEMMA ChatEnds ==
  ASSUME ChatInv, NEW c \in ChatCallers, ChatGoes(c, ChatIdle),
         UNCHANGED <<identityRow, localId, scoped, told, unmapped, client, verdicts>>,
         memberOf' \in [ChatIdentities -> SUBSET Groups],
         dbOf' \subseteq dbOf, broken \subseteq broken',
         chatCall[c].at = "unfile" => \/ chatCall[c].bound \notin dbOf'
                                      \/ identityRow[chatCall[c].bound].group \in broken'
  PROVE  ChatInv'
<1>1. chatCall'[c] = ChatIdle
  BY DEF ChatGoes, ChatInv, ChatTypes
<1>2. PurgeLeavesNothing'
  BY DEF ChatInv, PurgeLeavesNothing
<1> QED
  BY <1>1, <1>2, IdleChat, ChatAnswered, GoesStep

\* A step that writes what other calls may have read: they are overtaken.
LEMMA WritesStep ==
  ASSUME ChatInv, NEW c \in ChatCallers, NEW r \in ChatCall, ChatWrites(c, r),
         UNCHANGED <<memberOf, dbOf, verdicts, broken>>, told \subseteq told',
         identityRow' \in [ChatIdentities -> [there : BOOLEAN, group : Groups \union {NoGroup}]],
         client' \in [ChatIdentities -> [on : BOOLEAN, groups : SUBSET Groups]],
         localId' \in [Groups -> ConvIds \union {NoConv}],
         scoped' \in [ChatCreds -> [status : {"none", "active", "revoked"},
                                    chat : ConvIds \union Groups \union {NoConv}]],
         \A k \in ChatCreds : scoped'[k].status = "active" => scoped'[k].chat # NoConv,
         \A n \in ChatIdentities : /\ client'[n].on => client[n].on
                                   /\ identityRow'[n].there => identityRow[n].there
                                   /\ identityRow'[n].group = identityRow[n].group,
         MapInv', Leftovers', ChatAt(chatCall[c])', ConvTold(chatCall[c])',
         chatCall'[c].overtaken \/ PurgeHolds(chatCall[c])'
  PROVE  ChatInv'
<1>1. /\ chatCall'[c] = r
      /\ chatCall' = [d \in ChatCallers |->
           IF d = c THEN r ELSE IF chatCall[d] = ChatIdle THEN ChatIdle
           ELSE [chatCall[d] EXCEPT !.overtaken = TRUE]]
  BY DEF ChatWrites
<1>2. ASSUME NEW d \in ChatCallers, d # c
      PROVE  /\ chatCall'[d] \in ChatCall /\ ChatAt(chatCall[d])' /\ ConvTold(chatCall[d])'
             /\ chatCall'[d].overtaken \/ PurgeHolds(chatCall[d])'
  <2>1. chatCall'[d] = (IF chatCall[d] = ChatIdle THEN ChatIdle
                        ELSE [chatCall[d] EXCEPT !.overtaken = TRUE])
    BY <1>1, <1>2
  <2> QED
    BY <2>1, OvertakenChat
<1>3. chatCall' \in [ChatCallers -> ChatCall]
  BY <1>1, <1>2
<1>4. \A d \in ChatCallers : /\ ChatAt(chatCall[d])' /\ ConvTold(chatCall[d])'
                             /\ chatCall'[d].overtaken \/ PurgeHolds(chatCall[d])'
  BY <1>2
<1>5. ChatTypes'
  BY <1>3, <1>4 DEF ChatInv, ChatTypes
<1>6. PurgeLeavesNothing'
  BY DEF ChatInv, PurgeLeavesNothing
<1> QED
  BY <1>4, <1>5, <1>6 DEF ChatInv

\* A write that keeps rows and files leaves the leftovers as they are.
LEMMA WriteLeftovers ==
  ASSUME ChatInv, NEW c \in ChatCallers, NEW r, ChatWrites(c, r), chatCall[c].at # "unfile",
         UNCHANGED <<identityRow, dbOf, broken>>,
         \A n \in ChatIdentities : client'[n].on => client[n].on
  PROVE  Leftovers'
<1>1. ASSUME NEW d \in ChatCallers, chatCall[d].at = "unfile"
      PROVE  chatCall'[d].at = "unfile" /\ chatCall'[d].bound = chatCall[d].bound
  <2>1. chatCall[d] # ChatIdle /\ chatCall[d] \in ChatCall /\ d # c
    BY <1>1, IdleChat DEF ChatInv, ChatTypes
  <2>2. chatCall'[d] = [chatCall[d] EXCEPT !.overtaken = TRUE]
    BY <2>1 DEF ChatWrites
  <2> QED
    BY <1>1, <2>1, <2>2 DEF ChatCall
<1> QED
  BY <1>1, LeftoversKept DEF ChatInv

-----------------------------------------------------------------------------
(* Calls that begin, and what they do on the network.                       *)

LEMMA ResolvedGroup ==
  ASSUME ChatInv, NEW ref \in {t.conv : t \in told} \union Groups
  PROVE  /\ ref \in ConvIds \union Groups /\ ResolveGroup(ref) \in ConvIds \union Groups
         /\ ResolveGroup(ref) # NoGroup
         /\ ref \in ConvIds /\ NetworkOf(ref) # {} => localId[ResolveGroup(ref)] = ref
<1>1. ref \in ConvIds \union Groups
  BY DEF ChatInv, MapInv
<1>2. CASE ref \in ConvIds /\ NetworkOf(ref) # {}
  <2>1. ResolveGroup(ref) \in NetworkOf(ref)
    BY <1>2 DEF ResolveGroup
  <2> QED
    BY <1>1, <2>1, ChatIds DEF NetworkOf
<1>3. CASE ~(ref \in ConvIds /\ NetworkOf(ref) # {})
  <2>1. ResolveGroup(ref) = ref
    BY <1>3 DEF ResolveGroup
  <2>2. NoGroup \notin ConvIds \union Groups
    BY ChatBounds, ChatIds DEF NoGroup
  <2> QED
    BY <1>1, <1>3, <2>1, <2>2
<1> QED
  BY <1>2, <1>3

LEMMA BeginChatStep ==
  ASSUME ChatInv, NEW c \in ChatCallers, NEW op \in {"create", "list"}, NEW n \in ChatIdentities,
         BeginChat(c, op, n)
  PROVE  ChatInv'
<1> DEFINE r == [ChatIdle EXCEPT !.at = op, !.op = op, !.who = n]
<1>1. /\ ChatGoes(c, r) /\ chatCall[c] = ChatIdle
      /\ UNCHANGED <<identityRow, localId, scoped, told, unmapped, client, memberOf, dbOf, broken,
                     verdicts>>
  BY DEF BeginChat, Begins
<1>2. /\ r \in ChatCall /\ r.at = op /\ r.who = n /\ r.conv = NoConv /\ r.group \notin Groups
  BY IdleChat DEF ChatCall, ChatStep
<1> HIDE DEF r
<1>3. chatCall'[c] = r
  BY <1>1 DEF ChatGoes, ChatInv, ChatTypes
<1>4. ChatAt(chatCall[c])' /\ PurgeHolds(chatCall[c])' /\ ConvTold(chatCall[c])'
  BY <1>1, <1>2, <1>3 DEF ChatAt, PurgeHolds, ConvTold
<1>5. PurgeLeavesNothing' /\ memberOf' \in [ChatIdentities -> SUBSET Groups]
  BY <1>1 DEF ChatInv, ChatTypes, PurgeLeavesNothing
<1>6. chatCall[c].at # "unfile"
  BY <1>1, IdleChat
<1> QED
  BY <1>1, <1>2, <1>4, <1>5, <1>6, GoesStep

\* A call that names a chat, resolved as it begins.
LEMMA BeginResolved ==
  ASSUME ChatInv, NEW c \in ChatCallers, NEW ref \in {t.conv : t \in told} \union Groups,
         NEW r \in ChatCall, r.at \in {"command", "leave", "match"},
         r.at # "match" => r.who \in ChatIdentities, r.ref = ref, r.group = ResolveGroup(ref),
         r.conv = NoConv, chatCall[c] = ChatIdle, ChatGoes(c, r),
         UNCHANGED <<identityRow, localId, scoped, told, unmapped, client, memberOf, dbOf, broken,
                     verdicts>>
  PROVE  ChatInv'
<1> DEFINE g == ResolveGroup(ref)
<1>1. /\ g # NoGroup /\ r.group = g
      /\ ref \in ConvIds /\ NetworkOf(ref) # {} => localId[g] = ref
  BY ResolvedGroup
<1> HIDE DEF g
<1>2. chatCall'[c] = r
  BY DEF ChatGoes, ChatInv, ChatTypes
<1>3. ChatAt(chatCall[c])' /\ ConvTold(chatCall[c])'
  BY <1>1, <1>2 DEF ChatAt, ConvTold
<1>4. PurgeHolds(chatCall[c])'
  BY <1>1, <1>2 DEF PurgeHolds, NetworkOf
<1>5. PurgeLeavesNothing' /\ memberOf' \in [ChatIdentities -> SUBSET Groups]
  BY DEF ChatInv, ChatTypes, PurgeLeavesNothing
<1>6. chatCall[c].at # "unfile"
  BY IdleChat
<1> QED
  BY <1>3, <1>4, <1>5, <1>6, GoesStep

LEMMA BeginCommandStep ==
  ASSUME ChatInv, NEW c \in ChatCallers, NEW op \in {"command", "leave"},
         NEW ref \in {t.conv : t \in told} \union Groups, BeginCommand(c, op, ref)
  PROVE  ChatInv'
<1> DEFINE g == ResolveGroup(ref)
<1>1. PICK n \in ClientsFor(g) :
        /\ ChatGoes(c, [ChatIdle EXCEPT !.at = op, !.op = op, !.who = n, !.ref = ref,
                            !.group = g])
        /\ chatCall[c] = ChatIdle
        /\ UNCHANGED <<identityRow, localId, scoped, told, unmapped, client, memberOf, dbOf,
                       broken, verdicts>>
  BY DEF BeginCommand, Begins
<1> DEFINE r == [ChatIdle EXCEPT !.at = op, !.op = op, !.who = n, !.ref = ref, !.group = g]
<1>2. n \in ChatIdentities
  BY DEF ClientsFor
<1>3. ref \in ConvIds \union Groups /\ g \in ConvIds \union Groups
  BY ResolvedGroup
<1> HIDE DEF g
<1>4. r \in ChatCall
  BY <1>2, <1>3 DEF ChatIdle, ChatCall, ChatStep
<1>5. r.at = op /\ r.who = n /\ r.ref = ref /\ r.group = g /\ r.conv = NoConv
  BY DEF ChatIdle
<1>6. ChatGoes(c, r)
  BY <1>1
<1> HIDE DEF r
<1> QED
  BY <1>1, <1>2, <1>4, <1>5, <1>6, BeginResolved DEF g

LEMMA BeginRemoveStep ==
  ASSUME ChatInv, NEW c \in ChatCallers, NEW ref \in {t.conv : t \in told} \union Groups,
         NEW force \in BOOLEAN, BeginRemove(c, ref, force)
  PROVE  ChatInv'
<1> DEFINE g == ResolveGroup(ref)
           r == [ChatIdle EXCEPT !.at = "match", !.op = "rm", !.ref = ref, !.group = g,
                                 !.execute = force]
<1>1. /\ ChatGoes(c, r) /\ chatCall[c] = ChatIdle
      /\ UNCHANGED <<identityRow, localId, scoped, told, unmapped, client, memberOf, dbOf,
                     broken, verdicts>>
  BY DEF BeginRemove, Begins
<1>2. ref \in ConvIds \union Groups /\ g \in ConvIds \union Groups
  BY ResolvedGroup
<1> HIDE DEF g
<1>3. r \in ChatCall
  BY <1>2 DEF ChatIdle, ChatCall, ChatStep
<1>4. r.at = "match" /\ r.ref = ref /\ r.group = g /\ r.conv = NoConv
  BY DEF ChatIdle
<1> HIDE DEF r
<1> QED
  BY <1>1, <1>3, <1>4, BeginResolved DEF g

LEMMA CreateGroupStep ==
  ASSUME ChatInv, NEW c \in ChatCallers, NEW g \in Groups, CreateGroup(c, g)
  PROVE  ChatInv'
<1> DEFINE n == chatCall[c].who
           r == [chatCall[c] EXCEPT !.at = "ensure", !.group = g]
<1>1. /\ chatCall[c].at = "create" /\ memberOf' = [memberOf EXCEPT ![n] = @ \union {g}]
      /\ ChatGoes(c, r) \/ ChatGoes(c, ChatIdle)
      /\ UNCHANGED <<identityRow, localId, scoped, told, unmapped, client, dbOf, broken, verdicts>>
  BY DEF CreateGroup, AtStep, AdapterCreates
<1>2. memberOf' \in [ChatIdentities -> SUBSET Groups]
  BY <1>1 DEF ChatInv, ChatTypes
<1>3. CASE ChatGoes(c, ChatIdle)
  BY <1>1, <1>2, <1>3, ChatEnds
<1>4. CASE ChatGoes(c, r)
  <2>1. chatCall[c] \in ChatCall /\ ConvTold(chatCall[c])
    BY DEF ChatInv, ChatTypes
  <2>2. r \in ChatCall /\ r.at = "ensure" /\ r.group = g /\ r.conv = chatCall[c].conv
    BY <2>1 DEF ChatCall, ChatStep
  <2> HIDE DEF r
  <2>3. chatCall'[c] = r
    BY <1>4 DEF ChatGoes, ChatInv, ChatTypes
  <2>4. ChatAt(chatCall[c])' /\ PurgeHolds(chatCall[c])'
    BY <2>2, <2>3 DEF ChatAt, PurgeHolds
  <2>5. ConvTold(chatCall[c])'
    BY <1>1, <2>1, <2>2, <2>3 DEF ConvTold
  <2>6. PurgeLeavesNothing'
    BY <1>1 DEF ChatInv, PurgeLeavesNothing
  <2> QED
    BY <1>1, <1>2, <1>4, <2>2, <2>4, <2>5, <2>6, GoesStep
<1> QED
  BY <1>1, <1>3, <1>4

LEMMA NetworkRefusesStep ==
  ASSUME ChatInv, NEW c \in ChatCallers, NetworkRefuses(c) PROVE ChatInv'
<1>1. memberOf' \in [ChatIdentities -> SUBSET Groups]
  BY DEF NetworkRefuses, ChatInv, ChatTypes
<1>2. chatCall[c].at # "unfile"
  BY DEF NetworkRefuses
<1> QED
  BY <1>1, <1>2, ChatEnds DEF NetworkRefuses

LEMMA CommandStep ==
  ASSUME ChatInv, NEW c \in ChatCallers, NEW n \in ChatIdentities, Command(c, n) PROVE ChatInv'
<1>1. /\ chatCall[c].at = "command" /\ ChatGoes(c, ChatIdle)
      /\ chatCall[c].group \in memberOf[chatCall[c].who]
      /\ UNCHANGED <<identityRow, localId, scoped, told, unmapped, client, dbOf, broken, verdicts>>
  BY DEF Command, AtStep
<1>2. chatCall[c].who \in ChatIdentities
  BY <1>1 DEF ChatInv, ChatTypes, ChatAt
<1>3. chatCall[c].group \in Groups
  BY <1>1, <1>2 DEF ChatInv, ChatTypes
<1>4. memberOf' \in [ChatIdentities -> SUBSET Groups]
  BY <1>3 DEF Command, AdapterMembers, ChatInv, ChatTypes
<1> QED
  BY <1>1, <1>4, ChatEnds

LEMMA LeaveStep ==
  ASSUME ChatInv, NEW c \in ChatCallers, Leave(c) PROVE ChatInv'
<1> DEFINE r == [chatCall[c] EXCEPT !.at = "match", !.execute = TRUE]
<1>1. /\ chatCall[c].at = "leave"
      /\ ChatGoes(c, r) \/ ChatGoes(c, ChatIdle)
      /\ memberOf' = [memberOf EXCEPT ![chatCall[c].who] = @ \ {chatCall[c].group}]
      /\ UNCHANGED <<identityRow, localId, scoped, told, unmapped, client, dbOf, broken, verdicts>>
  BY DEF Leave, AtStep, AdapterLeaves
<1>2. memberOf' \in [ChatIdentities -> SUBSET Groups]
  BY <1>1 DEF ChatInv, ChatTypes
<1>3. CASE ChatGoes(c, ChatIdle)
  BY <1>1, <1>2, <1>3, ChatEnds
<1>4. CASE ChatGoes(c, r)
  <2>1. /\ chatCall[c] \in ChatCall /\ ConvTold(chatCall[c]) /\ ChatAt(chatCall[c])
        /\ chatCall[c].overtaken \/ PurgeHolds(chatCall[c])
    BY DEF ChatInv, ChatTypes
  <2>2. /\ r \in ChatCall /\ r.at = "match" /\ r.group = chatCall[c].group
        /\ r.conv = chatCall[c].conv /\ r.ref = chatCall[c].ref
        /\ r.overtaken = chatCall[c].overtaken
    BY <2>1 DEF ChatCall, ChatStep
  <2> HIDE DEF r
  <2>3. chatCall'[c] = r
    BY <1>4 DEF ChatGoes, ChatInv, ChatTypes
  <2>4. ChatAt(chatCall[c])'
    BY <1>1, <2>1, <2>2, <2>3 DEF ChatAt
  <2>5. PurgeHolds(chatCall[c]) => PurgeHolds(chatCall[c])'
    BY <1>1, <2>2, <2>3 DEF PurgeHolds, NetworkOf
  <2>6. ConvTold(chatCall[c])'
    BY <1>1, <2>1, <2>2, <2>3 DEF ConvTold
  <2>7. PurgeLeavesNothing'
    BY <1>1 DEF ChatInv, PurgeLeavesNothing
  <2> QED
    BY <1>1, <1>2, <1>4, <2>1, <2>2, <2>3, <2>4, <2>5, <2>6, <2>7, GoesStep
<1> QED
  BY <1>1, <1>3, <1>4

LEMMA GroupEventStep ==
  ASSUME ChatInv, NEW n \in ChatIdentities, NEW g \in Groups, GroupEvent(n, g) PROVE ChatInv'
<1>1. /\ UNCHANGED <<identityRow, memberOf, localId, scoped, dbOf, chatCall, told, broken, verdicts,
                     unmapped>>
      /\ client' = IF client[n].on THEN [client EXCEPT ![n].groups = @ \union {g}] ELSE client
  BY DEF GroupEvent
<1>2. client \in [ChatIdentities -> [on : BOOLEAN, groups : SUBSET Groups]]
  BY DEF ChatInv, ChatTypes
<1>3. /\ client' \in [ChatIdentities -> [on : BOOLEAN, groups : SUBSET Groups]]
      /\ \A m \in ChatIdentities : client'[m].on = client[m].on
  BY <1>1, <1>2
<1>4. \A d \in ChatCallers : /\ ChatAt(chatCall[d])' /\ ConvTold(chatCall[d])'
                             /\ chatCall'[d].overtaken \/ PurgeHolds(chatCall[d])'
  BY <1>1, <1>3, KeptChat
<1>5. ChatTypes'
  BY <1>1, <1>3, <1>4 DEF ChatInv, ChatTypes
<1>6. MapInv' /\ PurgeLeavesNothing'
  BY <1>1 DEF ChatInv, MapInv, PurgeLeavesNothing
<1>7. Leftovers'
  BY <1>1, <1>3, LeftoversKept DEF ChatInv
<1> QED
  BY <1>4, <1>5, <1>6, <1>7 DEF ChatInv

-----------------------------------------------------------------------------
(* The mapping of conv ids.                                                 *)

\* ensureLocalId keeps the mapping and what was told in agreement.
LEMMA IdsAnswered ==
  ASSUME ChatInv, NEW G \in SUBSET Groups, NEW fresh \in FreshIds(G),
         localId' = EnsureLocalId(G, fresh),
         told' = told \union {[conv |-> localId'[g], group |-> g] : g \in G}, UNCHANGED unmapped
  PROVE  MapInv' /\ localId' \in [Groups -> ConvIds \union {NoConv}]
<1>0. NoConv \notin ConvIds
  BY ChatBounds DEF NoConv
<1>1. /\ fresh \in [G -> ConvIds] /\ \A g, h \in G : g # h => fresh[g] # fresh[h]
      /\ \A g \in G, t \in told : t.conv # fresh[g]
  BY DEF FreshIds
<1>2. /\ localId \in [Groups -> ConvIds \union {NoConv}]
      /\ told \subseteq [conv : ConvIds, group : Groups]
      /\ \A t, u \in told : t.conv = u.conv => t.group = u.group
      /\ \A g \in Groups : localId[g] # NoConv => \E t \in told : t.conv = localId[g] /\ t.group = g
      /\ \A t \in told : t.conv \notin unmapped => localId[t.group] = t.conv
      /\ \A v \in unmapped : \E t \in told : t.conv = v
      /\ \A g \in Groups : localId[g] \notin unmapped
  BY DEF ChatInv, ChatTypes, MapInv
<1>3. \A g \in Groups :
          localId'[g] = IF g \in G /\ localId[g] = NoConv THEN fresh[g] ELSE localId[g]
  BY DEF EnsureLocalId
<1>4. localId' \in [Groups -> ConvIds \union {NoConv}]
  BY <1>1, <1>2 DEF EnsureLocalId
<1>5. ASSUME NEW u \in told'
      PROVE  \/ \E t \in told : t.conv = u.conv /\ t.group = u.group
             \/ /\ u.group \in G /\ localId[u.group] = NoConv /\ u.conv = fresh[u.group]
                /\ localId'[u.group] = u.conv
  <2>1. CASE u \in told
    BY <2>1
  <2>2. ASSUME NEW g \in G, u = [conv |-> localId'[g], group |-> g]
        PROVE  \/ \E t \in told : t.conv = u.conv /\ t.group = u.group
               \/ /\ u.group \in G /\ localId[u.group] = NoConv /\ u.conv = fresh[u.group]
                  /\ localId'[u.group] = u.conv
    <3>1. u.conv = localId'[g] /\ u.group = g
      BY <2>2
    <3>2. CASE localId[g] = NoConv
      BY <1>3, <3>1, <3>2
    <3>3. CASE localId[g] # NoConv
      BY <1>2, <1>3, <3>1, <3>3
    <3> QED
      BY <3>2, <3>3
  <2> QED
    BY <2>1, <2>2
<1>6. told' \subseteq [conv : ConvIds, group : Groups]
  BY <1>0, <1>1, <1>2, <1>3
<1>7. \A t, u \in told' : t.conv = u.conv => t.group = u.group
  <2> SUFFICES ASSUME NEW t \in told', NEW u \in told', t.conv = u.conv PROVE t.group = u.group
    OBVIOUS
  <2> QED
    BY <1>1, <1>2, <1>5
<1>8. \A g \in Groups : localId'[g] # NoConv => \E t \in told' : t.conv = localId'[g] /\ t.group = g
  <2> SUFFICES ASSUME NEW g \in Groups, localId'[g] # NoConv
               PROVE  \E t \in told' : t.conv = localId'[g] /\ t.group = g
    OBVIOUS
  <2>1. CASE localId'[g] = localId[g]
    BY <1>2, <2>1
  <2>2. CASE g \in G
    <3>1. [conv |-> localId'[g], group |-> g] \in told'
      BY <2>2
    <3> QED
      BY <3>1
  <2> QED
    BY <1>3, <2>1, <2>2
<1>9. \A t \in told' : t.conv \notin unmapped => localId'[t.group] = t.conv
  <2> SUFFICES ASSUME NEW u \in told', u.conv \notin unmapped PROVE localId'[u.group] = u.conv
    OBVIOUS
  <2>1. ASSUME NEW t \in told, t.conv = u.conv, t.group = u.group PROVE localId'[u.group] = u.conv
    <3>1. localId[u.group] = u.conv /\ u.conv \in ConvIds /\ u.group \in Groups
      BY <1>2, <2>1
    <3> QED
      BY <1>0, <1>3, <3>1
  <2> QED
    BY <1>5, <2>1
<1>10. \A v \in unmapped : \E t \in told' : t.conv = v
  BY <1>2
<1>11. \A g \in Groups : localId'[g] \notin unmapped
  BY <1>1, <1>2, <1>3
<1> QED
  BY <1>4, <1>6, <1>7, <1>8, <1>9, <1>10, <1>11 DEF MapInv

LEMMA AnswerIdsStep ==
  ASSUME ChatInv, NEW c \in ChatCallers, AnswerIds(c) PROVE ChatInv'
<1> DEFINE G == IF AtStep(c, "ensure") THEN {chatCall[c].group} ELSE memberOf[chatCall[c].who]
<1>1. /\ chatCall[c].at \in {"ensure", "list"} /\ ChatWrites(c, ChatIdle)
      /\ UNCHANGED <<identityRow, memberOf, client, scoped, dbOf, broken, verdicts, unmapped>>
  BY DEF AnswerIds
<1>2. G \in SUBSET Groups
  <2>1. ChatAt(chatCall[c]) /\ memberOf \in [ChatIdentities -> SUBSET Groups]
    BY DEF ChatInv, ChatTypes
  <2> QED
    BY <1>1, <2>1 DEF ChatAt, AtStep
<1>3. PICK fresh \in FreshIds(G) :
        /\ localId' = EnsureLocalId(G, fresh)
        /\ told' = told \union {[conv |-> localId'[g], group |-> g] : g \in G}
  BY DEF AnswerIds
<1> HIDE DEF G
<1>4. MapInv' /\ localId' \in [Groups -> ConvIds \union {NoConv}] /\ told \subseteq told'
  BY <1>1, <1>2, <1>3, IdsAnswered
<1>5. chatCall'[c] = ChatIdle
  BY <1>1 DEF ChatWrites
<1>6. /\ ChatAt(chatCall[c])' /\ PurgeHolds(chatCall[c])' /\ ConvTold(chatCall[c])'
  BY <1>5, ChatAnswered
<1>7. Leftovers'
  BY <1>1, WriteLeftovers
<1>8. /\ identityRow' \in [ChatIdentities -> [there : BOOLEAN, group : Groups \union {NoGroup}]]
      /\ client' \in [ChatIdentities -> [on : BOOLEAN, groups : SUBSET Groups]]
      /\ scoped' \in [ChatCreds -> [status : {"none", "active", "revoked"},
                                    chat : ConvIds \union Groups \union {NoConv}]]
      /\ \A k \in ChatCreds : scoped'[k].status = "active" => scoped'[k].chat # NoConv
  BY <1>1 DEF ChatInv, ChatTypes
<1> QED
  BY <1>1, <1>4, <1>6, <1>7, <1>8, IdleChat, WritesStep

-----------------------------------------------------------------------------
(* The purge.                                                               *)

LEMMA MatchCredentialsStep ==
  ASSUME ChatInv, NEW c \in ChatCallers, MatchCredentials(c) PROVE ChatInv'
<1> DEFINE ids == MatchChatIds(chatCall[c].ref, chatCall[c].group)
           creds == {k \in ChatCreds : scoped[k].status # "none" /\ scoped[k].chat \in ids}
           r == [chatCall[c] EXCEPT !.at = "plan", !.creds = creds]
<1>1. /\ chatCall[c].at = "match" /\ ChatGoes(c, r)
      /\ UNCHANGED <<identityRow, memberOf, client, localId, scoped, dbOf, told, broken, verdicts,
                     unmapped>>
  BY DEF MatchCredentials, AtStep
<1>2. /\ chatCall[c] \in ChatCall /\ ConvTold(chatCall[c]) /\ ChatAt(chatCall[c])
      /\ chatCall[c].overtaken \/ PurgeHolds(chatCall[c])
  BY DEF ChatInv, ChatTypes
<1>3. creds \in SUBSET ChatCreds
  OBVIOUS
<1>4. chatCall[c].group \in Groups =>
        OnlyLeft({chatCall[c].group, chatCall[c].ref, localId[chatCall[c].group]}, creds)
  <2> SUFFICES ASSUME chatCall[c].group \in Groups, NEW k \in ChatCreds,
                      scoped[k].status = "active",
                      scoped[k].chat \in {chatCall[c].group, chatCall[c].ref,
                                          localId[chatCall[c].group]}
               PROVE  k \in creds
    BY DEF OnlyLeft
  <2>1. scoped[k].chat # NoConv /\ scoped[k].chat \in ConvIds \union Groups \union {NoConv}
    BY DEF ChatInv, ChatTypes
  <2>2. scoped[k].chat # NoGroup
    BY <2>1, ChatBounds, ChatIds DEF NoGroup
  <2>3. scoped[k].chat \in ids
    BY <2>1, <2>2 DEF MatchChatIds
  <2> HIDE DEF ids
  <2> QED
    BY <2>3
<1> HIDE DEF creds
<1>5. /\ r \in ChatCall /\ r.at = "plan" /\ r.group = chatCall[c].group /\ r.creds = creds
      /\ r.conv = chatCall[c].conv /\ r.ref = chatCall[c].ref /\ r.overtaken = chatCall[c].overtaken
  BY <1>2, <1>3 DEF ChatCall, ChatStep
<1> HIDE DEF r
<1>6. chatCall'[c] = r
  BY <1>1 DEF ChatGoes, ChatInv, ChatTypes
<1>7. ChatAt(chatCall[c])' /\ ConvTold(chatCall[c])'
  BY <1>1, <1>2, <1>5, <1>6 DEF ChatAt, ConvTold
<1>8. PurgeHolds(chatCall[c]) => PurgeHolds(chatCall[c])'
  BY <1>1, <1>4, <1>5, <1>6 DEF PurgeHolds, NetworkOf, OnlyLeft
<1>9. PurgeLeavesNothing' /\ memberOf' \in [ChatIdentities -> SUBSET Groups]
  BY <1>1 DEF ChatInv, ChatTypes, PurgeLeavesNothing
<1> QED
  BY <1>1, <1>2, <1>5, <1>6, <1>7, <1>8, <1>9, GoesStep

\* At most one identity is bound to a group.
LEMMA OneBound ==
  ASSUME ChatInv, NEW g, g # NoGroup, NEW b, b = IF BoundTo(g) = {} THEN NoId
                                                  ELSE CHOOSE n \in BoundTo(g) : TRUE
  PROVE  /\ b \in ChatIdentities \union {NoId} /\ BoundTo(g) \subseteq {b}
         /\ b # NoId => b \in BoundTo(g)
<1>1. CASE BoundTo(g) = {}
  BY <1>1
<1>2. CASE BoundTo(g) # {}
  <2>1. b \in BoundTo(g)
    BY <1>2
  <2> QED
    BY <2>1 DEF BoundTo, ChatInv, ChatTypes
<1> QED
  BY <1>1, <1>2

LEMMA PlanPurgeStep ==
  ASSUME ChatInv, NEW c \in ChatCallers, PlanPurge(c) PROVE ChatInv'
<1> DEFINE g == chatCall[c].group
           ref == chatCall[c].ref
           v == IF ref \in ConvIds /\ NetworkOf(ref) # {} THEN ref
                ELSE IF g \in Groups THEN localId[g] ELSE NoConv
           b == IF BoundTo(g) = {} THEN NoId ELSE CHOOSE n \in BoundTo(g) : TRUE
           r == [chatCall[c] EXCEPT !.at = "revoke", !.conv = v, !.bound = b]
<1>1. /\ chatCall[c].at = "plan"
      /\ ChatGoes(c, ChatIdle) \/ ChatGoes(c, r)
      /\ UNCHANGED <<identityRow, memberOf, client, localId, scoped, dbOf, told, broken, verdicts,
                     unmapped>>
  BY DEF PlanPurge, AtStep
<1>2. /\ chatCall[c] \in ChatCall /\ ConvTold(chatCall[c]) /\ ChatAt(chatCall[c])
      /\ chatCall[c].overtaken \/ PurgeHolds(chatCall[c])
  BY DEF ChatInv, ChatTypes
<1>3. memberOf' \in [ChatIdentities -> SUBSET Groups] /\ PurgeLeavesNothing'
  BY <1>1 DEF ChatInv, ChatTypes, PurgeLeavesNothing
<1>4. CASE ChatGoes(c, ChatIdle)
  BY <1>1, <1>3, <1>4, ChatEnds
<1>5. CASE ChatGoes(c, r)
  <2>1. g # NoGroup /\ g \in ConvIds \union Groups \union {NoGroup}
    BY <1>1, <1>2 DEF ChatAt, ChatCall
  <2>2. /\ b \in ChatIdentities \union {NoId} /\ BoundTo(g) \subseteq {b}
        /\ b # NoId => b \in BoundTo(g)
    BY <2>1, OneBound
  <2>3. b # NoId => g \in Groups /\ identityRow[b].group = g
    BY <2>1, <2>2 DEF BoundTo, ChatInv, ChatTypes
  <2>4. v \in ConvIds \union {NoConv} /\ (v # NoConv => \E t \in told : t.conv = v)
    BY DEF ChatInv, ChatTypes, MapInv, NetworkOf
  <2>5. PurgeHolds(chatCall[c]) /\ g \in Groups => localId[g] = v
    BY <1>1 DEF PurgeHolds
  <2> HIDE DEF v, b
  <2>6. /\ r \in ChatCall /\ r.at = "revoke" /\ r.group = g /\ r.creds = chatCall[c].creds
        /\ r.conv = v /\ r.ref = ref /\ r.overtaken = chatCall[c].overtaken /\ r.bound = b
    BY <1>2, <2>2, <2>4 DEF ChatCall, ChatStep
  <2> HIDE DEF r
  <2>7. chatCall'[c] = r
    BY <1>5 DEF ChatGoes, ChatInv, ChatTypes
  <2>8. ChatAt(chatCall[c])'
    BY <1>1, <2>1, <2>3, <2>6, <2>7 DEF ChatAt
  <2>9. ConvTold(chatCall[c])'
    BY <1>1, <2>4, <2>6, <2>7 DEF ConvTold
  <2>10. PurgeHolds(chatCall[c]) => PurgeHolds(chatCall[c])'
    <3> SUFFICES ASSUME PurgeHolds(chatCall[c]), g \in Groups PROVE PurgeHolds(chatCall[c])'
      BY <2>6, <2>7 DEF PurgeHolds
    <3>1. OnlyLeft({g, ref, v}, chatCall[c].creds) /\ localId[g] = v
      BY <1>1, <2>5 DEF PurgeHolds
    <3>2. OnlyLeft({r.group, r.ref, r.conv}, r.creds)
      BY <2>6, <3>1
    <3>3. OnlyLeft({chatCall[c].group, chatCall[c].ref, chatCall[c].conv}, chatCall[c].creds)'
      BY <1>1, <2>7, <3>2 DEF OnlyLeft
    <3>4. BoundTo(chatCall[c].group)' \subseteq {r.bound}
      BY <1>1, <2>2, <2>6, <2>7 DEF BoundTo
    <3> QED
      BY <1>1, <2>6, <2>7, <3>1, <3>3, <3>4 DEF PurgeHolds
  <2> QED
    BY <1>1, <1>2, <1>3, <1>5, <2>6, <2>7, <2>8, <2>9, <2>10, GoesStep
<1> QED
  BY <1>1, <1>4, <1>5

LEMMA RevokeNextStep ==
  ASSUME ChatInv, NEW c \in ChatCallers, RevokeNext(c) PROVE ChatInv'
<1>1. PICK k \in chatCall[c].creds :
        /\ scoped' = [scoped EXCEPT ![k].status = "revoked"]
        /\ ChatWrites(c, [chatCall[c] EXCEPT !.creds = @ \ {k}])
  BY DEF RevokeNext
<1> DEFINE creds == chatCall[c].creds \ {k}
           r == [chatCall[c] EXCEPT !.creds = creds]
<1>2. /\ chatCall[c].at = "revoke" /\ ChatWrites(c, r)
      /\ UNCHANGED <<identityRow, memberOf, client, localId, dbOf, told, broken,
                     verdicts, unmapped>>
  BY <1>1 DEF RevokeNext, AtStep, ChatInv, ChatTypes, ChatCall
<1>3. /\ chatCall[c] \in ChatCall /\ ConvTold(chatCall[c]) /\ ChatAt(chatCall[c])
      /\ chatCall[c].overtaken \/ PurgeHolds(chatCall[c])
  BY DEF ChatInv, ChatTypes
<1>4. creds \in SUBSET ChatCreds /\ k \in ChatCreds
  BY <1>3 DEF ChatCall
<1> HIDE DEF creds
<1>5. /\ r \in ChatCall /\ r.at = "revoke" /\ r.group = chatCall[c].group /\ r.creds = creds
      /\ r.conv = chatCall[c].conv /\ r.ref = chatCall[c].ref /\ r.bound = chatCall[c].bound
      /\ r.overtaken = chatCall[c].overtaken
  BY <1>2, <1>3, <1>4 DEF ChatCall
<1> HIDE DEF r
<1>6. chatCall'[c] = r
  BY <1>2 DEF ChatWrites
<1>7. /\ scoped' \in [ChatCreds -> [status : {"none", "active", "revoked"},
                                    chat : ConvIds \union Groups \union {NoConv}]]
      /\ scoped'[k].status = "revoked" /\ scoped'[k].chat = scoped[k].chat
      /\ \A j \in ChatCreds : j # k => scoped'[j] = scoped[j]
  BY <1>1, <1>4 DEF ChatInv, ChatTypes
<1>8. \A j \in ChatCreds : scoped'[j].status = "active" => scoped'[j].chat # NoConv
  BY <1>7 DEF ChatInv, ChatTypes
<1>9. ChatAt(chatCall[c])' /\ ConvTold(chatCall[c])'
  BY <1>2, <1>3, <1>5, <1>6 DEF ChatAt, ConvTold
<1>10. PurgeHolds(chatCall[c]) => PurgeHolds(chatCall[c])'
  <2> SUFFICES ASSUME PurgeHolds(chatCall[c]), chatCall[c].group \in Groups
               PROVE  PurgeHolds(chatCall[c])'
    BY <1>5, <1>6 DEF PurgeHolds
  <2>1. /\ OnlyLeft({chatCall[c].group, chatCall[c].ref, chatCall[c].conv}, chatCall[c].creds)
        /\ localId[chatCall[c].group] = chatCall[c].conv
        /\ BoundTo(chatCall[c].group) \subseteq {chatCall[c].bound}
    BY <1>2 DEF PurgeHolds
  <2>2. OnlyLeft({chatCall[c].group, chatCall[c].ref, chatCall[c].conv}, chatCall[c].creds)'
    BY <1>5, <1>6, <1>7, <2>1 DEF OnlyLeft, creds
  <2>3. BoundTo(chatCall[c].group)' \subseteq {r.bound}
    BY <1>2, <1>5, <1>6, <2>1 DEF BoundTo
  <2> QED
    BY <1>2, <1>5, <1>6, <2>1, <2>2, <2>3 DEF PurgeHolds
<1>11. MapInv'
  BY <1>2 DEF ChatInv, MapInv
<1>12. Leftovers'
  BY <1>2, WriteLeftovers
<1>13. /\ identityRow' \in [ChatIdentities -> [there : BOOLEAN, group : Groups \union {NoGroup}]]
       /\ client' \in [ChatIdentities -> [on : BOOLEAN, groups : SUBSET Groups]]
       /\ localId' \in [Groups -> ConvIds \union {NoConv}]
  BY <1>2 DEF ChatInv, ChatTypes
<1> QED
  BY <1>2, <1>3, <1>5, <1>6, <1>7, <1>8, <1>9, <1>10, <1>11, <1>12, <1>13, WritesStep

LEMMA ForgetChatStep ==
  ASSUME ChatInv, NEW c \in ChatCallers, ForgetChat(c) PROVE ChatInv'
<1> DEFINE v == chatCall[c].conv
           b == chatCall[c].bound
           at == IF b = NoId THEN "purged" ELSE "unrow"
           r == [chatCall[c] EXCEPT !.at = at]
<1>1. /\ chatCall[c].at = "revoke" /\ chatCall[c].creds = {} /\ ChatWrites(c, r)
      /\ localId' = [g \in Groups |-> IF v # NoConv /\ localId[g] = v THEN NoConv ELSE localId[g]]
      /\ unmapped' = unmapped \union ({v} \ {NoConv})
      /\ UNCHANGED <<identityRow, memberOf, scoped, dbOf, told, broken, verdicts>>
  BY DEF ForgetChat, AtStep
<1>2. PICK n \in ChatIdentities :
        client' = [m \in ChatIdentities |->
            [on |-> client[m].on /\ m # b,
             groups |-> IF m = n THEN client[m].groups \ {chatCall[c].group} ELSE client[m].groups]]
  BY DEF ForgetChat
<1>3. /\ chatCall[c] \in ChatCall /\ ConvTold(chatCall[c]) /\ ChatAt(chatCall[c])
      /\ chatCall[c].overtaken \/ PurgeHolds(chatCall[c])
      /\ client \in [ChatIdentities -> [on : BOOLEAN, groups : SUBSET Groups]]
      /\ localId \in [Groups -> ConvIds \union {NoConv}] /\ NoConv \notin ConvIds
  BY ChatBounds DEF ChatInv, ChatTypes, NoConv
<1>4. b \in ChatIdentities \union {NoId} /\ v \in ConvIds \union {NoConv}
  BY <1>3 DEF ChatCall
<1>5. /\ client' \in [ChatIdentities -> [on : BOOLEAN, groups : SUBSET Groups]]
      /\ \A m \in ChatIdentities : /\ client'[m].on => client[m].on
                                   /\ m = b => ~client'[m].on
  <2> HIDE DEF b
  <2> QED
    BY <1>2, <1>3
<1>6. at \in {"purged", "unrow"} /\ (at = "purged" <=> b = NoId)
  OBVIOUS
<1> HIDE DEF at
<1>7. /\ r \in ChatCall /\ r.at = at /\ r.group = chatCall[c].group /\ r.bound = b /\ r.conv = v
      /\ r.ref = chatCall[c].ref /\ r.overtaken = chatCall[c].overtaken
  BY <1>3, <1>6 DEF ChatCall, ChatStep
<1> HIDE DEF r
<1>8. chatCall'[c] = r
  BY <1>1 DEF ChatWrites
<1>9. ChatAt(chatCall[c])'
  BY <1>1, <1>3, <1>4, <1>5, <1>6, <1>7, <1>8 DEF ChatAt
<1>10. ConvTold(chatCall[c])'
  BY <1>1, <1>3, <1>7, <1>8 DEF ConvTold
<1>11. localId' \in [Groups -> ConvIds \union {NoConv}]
  BY <1>1, <1>3
<1>12. MapInv'
  <2>1. v # NoConv => \E t \in told : t.conv = v
    BY <1>3 DEF ConvTold
  <2> HIDE DEF v
  <2>2. \A g \in Groups : localId'[g] # NoConv => localId'[g] = localId[g] /\ localId[g] # v
    BY <1>1, <1>3
  <2>3. NoConv \notin unmapped'
    BY <1>1, <1>3 DEF ChatInv, MapInv
  <2>4. \A g \in Groups : localId'[g] \notin unmapped'
    BY <1>1, <2>2, <2>3 DEF ChatInv, MapInv
  <2>5. \A w \in unmapped' : \E t \in told : t.conv = w
    BY <1>1, <2>1 DEF ChatInv, MapInv
  <2>6. \A t \in told : t.conv \notin unmapped' => localId'[t.group] = t.conv
    <3> SUFFICES ASSUME NEW t \in told, t.conv \notin unmapped' PROVE localId'[t.group] = t.conv
      OBVIOUS
    <3>1. t.group \in Groups /\ t.conv \in ConvIds /\ localId[t.group] = t.conv
      BY <1>1 DEF ChatInv, MapInv
    <3> QED
      BY <1>1, <1>3, <3>1
  <2> QED
    BY <1>1, <2>2, <2>4, <2>5, <2>6 DEF ChatInv, MapInv
<1>13. PurgeHolds(chatCall[c]) => PurgeHolds(chatCall[c])'
  <2> SUFFICES ASSUME PurgeHolds(chatCall[c]), chatCall[c].group \in Groups
               PROVE  PurgeHolds(chatCall[c])'
    BY <1>7, <1>8 DEF PurgeHolds
  <2>1. /\ OnlyLeft({chatCall[c].group, chatCall[c].ref, chatCall[c].conv}, {})
        /\ localId[chatCall[c].group] = v
        /\ BoundTo(chatCall[c].group) \subseteq {b}
    BY <1>1 DEF PurgeHolds
  <2>2. OnlyLeft({chatCall[c].group, chatCall[c].ref, chatCall[c].conv}, {})'
    BY <1>1, <1>7, <1>8, <2>1 DEF OnlyLeft
  <2>3. localId'[r.group] = NoConv
    BY <1>1, <1>3, <1>7, <2>1
  <2>4. BoundTo(chatCall[c].group)' = BoundTo(chatCall[c].group)
    BY <1>1, <1>7, <1>8 DEF BoundTo
  <2>5. b = NoId => BoundTo(chatCall[c].group) = {}
    BY <2>1, ChatIds DEF BoundTo
  <2> QED
    BY <1>6, <1>7, <1>8, <2>1, <2>2, <2>3, <2>4, <2>5 DEF PurgeHolds
<1>14. Leftovers'
  BY <1>1, <1>5, WriteLeftovers
<1>15. /\ identityRow' \in [ChatIdentities -> [there : BOOLEAN, group : Groups \union {NoGroup}]]
       /\ scoped' \in [ChatCreds -> [status : {"none", "active", "revoked"},
                                     chat : ConvIds \union Groups \union {NoConv}]]
       /\ \A k \in ChatCreds : scoped'[k].status = "active" => scoped'[k].chat # NoConv
  BY <1>1 DEF ChatInv, ChatTypes
<1> QED
  BY <1>1, <1>3, <1>5, <1>7, <1>8, <1>9, <1>10, <1>11, <1>12, <1>13, <1>14, <1>15, WritesStep

LEMMA RemoveIdentityStep ==
  ASSUME ChatInv, NEW c \in ChatCallers, RemoveIdentity(c) PROVE ChatInv'
<1> DEFINE b == chatCall[c].bound
           r == [chatCall[c] EXCEPT !.at = "unfile"]
<1>1. /\ chatCall[c].at = "unrow"
      /\ UNCHANGED <<memberOf, client, localId, scoped, dbOf, told, verdicts, unmapped>>
  BY DEF RemoveIdentity, AtStep
<1>2. /\ chatCall[c] \in ChatCall /\ ConvTold(chatCall[c]) /\ ChatAt(chatCall[c])
      /\ chatCall[c].overtaken \/ PurgeHolds(chatCall[c])
      /\ identityRow \in [ChatIdentities -> [there : BOOLEAN, group : Groups \union {NoGroup}]]
  BY DEF ChatInv, ChatTypes
<1>3. /\ b \in ChatIdentities /\ ~client[b].on /\ chatCall[c].group \in Groups
      /\ identityRow[b].group = chatCall[c].group
  BY <1>1, <1>2 DEF ChatAt, ChatCall
<1>4. CASE ~identityRow[b].there
  <2>1. /\ ChatGoes(c, ChatIdle) /\ UNCHANGED identityRow
        /\ broken \subseteq broken'
    BY <1>4 DEF RemoveIdentity
  <2>2. memberOf' \in [ChatIdentities -> SUBSET Groups]
    BY <1>1 DEF ChatInv, ChatTypes
  <2> QED
    BY <1>1, <2>1, <2>2, ChatEnds
<1>5. CASE identityRow[b].there
  <2>1. /\ identityRow' = [identityRow EXCEPT ![b].there = FALSE] /\ ChatWrites(c, r)
        /\ UNCHANGED broken
    BY <1>5 DEF RemoveIdentity
  <2>2. /\ r \in ChatCall /\ r.at = "unfile" /\ r.group = chatCall[c].group /\ r.bound = b
        /\ r.conv = chatCall[c].conv /\ r.ref = chatCall[c].ref
        /\ r.overtaken = chatCall[c].overtaken
    BY <1>2 DEF ChatCall, ChatStep
  <2> HIDE DEF r, b
  <2>3. /\ identityRow' \in [ChatIdentities -> [there : BOOLEAN, group : Groups \union {NoGroup}]]
        /\ \A n \in ChatIdentities : /\ identityRow'[n].there => identityRow[n].there
                                     /\ identityRow'[n].group = identityRow[n].group
                                     /\ n # b => identityRow'[n] = identityRow[n]
        /\ ~identityRow'[b].there
    BY <1>2, <1>3, <2>1
  <2>4. chatCall'[c] = r
    BY <2>1 DEF ChatWrites
  <2>5. ChatAt(chatCall[c])'
    BY <1>1, <1>3, <2>2, <2>3, <2>4, ChatIds DEF ChatAt
  <2>6. ConvTold(chatCall[c])'
    BY <1>1, <1>2, <2>2, <2>4 DEF ConvTold
  <2>7. PurgeHolds(chatCall[c]) => PurgeHolds(chatCall[c])'
    <3> SUFFICES ASSUME PurgeHolds(chatCall[c]) PROVE PurgeHolds(chatCall[c])'
      OBVIOUS
    <3>1. /\ OnlyLeft({chatCall[c].group, chatCall[c].ref, chatCall[c].conv}, {})
          /\ localId[chatCall[c].group] = NoConv /\ BoundTo(chatCall[c].group) \subseteq {b}
      BY <1>1, <1>3 DEF PurgeHolds, b
    <3>2. OnlyLeft({chatCall[c].group, chatCall[c].ref, chatCall[c].conv}, {})'
      BY <1>1, <2>2, <2>4, <3>1 DEF OnlyLeft
    <3>3. BoundTo(chatCall[c].group)' = {}
      BY <2>2, <2>3, <2>4, <3>1 DEF BoundTo
    <3> QED
      BY <1>1, <2>2, <2>4, <3>1, <3>2, <3>3 DEF PurgeHolds
  <2>8. Leftovers'
    <3> SUFFICES ASSUME NEW n \in ChatIdentities, ~identityRow'[n].there
                 PROVE  /\ ~client'[n].on
                        /\ n \in dbOf' =>
                             \/ identityRow'[n].group \in broken'
                             \/ \E d \in ChatCallers :
                                   chatCall'[d].at = "unfile" /\ chatCall'[d].bound = n
      BY DEF Leftovers
    <3>1. CASE n = b
      BY <1>1, <1>3, <2>2, <2>4, <3>1
    <3>2. CASE n # b
      <4>1. /\ ~client[n].on
            /\ n \in dbOf => \/ identityRow[n].group \in broken
                             \/ \E d \in ChatCallers :
                                   chatCall[d].at = "unfile" /\ chatCall[d].bound = n
        BY <2>3, <3>2 DEF ChatInv, Leftovers
      <4>2. ASSUME NEW d \in ChatCallers, chatCall[d].at = "unfile"
            PROVE  chatCall'[d].at = "unfile" /\ chatCall'[d].bound = chatCall[d].bound
        <5>1. d # c /\ chatCall[d] # ChatIdle /\ chatCall[d] \in ChatCall
          BY <1>1, <4>2, IdleChat DEF ChatInv, ChatTypes
        <5>2. chatCall'[d] = [chatCall[d] EXCEPT !.overtaken = TRUE]
          BY <2>1, <5>1 DEF ChatWrites
        <5> QED
          BY <4>2, <5>1, <5>2 DEF ChatCall
      <4> QED
        BY <1>1, <2>1, <2>3, <3>2, <4>1, <4>2
    <3> QED
      BY <3>1, <3>2
  <2>9. MapInv'
    BY <1>1 DEF ChatInv, MapInv
  <2>10. /\ client' \in [ChatIdentities -> [on : BOOLEAN, groups : SUBSET Groups]]
         /\ localId' \in [Groups -> ConvIds \union {NoConv}]
         /\ scoped' \in [ChatCreds -> [status : {"none", "active", "revoked"},
                                       chat : ConvIds \union Groups \union {NoConv}]]
         /\ \A k \in ChatCreds : scoped'[k].status = "active" => scoped'[k].chat # NoConv
    BY <1>1 DEF ChatInv, ChatTypes
  <2> QED
    BY <1>1, <1>2, <2>1, <2>2, <2>3, <2>4, <2>5, <2>6, <2>7, <2>8, <2>9, <2>10, WritesStep
<1> QED
  BY <1>4, <1>5

LEMMA RemoveDbStep ==
  ASSUME ChatInv, NEW c \in ChatCallers, RemoveDb(c) PROVE ChatInv'
<1> DEFINE b == chatCall[c].bound
           r == [chatCall[c] EXCEPT !.at = "purged"]
<1>1. /\ chatCall[c].at = "unfile"
      /\ UNCHANGED <<identityRow, memberOf, client, localId, scoped, told, verdicts, unmapped>>
  BY DEF RemoveDb, AtStep
<1>2. /\ chatCall[c] \in ChatCall /\ ConvTold(chatCall[c]) /\ ChatAt(chatCall[c])
      /\ chatCall[c].overtaken \/ PurgeHolds(chatCall[c])
      /\ memberOf' \in [ChatIdentities -> SUBSET Groups] /\ PurgeLeavesNothing'
  BY <1>1 DEF ChatInv, ChatTypes, PurgeLeavesNothing
<1>3. chatCall[c].group \in Groups /\ identityRow[b].group = chatCall[c].group
  BY <1>1, <1>2 DEF ChatAt, ChatCall
<1>4. CASE /\ broken' = broken \union Concerns(chatCall[c]) /\ ChatGoes(c, ChatIdle)
           /\ UNCHANGED dbOf
  <2>1. identityRow[b].group \in broken'
    BY <1>3, <1>4 DEF Concerns
  <2> QED
    BY <1>1, <1>2, <1>4, <2>1, ChatEnds
<1>5. CASE dbOf' = dbOf \ {b} /\ ChatGoes(c, r) /\ UNCHANGED broken
  <2>1. /\ r \in ChatCall /\ r.at = "purged" /\ r.group = chatCall[c].group
        /\ r.conv = chatCall[c].conv /\ r.ref = chatCall[c].ref
        /\ r.overtaken = chatCall[c].overtaken
    BY <1>2 DEF ChatCall, ChatStep
  <2> HIDE DEF r
  <2>2. chatCall'[c] = r
    BY <1>5 DEF ChatGoes, ChatInv, ChatTypes
  <2>3. ChatAt(chatCall[c])' /\ ConvTold(chatCall[c])'
    BY <1>1, <1>2, <2>1, <2>2 DEF ChatAt, ConvTold
  <2>4. PurgeHolds(chatCall[c]) => PurgeHolds(chatCall[c])'
    BY <1>1, <2>1, <2>2 DEF PurgeHolds, OnlyLeft, BoundTo
  <2>5. dbOf' \subseteq dbOf /\ b \notin dbOf'
    BY <1>5
  <2> QED
    BY <1>1, <1>2, <1>5, <2>1, <2>2, <2>3, <2>4, <2>5, GoesStep
<1> QED
  BY <1>4, <1>5 DEF RemoveDb

\* What a purge that was neither overtaken nor excused otherwise leaves.
LEMMA PurgedClean ==
  ASSUME ChatInv, NEW c \in ChatCallers, chatCall[c].at = "purged" PROVE Clean(c) \/ Excused(c)
<1> SUFFICES ASSUME ~Excused(c) PROVE Clean(c)
  OBVIOUS
<1> SUFFICES ASSUME chatCall[c].group \in Groups PROVE Clean(c)
  BY DEF Clean, Concerns
<1> DEFINE g == chatCall[c].group
<1>1. PurgeHolds(chatCall[c]) /\ g \notin broken
  BY DEF ChatInv, Excused, Concerns
<1>2. /\ localId[g] = NoConv /\ BoundTo(g) = {}
      /\ OnlyLeft({g, chatCall[c].ref, chatCall[c].conv}, {})
  BY <1>1 DEF PurgeHolds
<1>3. ASSUME NEW n \in ChatIdentities, identityRow[n].group = g
      PROVE  ~identityRow[n].there /\ n \notin dbOf /\ ~client[n].on
  <2>1. ~identityRow[n].there
    BY <1>2, <1>3 DEF BoundTo
  <2>2. /\ ~client[n].on
        /\ n \in dbOf => \E d \in ChatCallers : chatCall[d].at = "unfile"
    BY <1>1, <1>3, <2>1 DEF ChatInv, Leftovers
  <2>3. ASSUME NEW d \in ChatCallers, chatCall[d].at = "unfile" PROVE FALSE
    BY <2>3 DEF Excused
  <2> QED
    BY <2>1, <2>2, <2>3
<1>4. \A k \in ChatCreds : scoped[k].status = "active" =>
        scoped[k].chat \notin {g, chatCall[c].ref, chatCall[c].conv}
  BY <1>2 DEF OnlyLeft
<1> QED
  BY <1>2, <1>3, <1>4 DEF Clean, Concerns

LEMMA PurgedStep ==
  ASSUME ChatInv, NEW c \in ChatCallers, Purged(c) PROVE ChatInv'
<1>1. /\ chatCall[c].at = "purged" /\ ChatGoes(c, ChatIdle)
      /\ verdicts' = verdicts \union {[clean |-> Clean(c), excused |-> Excused(c)]}
      /\ UNCHANGED <<identityRow, memberOf, client, localId, scoped, dbOf, told, broken, unmapped>>
  BY DEF Purged, AtStep
<1>2. PurgeLeavesNothing'
  <2>1. Clean(c) \/ Excused(c)
    BY <1>1, PurgedClean
  <2>2. \A v \in verdicts : v.clean \/ v.excused
    BY DEF ChatInv, PurgeLeavesNothing
  <2>3. ASSUME NEW v \in verdicts' PROVE v.clean \/ v.excused
    <3>1. CASE v \in verdicts
      BY <2>2, <3>1
    <3>2. CASE v = [clean |-> Clean(c), excused |-> Excused(c)]
      <4>1. v.clean = Clean(c) /\ v.excused = Excused(c)
        BY <3>2
      <4> QED
        BY <2>1, <4>1
    <3> QED
      BY <1>1, <3>1, <3>2
  <2> QED
    BY <2>3 DEF PurgeLeavesNothing
<1>3. chatCall'[c] = ChatIdle
  BY <1>1 DEF ChatGoes, ChatInv, ChatTypes
<1>4. memberOf' \in [ChatIdentities -> SUBSET Groups]
  BY <1>1 DEF ChatInv, ChatTypes
<1>5. ChatAt(chatCall[c])' /\ PurgeHolds(chatCall[c])' /\ ConvTold(chatCall[c])'
  BY <1>3, ChatAnswered
<1> QED
  BY <1>1, <1>2, <1>4, <1>5, IdleChat, GoesStep

LEMMA IssueScopedStep ==
  ASSUME ChatInv, NEW k \in ChatCreds, NEW chat \in ConvIds \union Groups, IssueScoped(k, chat)
  PROVE  ChatInv'
<1>1. /\ scoped' = [scoped EXCEPT ![k] = [status |-> "active", chat |-> chat]]
      /\ chatCall' = [d \in ChatCallers |-> IF chatCall[d] = ChatIdle THEN ChatIdle
                                            ELSE [chatCall[d] EXCEPT !.overtaken = TRUE]]
      /\ UNCHANGED <<identityRow, memberOf, client, localId, dbOf, told, broken,
                     verdicts, unmapped>>
  BY DEF IssueScoped
<1>2. chat # NoConv
  BY ChatBounds, ChatIds DEF NoConv
<1>3. /\ scoped' \in [ChatCreds -> [status : {"none", "active", "revoked"},
                                    chat : ConvIds \union Groups \union {NoConv}]]
      /\ \A j \in ChatCreds : scoped'[j].status = "active" => scoped'[j].chat # NoConv
  BY <1>1, <1>2 DEF ChatInv, ChatTypes
<1>4. ASSUME NEW d \in ChatCallers
      PROVE  /\ chatCall'[d] \in ChatCall /\ ChatAt(chatCall[d])' /\ ConvTold(chatCall[d])'
             /\ chatCall'[d].overtaken \/ PurgeHolds(chatCall[d])'
             /\ chatCall'[d].at = chatCall[d].at /\ chatCall'[d].bound = chatCall[d].bound
  <2>1. chatCall'[d] = (IF chatCall[d] = ChatIdle THEN ChatIdle
                        ELSE [chatCall[d] EXCEPT !.overtaken = TRUE])
    BY <1>1
  <2> QED
    BY <1>1, <2>1, OvertakenChat
<1>5. chatCall' \in [ChatCallers -> ChatCall]
  BY <1>1, <1>4
<1>6. ChatTypes'
  BY <1>1, <1>3, <1>4, <1>5 DEF ChatInv, ChatTypes
<1>7. MapInv' /\ PurgeLeavesNothing'
  BY <1>1 DEF ChatInv, MapInv, PurgeLeavesNothing
<1>8. Leftovers'
  BY <1>1, <1>4, LeftoversKept DEF ChatInv
<1> QED
  BY <1>4, <1>6, <1>7, <1>8 DEF ChatInv

LEMMA ChatInvStep == ChatInv /\ [ChatsNext]_chatVars => ChatInv'
<1> SUFFICES ASSUME ChatInv, [ChatsNext]_chatVars PROVE ChatInv'
  OBVIOUS
<1>1. CASE UNCHANGED chatVars
  BY <1>1 DEF chatVars, ChatInv, ChatTypes, ChatAt, MapInv, ConvTold, PurgeHolds, OnlyLeft,
     NetworkOf, BoundTo, Leftovers, PurgeLeavesNothing
<1>2. ASSUME NEW c \in ChatCallers,
             \/ NetworkRefuses(c) \/ AnswerIds(c) \/ Leave(c) \/ MatchCredentials(c)
             \/ PlanPurge(c) \/ RevokeNext(c) \/ ForgetChat(c) \/ RemoveIdentity(c)
             \/ RemoveDb(c) \/ Purged(c)
      PROVE  ChatInv'
  BY <1>2, NetworkRefusesStep, AnswerIdsStep, LeaveStep, MatchCredentialsStep, PlanPurgeStep,
     RevokeNextStep, ForgetChatStep, RemoveIdentityStep, RemoveDbStep, PurgedStep
<1>3. ASSUME NEW c \in ChatCallers, NEW n \in ChatIdentities,
             BeginChat(c, "create", n) \/ BeginChat(c, "list", n) \/ Command(c, n)
      PROVE  ChatInv'
  BY <1>3, BeginChatStep, CommandStep
<1>4. ASSUME NEW c \in ChatCallers, NEW ref \in {t.conv : t \in told} \union Groups,
             \/ BeginCommand(c, "command", ref) \/ BeginCommand(c, "leave", ref)
             \/ \E force \in BOOLEAN : BeginRemove(c, ref, force)
      PROVE  ChatInv'
  BY <1>4, BeginCommandStep, BeginRemoveStep
<1> QED
  BY <1>1, <1>2, <1>3, <1>4, CreateGroupStep, GroupEventStep, IssueScopedStep DEF ChatsNext

LEMMA ChatsKeep == ChatsSpec => []ChatInv
BY ChatInitially, ChatInvStep, PTL DEF ChatsSpec

\* A conv id that was answered denotes its group, and never another one, until
\* a purge of the chat removes it, for any number of identities, groups and
\* calls under way (id-mapping-store.ts, ensureLocalId of
\* conversation-actions.ts).
THEOREM ConvIdsAreStable == ChatsSpec => []ConvIdsStable
<1>1. ChatInv => ConvIdsStable
  <2> SUFFICES ASSUME ChatInv, NEW t \in told
               PROVE  NetworkOf(t.conv) =
                        {t.group} \ (IF t.conv \in unmapped THEN Groups ELSE {})
    BY DEF ConvIdsStable
  <2>1. /\ t.group \in Groups /\ t.conv # NoConv
        /\ \A g \in Groups : localId[g] = t.conv => g = t.group
    BY ChatBounds DEF ChatInv, MapInv, NoConv
  <2>2. CASE t.conv \in unmapped
    BY <2>1, <2>2 DEF ChatInv, MapInv, NetworkOf
  <2>3. CASE t.conv \notin unmapped
    BY <2>1, <2>3 DEF ChatInv, MapInv, NetworkOf
  <2> QED
    BY <2>2, <2>3
<1> QED
  BY <1>1, ChatsKeep, PTL

\* A purge that answers "executed" has left neither mapping nor active
\* credential, row, client or database of its chat, unless it was overtaken, an
\* earlier purge of the chat failed half-way or another one is under way
\* (cleanupLocalState in start.ts).
THEOREM PurgesLeaveNothing == ChatsSpec => []PurgeLeavesNothing
<1>1. ChatInv => PurgeLeavesNothing
  BY DEF ChatInv
<1> QED
  BY <1>1, ChatsKeep, PTL
=============================================================================
