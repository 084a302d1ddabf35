------------------------------- MODULE Access -------------------------------
(***************************************************************************)
(* What a harness can do with a credential: the WebSocket request handler  *)
(* (send_message, reveal_content, confirm_action), the tools of the MCP    *)
(* server (message.send/reply/react/read, message.list/info, search, the   *)
(* reveal actions) and the credential routes of the HTTP server.           *)
(*                                                                         *)
(* Each of them decides with a copy of the credential it looked up some    *)
(* awaits earlier, while the owner edits, suspends or revokes the          *)
(* credential.  A request keeps in "facts" what the store said of it at    *)
(* any moment of its life: a history field, read only by the properties.   *)
(*                                                                         *)
(* Its caller may be answered before the request is over: the request      *)
(* timer of the WebSocket server answers for a handler that takes long,    *)
(* and a socket that closes leaves nobody to answer.  Neither cancels the  *)
(* handler, which goes on and whose own answer is dropped.                 *)
(***************************************************************************)
EXTENDS FiniteSets, Naturals

CONSTANTS
    AccessRequests,   \* the requests; each arrives once
    AccessChats,      \* conversations the daemon is a member of
    ScopedChats,      \* config.chatIds of the credential; service.update never changes them
    MaxAccessChanges  \* bound on the changes of the credential and of the core

ASSUME AccessAssumption ==
    /\ ScopedChats \subseteq AccessChats
    /\ MaxAccessChanges \in Nat

VARIABLES
    acred,      \* the stored credential: its status and its effective scopes
    acore,      \* state of the core, and the promise of the lazy upgrade
    areq,       \* the requests
    asent,      \* messages handed to the network: one record per request
    areveals,   \* chats with a recorded reveal of the credential
    achanges    \* changes so far

accessVars == <<acred, acore, areq, asent, areveals, achanges>>

AccessScopes == {"send", "read-messages", "read-history"}
AccessCreds == [status : {"active", "pending", "expired", "revoked"},
                scopes : SUBSET AccessScopes]

\* The scope that decides about a request of a kind, and what the history of
\* such a request notes of the store: this scope, and that it is active.
ScopeFor == [send |-> "send", confirm |-> "send", reveal |-> "read-history",
             read |-> "read-messages", search |-> "read-messages"]
FactsOf(c, kind) ==
    (c.scopes \cap {ScopeFor[kind]}) \cup (IF c.status = "active" THEN {"active"} ELSE {})

Free == [pc |-> "free", surface |-> "ws", kind |-> "send", chat |-> "none",
         facts |-> {}, held |-> {}, got |-> {}, answer |-> "none"]

AccessKinds ==
    [ws   |-> {"send", "reveal", "confirm"},
     mcp  |-> {"send", "read", "search", "reveal"},
     http |-> {"reveal"}]

AccessInit ==
    /\ acred = [status |-> "active", scopes |-> AccessScopes]
    /\ acore \in [state : {"ready-local", "ready"}, promise : {FALSE}]
    /\ areq = [r \in AccessRequests |-> Free]
    /\ asent = {} /\ areveals = {}
    /\ achanges = 0

(***************************************************************************)
(* Steps of a request                                                      *)
(***************************************************************************)
Advance(r, pc) == areq' = [areq EXCEPT ![r].pc = pc]

\* The request is over.  Its result reaches the caller unless the timer answered
\* before or the socket is gone.  The history is kept with content.
Answered(q, answer, got) ==
    [q EXCEPT !.pc = "done", !.answer = IF @ = "none" THEN answer ELSE @,
              !.got = got, !.held = {}, !.chat = "none",
              !.facts = IF got = {} THEN {} ELSE @]

Reply(r, answer, got) == areq' = [areq EXCEPT ![r] = Answered(@, answer, got)]

\* The daemon turns the request down.
Fail(r) == Reply(r, "refused", {})

\* From here on the request is about to act: that the credential was active
\* before no longer counts.
Ready(q) == [q EXCEPT !.pc = "recheck", !.facts = (@ \ {"active"}) \cup FactsOf(acred, q.kind)]

ReqAt(r, surface, pc) == areq[r].surface = surface /\ areq[r].pc = pc

\* validateSendMessage: the chat is one of the credential's and it may send.
ValidateSend(scopes, chat) == chat \in ScopedChats /\ "send" \in scopes

\* projectMessage for a revealed historical message: in scope, not hidden,
\* and read-history is held (resolveVisibility: a revealed message is visible
\* with or without read-messages).
ProjectsRevealed(scopes, chat) == chat \in ScopedChats /\ "read-history" \in scopes

Arrives(r, surface, kind, chat, pc) ==
    /\ areq[r].pc = "free"
    /\ areq' = [areq EXCEPT ![r] =
          [Free EXCEPT !.pc = pc, !.surface = surface, !.kind = kind,
                       !.chat = chat, !.facts = FactsOf(acred, kind)]]
    /\ UNCHANGED <<acred, acore, asent, areveals, achanges>>

WsRequest(r, kind, chat) ==
    kind \in AccessKinds.ws /\ Arrives(r, "ws", kind, chat, "frame")

McpCall(r, kind, chat) ==
    kind \in AccessKinds.mcp /\ Arrives(r, "mcp", kind, chat, "live")

HttpRequest(r, kind, chat) ==
    kind \in AccessKinds.http /\ Arrives(r, "http", kind, chat, "token")

StillActive == acred.status = "active"

\* handleRequestFrame looks the credential up and closes the socket unless it
\* is active; the handler then runs with that copy up to its first await.  A
\* stale heartbeat refuses the request (the clock is CredentialManager's: here
\* the check may go either way), a send is validated, a reveal is recorded, and
\* a confirm_action finds nothing: no code of the daemon adds to the store of
\* pending actions.
Dispatch(r) ==
    /\ ReqAt(r, "ws", "frame")
    /\ \/ Fail(r) /\ UNCHANGED areveals
       \/ /\ StillActive /\ areq[r].kind = "send"
          /\ ValidateSend(acred.scopes, areq[r].chat)
          /\ Advance(r, "core") /\ UNCHANGED areveals
       \/ /\ StillActive /\ areq[r].kind = "reveal"
          /\ areq' = [areq EXCEPT ![r].pc = "replay",
                                  ![r].held = acred.scopes \cap {ScopeFor.reveal}]
          /\ areveals' = areveals \cup {areq[r].chat}
    /\ UNCHANGED <<acred, acore, asent, achanges>>

\* ensureCoreReady: a ready core answers at once, an upgrade under way is
\* shared, a local core is upgraded, any other state refuses.  (The states
\* "uninitialized" and "error" are over when the servers start.)
EnsureCoreReady(r) ==
    /\ ReqAt(r, "ws", "core")
    /\ \/ /\ acore.state = "ready"
          /\ areq' = [areq EXCEPT ![r] = Ready(@)] /\ UNCHANGED acore
       \/ /\ acore.state # "ready" /\ acore.promise
          /\ Advance(r, "waiting") /\ UNCHANGED acore
       \/ /\ acore.state = "ready-local" /\ ~acore.promise
          /\ Advance(r, "waiting")
          /\ acore' = [state |-> "initializing", promise |-> TRUE]
       \/ /\ acore.state \notin {"ready", "ready-local"} /\ ~acore.promise
          /\ Fail(r) /\ UNCHANGED acore
    /\ UNCHANGED <<acred, asent, areveals, achanges>>

\* core.initialize() settles: everyone who shares the promise resumes.  A
\* start that fails puts the core back where it was.
UpgradeSettles(ok) ==
    /\ acore.promise
    /\ acore' = [state |-> IF ok THEN "ready" ELSE "ready-local", promise |-> FALSE]
    /\ areq' = [r \in AccessRequests |->
          IF areq[r].pc # "waiting" THEN areq[r]
          ELSE IF ok THEN Ready(areq[r])
          ELSE Answered(areq[r], "refused", {})]
    /\ UNCHANGED <<acred, asent, areveals, achanges>>

\* Mutant of Recheck: the copy of the dispatch is trusted.
RecheckNothing(r) ==
    /\ ReqAt(r, "ws", "recheck") /\ Advance(r, "sending")
    /\ UNCHANGED <<acred, acore, asent, areveals, achanges>>

\* The second look at the credential, after the core became ready.
Recheck(r) ==
    /\ ReqAt(r, "ws", "recheck")
    /\ IF StillActive THEN Advance(r, "sending") ELSE Fail(r)
    /\ UNCHANGED <<acred, acore, asent, areveals, achanges>>

\* client.sendMessage, for the WebSocket and the MCP tools alike: the network
\* takes the message while the handler awaits the client.
Delivers(r) ==
    /\ areq[r].pc = "sending"
    /\ asent' = asent \cup {[req |-> r, surface |-> areq[r].surface,
                             chat |-> areq[r].chat, facts |-> areq[r].facts]}
    /\ Advance(r, "sent")
    /\ UNCHANGED <<acred, acore, areveals, achanges>>

\* The client reports the message as sent.
SendsOk(r) ==
    /\ areq[r].pc = "sent" /\ Reply(r, "ok", {})
    /\ UNCHANGED <<acred, acore, asent, areveals, achanges>>

\* The message has no client or no group to go to; or the client reports an
\* error, which may be a deadline that passed after the network took the message.
SendFails(r) ==
    /\ \/ areq[r].pc = "sending" /\ Fail(r)
       \/ areq[r].pc \in {"sending", "sent"} /\ Reply(r, "failed", {})
    /\ UNCHANGED <<acred, acore, asent, areveals, achanges>>

\* The steps at which a request of a WebSocket is suspended; from "core" on its
\* timer runs.
Dispatched == {"core", "waiting", "recheck", "sending", "sent", "replay"}

AnsweredEarly(r, answer) ==
    /\ areq[r].surface = "ws" /\ areq[r].answer = "none"
    /\ areq' = [areq EXCEPT ![r].answer = answer]
    /\ UNCHANGED <<acred, acore, asent, areveals, achanges>>

\* The request timer fires: "Request timed out".  The handler is not cancelled.
RequestTimesOut(r) == areq[r].pc \in Dispatched /\ AnsweredEarly(r, "timeout")

\* The socket closes: the timer is cleared, the handler is not cancelled.
SocketCloses(r) == areq[r].pc \in Dispatched \cup {"frame"} /\ AnsweredEarly(r, "lost")

\* listMessages of reveal_content: the messages the store still reveals are
\* broadcast as the scopes the request started with project them; the reveal
\* may select none of them, and an error of the listing is not reported.
Replay(r) ==
    /\ ReqAt(r, "ws", "replay")
    /\ \/ /\ areq[r].chat \in areveals
          /\ ProjectsRevealed(areq[r].held, areq[r].chat)
          /\ Reply(r, "ok", {areq[r].chat})
       \/ Reply(r, "ok", {})
    /\ UNCHANGED <<acred, acore, asent, areveals, achanges>>

\* checkCredentialLiveness of an MCP call.  It reads the record and decides in
\* one step; the handler runs afterwards.
McpLive(r) ==
    /\ ReqAt(r, "mcp", "live")
    /\ IF StillActive
       THEN Advance(r, CASE areq[r].kind = "send" -> "sending"
                         [] areq[r].kind \in {"read", "search"} -> "scope"
                         [] areq[r].kind = "reveal" -> "target")
       ELSE Fail(r)
    /\ UNCHANGED <<acred, acore, asent, areveals, achanges>>

\* message.list and message.info answer not-found when the record does not
\* let them read the chat.
MayRead(chat) == chat \in ScopedChats /\ "read-messages" \in acred.scopes

ReadScope(r) ==
    /\ ReqAt(r, "mcp", "scope") /\ areq[r].kind = "read"
    /\ IF MayRead(areq[r].chat) THEN Advance(r, "listing") ELSE Fail(r)
    /\ UNCHANGED <<acred, acore, asent, areveals, achanges>>

\* search.messages keeps the chats of the credential, and answers an empty
\* list where list and info answer an error.
SearchedChats == IF "read-messages" \in acred.scopes THEN ScopedChats ELSE {}

SearchScope(r) ==
    /\ ReqAt(r, "mcp", "scope") /\ areq[r].kind = "search"
    /\ IF SearchedChats = {} THEN Reply(r, "ok", {})
       ELSE areq' = [areq EXCEPT ![r].pc = "listing", ![r].held = SearchedChats]
    /\ UNCHANGED <<acred, acore, asent, areveals, achanges>>

\* The network answers with the messages.  A search without a chat asks every
\* group and skips the ones outside the chats it kept.
Listed(r) ==
    /\ ReqAt(r, "mcp", "listing")
    /\ \/ Fail(r)
       \/ areq[r].kind = "read" /\ Reply(r, "ok", {areq[r].chat})
       \/ areq[r].kind = "search" /\ Reply(r, "ok", {areq[r].chat} \cap areq[r].held)
       \/ areq[r].kind = "search" /\ Reply(r, "ok", AccessChats \cap areq[r].held)
    /\ UNCHANGED <<acred, acore, asent, areveals, achanges>>

\* lookupByToken of a credential route accepts an active credential; then the
\* body is read.
HttpToken(r) ==
    /\ ReqAt(r, "http", "token")
    /\ IF StillActive THEN Advance(r, "body") ELSE Fail(r)
    /\ UNCHANGED <<acred, acore, asent, areveals, achanges>>

HttpBody(r) ==
    /\ ReqAt(r, "http", "body")
    /\ Advance(r, "target") \/ Fail(r)
    /\ UNCHANGED <<acred, acore, asent, areveals, achanges>>

\* reveal.request: the target is the caller's own credential, which must be
\* active and hold the chat; the reveal is recorded at once.
RevealRequested(r) ==
    /\ areq[r].pc = "target"
    /\ IF StillActive /\ areq[r].chat \in ScopedChats
       THEN /\ Reply(r, "ok", {})
            /\ areveals' = areveals \cup {areq[r].chat}
       ELSE Fail(r) /\ UNCHANGED areveals
    /\ UNCHANGED <<acred, acore, asent, achanges>>

(***************************************************************************)
(* The owner, the clock and the rest of the daemon                         *)
(***************************************************************************)
\* The credential manager changes the record (CredentialManager has the
\* operations).  A revoked or expired credential holds no reveals and never
\* changes again.
CredentialChanges(c) ==
    /\ achanges < MaxAccessChanges /\ c # acred
    /\ acred.status \in {"active", "pending"}
    /\ c.scopes # acred.scopes => c.status = acred.status
    /\ acred' = c
    /\ areveals' = IF c.status = "revoked" THEN {} ELSE areveals
    /\ areq' = [r \in AccessRequests |->
          IF areq[r].pc \in {"free", "done"} THEN areq[r]
          ELSE [areq[r] EXCEPT !.facts = @ \cup FactsOf(c, areq[r].kind)]]
    /\ achanges' = achanges + 1
    /\ UNCHANGED <<acore, asent>>

\* The daemon shuts down; a core that is starting refuses to stop.
CoreStops ==
    /\ achanges < MaxAccessChanges /\ acore.state \in {"ready-local", "ready"}
    /\ acore' = [acore EXCEPT !.state = "stopped"]
    /\ achanges' = achanges + 1
    /\ UNCHANGED <<acred, areq, asent, areveals>>

AccessNext ==
    \/ \E r \in AccessRequests, c \in AccessChats :
          \/ \E k \in AccessKinds.ws : WsRequest(r, k, c)
          \/ \E k \in AccessKinds.mcp : McpCall(r, k, c)
          \/ \E k \in AccessKinds.http : HttpRequest(r, k, c)
    \/ \E r \in AccessRequests :
          \/ Dispatch(r) \/ EnsureCoreReady(r) \/ Recheck(r) \/ Delivers(r) \/ SendsOk(r)
          \/ SendFails(r) \/ RequestTimesOut(r) \/ SocketCloses(r) \/ Replay(r)
          \/ McpLive(r) \/ ReadScope(r) \/ SearchScope(r) \/ Listed(r)
          \/ HttpToken(r) \/ HttpBody(r) \/ RevealRequested(r)
    \/ \E ok \in BOOLEAN : UpgradeSettles(ok)
    \/ \E c \in AccessCreds : CredentialChanges(c)
    \/ CoreStops

AccessSpec == AccessInit /\ [][AccessNext]_accessVars

(***************************************************************************)
(* Properties                                                              *)
(***************************************************************************)
\* Whatever the interleaving of awaits with edits, suspension and revocation, with
\* the request timer and with closing sockets, also for a handler whose caller
\* has been answered already:
\*   - content reaches a harness only from the credential's chats, and only if
\*     the store let it read (read-messages for a tool, read-history for a
\*     replayed reveal) at some moment of that very request;
\*   - a message goes out only for a credential that was active during the
\*     request, over a WebSocket to a chat it could send to, and there active
\*     at a moment after the core became ready: one revoked while the core
\*     came up sends nothing.  The tools of the MCP server that send check
\*     neither chat nor scope, so nothing is said of theirs;
\*   - a caller that was told "ok" had its message taken by the network; one
\*     that was turned down (credential, scope, core or group) never has it
\*     sent, not later either.  After a timeout, a lost socket or an error of
\*     the client the message may have gone out, before or after.
\* (request-handler.ts:128-190, ws/src/server.ts:431-501, message-actions.ts,
\* search-actions.ts)
AccessPermitted ==
    /\ \A r \in AccessRequests : areq[r].got # {} =>
          /\ areq[r].got \subseteq ScopedChats
          /\ "active" \in areq[r].facts
          /\ (IF areq[r].surface = "ws" THEN "read-history" ELSE "read-messages")
                \in areq[r].facts
    /\ \A s \in asent :
          /\ "active" \in s.facts
          /\ s.surface = "ws" => s.chat \in ScopedChats /\ "send" \in s.facts
          /\ areq[s.req].answer # "refused"
    /\ \A r \in AccessRequests : areq[r].kind = "send" /\ areq[r].answer = "ok" =>
          \E s \in asent : s.req = r

=============================================================================
