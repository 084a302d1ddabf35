---------------------------- MODULE AdminChannel ----------------------------
(***************************************************************************)
(* The xs commands and the daemon they talk to: withDaemonClient, the      *)
(* admin client and the admin server on its Unix socket, the dispatcher,   *)
(* and the admin routes of the HTTP server.                                *)
(*                                                                         *)
(* A command runs its steps one after the other; a step is one request.    *)
(* The steps of one session share a connection, which opens with an auth   *)
(* frame.  The daemon may stop or die at any moment, and with it every     *)
(* connection; the client has no timeout of its own.                       *)
(***************************************************************************)
EXTENDS Naturals, Sequences, FiniteSets

CONSTANTS
    XsCommands,      \* commands being run
    MaxDaemonStops   \* bound on the stops of the daemon

ASSUME ChannelAssumption == MaxDaemonStops \in Nat

VARIABLES
    cmd,      \* per command: its plan, the step it is at, where it is, how it exited
    conn,     \* per command: its connection as the server sees it
    task,     \* per command: the line the server is handling
    answer,   \* per command: the line on its way back to the client
    ran,      \* <<command, step>> -> how often the handler of the step has succeeded
    daemon,   \* "up", "closed" (no longer listening) or "down"
    stops

channelVars == <<cmd, conn, task, answer, ran, daemon, stops>>

(***************************************************************************)
(* Plans: the session of each step, and whether its failure ends the       *)
(* command.                                                                *)
(***************************************************************************)
Step(session, required, how) == [session |-> session, required |-> required, how |-> how]

Call(session) == Step(session, TRUE, "call")

\* Most commands make one request, print its result or its error, and exit.
OneRequest == <<Call(1)>>

\* xs chat create: the profile and the invite may follow on the same
\* connection, and their failure is a warning.
Optional == Step(1, FALSE, "call")
ChatCreate == {OneRequest, <<Call(1), Optional>>, <<Call(1), Optional, Optional>>}

\* xs cred issue resolves labels first, each on a connection of its own.
CredentialIssue == {OneRequest, <<Call(1), Call(2)>>, <<Call(1), Call(2), Call(3)>>}

\* xs key export-public without a key lists the keys first.
KeyExport == {OneRequest, <<Call(1), Call(2)>>}

\* The methods of the commands that make one request.
ChatQueries == {"chat.list", "chat.info", "chat.update"}
ChatOnboarding == {"chat.join", "chat.invite"}
ChatDepartures == {"chat.update-profile", "chat.leave", "chat.rm"}
ChatMembers == {"chat.members", "chat.add-member", "chat.remove-member",
                "chat.promote-member", "chat.demote-member"}
CredentialCommands == {"credential.list", "credential.lookup", "credential.revoke"}
CredentialUpdate == {"credential.updateScopes"}
InboxCommands == {"inbox.create", "inbox.list", "inbox.info", "inbox.rm",
                  "inbox.link", "inbox.unlink"}
OperatorCommands == {"operator.create", "operator.list", "operator.info",
                     "operator.update", "operator.remove"}
PolicyCommands == {"policy.create", "policy.list", "policy.info",
                   "policy.update", "policy.remove"}
MessageSends == {"message.send", "message.reply", "message.react"}
MessageReads == {"message.read", "message.list", "message.info"}
KeyCommands == {"keys.init", "keys.rotate", "keys.list", "keys.info"}
SealCommands == {"seal.list", "seal.info", "seal.verify", "seal.history"}
WalletCommands == {"wallet.create", "wallet.list", "wallet.info"}
LogCommands == {"admin.logs", "admin.logs-export", "lookup.resolve"}
SearchCommands == {"search.messages", "search.resources"}
ConsentCommands == {"consent.check", "consent.allow", "consent.deny"}
ConversationCommands == {"chat.create", "chat.list", "chat.info", "chat.add-member"}
ConversationInvites == {"chat.invite", "chat.join"}
LegacyCredentialCommands == {"credential.list", "credential.lookup",
                             "credential.revoke", "credential.issue"}
AdminCommands == {"admin.verify-keys", "admin.export-state", "admin.logs", "keys.rotate"}
DaemonCommands == {"signet.stop", "signet.status"}

XsMethods ==
    UNION {ChatQueries, ChatOnboarding, ChatDepartures, ChatMembers,
           CredentialCommands, CredentialUpdate, InboxCommands, OperatorCommands,
           PolicyCommands, MessageSends, MessageReads, KeyCommands, SealCommands,
           WalletCommands, LogCommands, SearchCommands, ConsentCommands,
           ConversationCommands, ConversationInvites, LegacyCredentialCommands,
           AdminCommands, DaemonCommands}
    \cup {"chat.create", "credential.issue", "keys.export-public"}

\* The actions the runtime registers, as the dispatcher's method map has them.
Names(area, actions) == {area \o "." \o a : a \in actions}
SignetActions == Names("signet", {"status", "stop"}) \cup {"keys.rotate"}
                 \cup Names("admin", {"verify-keys", "export-state", "logs", "logs-export"})
MethodMap ==
    UNION {SignetActions,
           Names("credential", {"issue", "list", "lookup", "revoke", "updateScopes"}),
           Names("reveal", {"request", "list"}),
           Names("operator", {"create", "list", "info", "update", "remove"}),
           Names("policy", {"create", "list", "info", "update", "remove"}),
           Names("inbox", {"create", "list", "info", "link", "unlink", "rm"}),
           Names("keys", {"init", "list", "info", "export-public"}),
           Names("wallet", {"create", "list", "info"}),
           Names("chat", {"create", "list", "info", "join", "invite", "add-member",
                          "update", "update-profile", "leave", "rm", "remove-member",
                          "promote-member", "demote-member", "members"}),
           Names("message", {"send", "list", "info", "reply", "react", "read"}),
           Names("consent", {"check", "allow", "deny"}),
           Names("search", {"messages", "resources"}),
           Names("lookup", {"resolve"}),
           Names("seal", {"list", "info", "history", "verify"})}

\* Every method a command calls is one the daemon has.
ASSUME MethodsRegistered == XsMethods \subseteq MethodMap

\* An admin route of the HTTP server: the token comes with the request.  A stop
\* also closes the listener.
HttpCall == {<<Step(1, TRUE, "http")>>}
StopCall == {<<Step(1, TRUE, "stop")>>}

XsPlans == UNION {{OneRequest}, ChatCreate, CredentialIssue, KeyExport, StopCall, HttpCall}

How(c) == cmd[c].plan[cmd[c].at].how
MaxSteps == 3

ChannelInit ==
    /\ cmd = [c \in XsCommands |-> [plan |-> OneRequest, at |-> 1, pc |-> "new", exit |-> "none"]]
    /\ conn = [c \in XsCommands |-> "none"]
    /\ task = [c \in XsCommands |-> "idle"]
    /\ answer = [c \in XsCommands |-> "none"]
    /\ ran = [s \in XsCommands \X (1 .. MaxSteps) |-> 0]
    /\ daemon = "up" /\ stops = 0

(***************************************************************************)
(* The command                                                             *)
(***************************************************************************)
CmdAt(c, pc) == cmd[c].pc = pc

CmdGoto(c, pc) == cmd' = [cmd EXCEPT ![c].pc = pc]

Exited(state, how) == [state EXCEPT !.pc = "exited", !.exit = how]

\* After step "at" of the plan has been answered: the next step, on this
\* connection or on a new one, or the end.
StepDone(state) ==
    LET plan == state.plan
        next == state.at + 1
    IN  IF state.at = Len(plan) THEN Exited(state, "ok")
        ELSE [state EXCEPT !.at = next,
                           !.pc = IF plan[next].session = plan[state.at].session
                                  THEN "await" ELSE "keys"]

\* What an error of the current step means for the command.
StepFailed(state) ==
    IF state.plan[state.at].required THEN Exited(state, "error")
    ELSE StepDone(state)

StartCommand(c, plan) ==
    /\ CmdAt(c, "new")
    /\ cmd' = [cmd EXCEPT ![c].plan = plan,
                          ![c].pc = IF plan \in HttpCall THEN "connect" ELSE "keys"]
    /\ UNCHANGED <<conn, task, answer, ran, daemon, stops>>

\* withDaemonClient: config, key manager, admin key and a token of 120 s.  Any
\* of them may fail; the finally clause closes the client.
MintToken(c) ==
    /\ CmdAt(c, "keys")
    /\ \/ CmdGoto(c, "connect")
       \/ cmd' = [cmd EXCEPT ![c] = Exited(@, "error")]
    /\ UNCHANGED <<conn, task, answer, ran, daemon, stops>>

\* client.connect: the socket opens while the daemon listens, and the auth
\* frame is written at once.  An HTTP request carries its token with it.
Connect(c) ==
    /\ CmdAt(c, "connect")
    /\ IF daemon = "up"
       THEN /\ conn' = [conn EXCEPT ![c] = "open"]
            /\ task' = [task EXCEPT ![c] = "verify"]
            /\ CmdGoto(c, IF How(c) = "http" THEN "await" ELSE "auth")
       ELSE /\ cmd' = [cmd EXCEPT ![c] = Exited(@, "error")]
            /\ UNCHANGED <<conn, task>>
    /\ UNCHANGED <<answer, ran, daemon, stops>>

\* Mutant of Settled: an error answer of a step is taken for its result.
SettledAnyway(c) ==
    CASE answer[c] = "authenticated" -> [cmd[c] EXCEPT !.pc = "await"]
      [] answer[c] = "unauthenticated" -> Exited(cmd[c], "error")
      [] OTHER -> StepDone(cmd[c])

\* processLine: the answer settles the pending entry it belongs to, and the
\* command resumes before anything else happens in its process.
Settled(c) ==
    CASE answer[c] = "authenticated" -> [cmd[c] EXCEPT !.pc = "await"]
      [] answer[c] = "unauthenticated" -> Exited(cmd[c], "error")
      [] answer[c] = "ok" -> StepDone(cmd[c])
      [] answer[c] = "error" -> StepFailed(cmd[c])

\* A resumed command either writes its next request (client.request) or is done
\* with the session, and the finally clause closes the socket.
ProcessLine(c) ==
    /\ answer[c] # "none"
    /\ cmd' = [cmd EXCEPT ![c] = Settled(c)]
    /\ answer' = [answer EXCEPT ![c] = "none"]
    /\ IF cmd'[c].pc = "await"
       THEN task' = [task EXCEPT ![c] = "line"] /\ UNCHANGED conn
       ELSE conn' = [conn EXCEPT ![c] = "none"] /\ UNCHANGED task
    /\ UNCHANGED <<ran, daemon, stops>>

(***************************************************************************)
(* The daemon                                                              *)
(***************************************************************************)
WriteLine(c, line) ==
    /\ answer' = [answer EXCEPT ![c] = line]
    /\ task' = [task EXCEPT ![c] = "idle"]

\* handleLine before authentication: only an auth frame is accepted, and it
\* counts once verifyJwt has answered.  handleAdminRoute and the admin branch of
\* handleActionRoute verify the bearer token of each request.
VerifyToken(c) ==
    /\ task[c] = "verify" /\ conn[c] = "open"
    /\ IF How(c) = "http"
       THEN /\ \/ task' = [task EXCEPT ![c] = "body"] /\ UNCHANGED answer
               \/ WriteLine(c, "error")
            /\ conn' = [conn EXCEPT ![c] = IF task'[c] = "body" THEN "authenticated" ELSE @]
       ELSE \/ WriteLine(c, "authenticated") /\ conn' = [conn EXCEPT ![c] = "authenticated"]
            \/ WriteLine(c, "unauthenticated") /\ UNCHANGED conn
    /\ UNCHANGED <<cmd, ran, daemon, stops>>

\* The body of an HTTP request is read and parsed.
ReadBody(c) ==
    /\ task[c] = "body" /\ conn[c] # "lost"
    /\ \/ task' = [task EXCEPT ![c] = "line"] /\ UNCHANGED answer
       \/ WriteLine(c, "error")
    /\ UNCHANGED <<cmd, conn, ran, daemon, stops>>

\* handleLine of an authenticated connection: the method exists, its params
\* validate, and the read elevation (ReadElevation) lets it through.
DispatchLine(c) ==
    /\ task[c] = "line"
    /\ \/ /\ conn[c] = "authenticated"
          /\ task' = [task EXCEPT ![c] = "handler"] /\ UNCHANGED answer
       \/ conn[c] # "lost" /\ WriteLine(c, "error")
    /\ UNCHANGED <<cmd, conn, ran, daemon, stops>>

\* dispatchValidated: the handler returns a result, an error, or throws, which
\* is turned into an error.  signet.stop stops the listener and answers on the
\* connection, which stays open.
RunHandler(c) ==
    /\ task[c] = "handler"
    /\ \/ /\ WriteLine(c, "ok")
          /\ ran' = [ran EXCEPT ![<<c, cmd[c].at>>] = @ + 1]
          /\ daemon' = IF How(c) = "stop" /\ daemon = "up" THEN "closed" ELSE daemon
       \/ WriteLine(c, "error") /\ UNCHANGED <<ran, daemon>>
    /\ UNCHANGED <<cmd, conn, stops>>

\* Mutant of Rejected: the close callback rejects nothing.
RejectedNever(c) == cmd[c]

\* The close callback rejects whatever is pending but does not forget the
\* socket: a command that goes on with an optional step writes its request to a
\* dead socket and waits for nothing.
Rejected(c) ==
    LET next == IF cmd[c].pc = "await" THEN StepFailed(cmd[c])
                ELSE Exited(cmd[c], "error")
    IN  IF next.pc = "await" THEN [next EXCEPT !.pc = "hung"] ELSE next

OnLine(c) == conn[c] \in {"open", "authenticated"}

\* The daemon's process ends: its connections close and the lines in flight
\* are lost.
DaemonEnds ==
    /\ daemon # "down" /\ stops < MaxDaemonStops
    /\ daemon' = "down" /\ stops' = stops + 1
    /\ cmd' = [c \in XsCommands |-> IF OnLine(c) THEN Rejected(c) ELSE cmd[c]]
    /\ conn' = [c \in XsCommands |-> IF OnLine(c) THEN "lost" ELSE conn[c]]
    /\ task' = [c \in XsCommands |-> "idle"]
    /\ answer' = [c \in XsCommands |-> "none"]
    /\ UNCHANGED ran

DaemonStarts ==
    /\ daemon = "down" /\ daemon' = "up"
    /\ UNCHANGED <<cmd, conn, task, answer, ran, stops>>

\* A started command goes on by itself, a line on the wire arrives, and the
\* daemon's event loop and its handlers get on with their work.
CommandStep(c) ==
    \/ MintToken(c) \/ Connect(c) \/ ProcessLine(c)
    \/ VerifyToken(c) \/ ReadBody(c) \/ DispatchLine(c) \/ RunHandler(c)

ChannelNext ==
    \/ \E c \in XsCommands : CommandStep(c) \/ \E plan \in XsPlans : StartCommand(c, plan)
    \/ DaemonEnds \/ DaemonStarts

ChannelFairness == \A c \in XsCommands : WF_channelVars(CommandStep(c))

ChannelSpec == ChannelInit /\ [][ChannelNext]_channelVars /\ ChannelFairness

(***************************************************************************)
(* Properties                                                              *)
(***************************************************************************)
\* The exit status of a command tells the truth across sessions and losses: it
\* reports success only if every step whose failure counts has run, no step has
\* run twice, and no step has run before an earlier one its plan requires
\* (daemon-client.ts, client.ts, xs-chat.ts:210, xs-credential.ts:196).
CommandsTruthful ==
    \A c \in XsCommands :
        LET required == {i \in 1 .. Len(cmd[c].plan) : cmd[c].plan[i].required}
        IN  /\ cmd[c].exit = "ok" => \A i \in required : ran[<<c, i>>] = 1
            /\ \A i \in 1 .. MaxSteps :
                  /\ ran[<<c, i>>] <= 1
                  /\ ran[<<c, i>>] = 1 => \A j \in required : j < i => ran[<<c, j>>] = 1

\* A command that was started ends, whatever happens to the daemon: the close
\* callback rejects the pending request.  The one exception is a request made
\* on a connection already known to be lost, which only chat create with its
\* optional steps can make (client.ts:246).
CommandsOver ==
    \A c \in XsCommands :
        \/ cmd[c].pc \in {"new", "exited"}
        \/ cmd[c].pc = "hung" /\ cmd[c].plan \in ChatCreate

CommandEnds == ~CommandsOver ~> CommandsOver

=============================================================================
