------------------------------ MODULE Runtime -------------------------------
(***************************************************************************)
(* The daemon (packages/cli/src/runtime.ts): start() and shutdown() bring  *)
(* the signet core, the WebSocket, admin and HTTP servers and the PID file *)
(* up and down, one awaited step after the other, and roll back what a     *)
(* failed step leaves behind.  Around it the process: the start command    *)
(* exits after a failed start and after a signal's shutdown, a signet.stop *)
(* request shuts down without exiting, the process may crash at any point, *)
(* and a new process finds the identity rows and the PID file of the last. *)
(*                                                                         *)
(* Requests reach the core while a server listens: the admin socket        *)
(* registers, attaches and removes identities, and a WebSocket request     *)
(* that finds the core local starts it (ws/core-upgrade.ts).               *)
(***************************************************************************)
EXTENDS SignetCore, Sequences

CONSTANTS
    Networked,    \* config.signet.env is not "local"
    HttpEnabled,  \* config.http.enabled: there is an HTTP server
    MaxRuns,      \* processes started one after the other
    MaxRequests   \* admin requests that reach the core

ASSUME RuntimeBounds ==
    /\ Networked \in BOOLEAN /\ HttpEnabled \in BOOLEAN
    /\ MaxRuns \in Nat \ {0} /\ MaxRequests \in Nat

VARIABLES
    daemon,     \* currentState
    work,       \* the steps start() or shutdown() has still to take
    servers,    \* [Servers -> serverState]; "stuck": stop() failed half way
    pid,        \* the PID file exists
    errors,     \* shutdown(): a step reported an error
    run,        \* number of the process
    requests    \* admin requests made so far

runtimeVars == <<daemon, work, servers, pid, errors, run, requests>>
vars == <<coreVars, runtimeVars>>

Up(part)   == <<"up", part>>
Down(part) == <<"down", part>>
Servers    == {"ws", "admin"} \union (IF HttpEnabled THEN {"http"} ELSE {})
IfHttp(step) == IF HttpEnabled THEN <<step>> ELSE <<>>

StartSteps == <<Up("keys"), Up("local"), Up("network"), Up("ws"), Up("admin")>>
                \o IfHttp(Up("http")) \o <<Up("pid"), Up("log")>>

StopSteps == IfHttp(Down("http")) \o <<Down("admin"), Down("ws"), Down("core"),
                                       Down("pid"), Down("log")>>

\* Mutant of Undo: the rollback of a failed HTTP start forgets the WebSocket server.
UndoForgets(part) ==
    CASE part = "ws"    -> <<Down("core")>>
      [] part = "admin" -> <<Down("core")>>
      [] part = "http"  -> <<Down("admin"), Down("ws"), Down("core")>>
      [] part = "pid"   -> IfHttp(Down("http")) \o <<Down("admin"), Down("ws"), Down("core")>>
      [] part = "log"   -> <<Down("pid")>> \o IfHttp(Down("http"))
                             \o <<Down("admin"), Down("core")>>
      [] OTHER          -> <<>>

\* What start() undoes when a step fails: nothing while only keys and the local
\* core are up, nor when the outer catch is reached.
Undo(part) ==
    CASE part = "ws"    -> <<Down("core")>>
      [] part = "admin" -> <<Down("ws"), Down("core")>>
      [] part = "http"  -> <<Down("admin"), Down("ws"), Down("core")>>
      [] part = "pid"   -> IfHttp(Down("http")) \o <<Down("admin"), Down("ws"), Down("core")>>
      [] part = "log"   -> <<Down("pid")>> \o IfHttp(Down("http"))
                             \o <<Down("admin"), Down("ws"), Down("core")>>
      [] OTHER          -> <<>>

Init ==
    /\ CoreInit
    /\ daemon = "created" /\ work = <<>> /\ errors = FALSE
    /\ servers = [s \in Servers |-> "idle"]
    /\ pid = FALSE /\ run = 0 /\ requests = 0

Doing(step)  == work # <<>> /\ Head(work) = step
Next1        == work' = Tail(work)
Listening(s) == servers[s] = "listening"

-----------------------------------------------------------------------------
(* The process.                                                             *)

\* The start command: createSignetRuntime, then runtime.start().  The rows and
\* the PID file are those earlier processes left.
Launch ==
    /\ daemon = "created" /\ run < MaxRuns
    /\ run' = run + 1 /\ daemon' = "starting" /\ work' = StartSteps
    /\ UNCHANGED <<servers, pid, errors, requests, coreVars>>

\* The process is gone: memory is lost, what is on disk stays.
Gone ==
    /\ daemon' = "created" /\ work' = <<>> /\ errors' = FALSE
    /\ servers' = [s \in Servers |-> "idle"]
    /\ core' = "idle" /\ open' = TRUE /\ beats' = FALSE
    /\ registry' = [i \in Ids |-> 0] /\ streams' = {}
    /\ tasks' = [t \in Slots |-> NoTask] /\ caught' = {} /\ raced' = {}
    /\ UNCHANGED <<rows, pid, run, requests>>

\* After a failed start, after the shutdown a signal asked for, and on the
\* signal that follows a shutdown asked for over the admin socket.
Exit == work = <<>> /\ daemon \in {"error", "stopped"} /\ Gone

\* A crash, a kill, or a second signal while the first one's shutdown runs.
Crash == daemon # "created" /\ Gone

-----------------------------------------------------------------------------
(* runtime.start()                                                          *)

\* A step of start() fails: the state is "error" before the rollback begins.
StepFails(part) ==
    /\ Doing(Up(part)) /\ part \notin {"local", "network"}
    /\ daemon' = "error" /\ work' = Undo(part)
    /\ UNCHANGED <<servers, pid, errors, run, requests, coreVars>>

KeysReady ==
    /\ Doing(Up("keys")) /\ Next1
    /\ UNCHANGED <<daemon, servers, pid, errors, run, requests, coreVars>>

InitializeLocal ==
    /\ Doing(Up("local")) /\ StartLocal /\ Next1
    /\ UNCHANGED <<daemon, servers, pid, errors, run, requests>>

\* core.initialize() of a daemon with a network; its result is awaited.
InitializeNetwork ==
    /\ Doing(Up("network")) /\ Networked /\ core = "local"
    /\ Start /\ work' = <<Up("upgrade")>> \o Tail(work)
    /\ UNCHANGED <<daemon, servers, pid, errors, run, requests>>

\* There is no network to start, or it is up, or it failed, which is put on the
\* audit log: the daemon goes on with a local core.
NetworkSettled ==
    /\ \/ Doing(Up("network")) /\ ~Networked
       \/ Doing(Up("upgrade")) /\ core # "starting"
    /\ Next1
    /\ UNCHANGED <<daemon, servers, pid, errors, run, requests, coreVars>>

\* The network start failed and so did the audit entry about it: the outer
\* catch makes this a failed start and stops nothing.
NetworkAuditFails ==
    /\ Doing(Up("upgrade")) /\ core = "local"
    /\ daemon' = "error" /\ work' = Undo("upgrade")
    /\ UNCHANGED <<servers, pid, errors, run, requests, coreVars>>

ServerStarts(s) ==
    /\ Doing(Up(s)) /\ Next1
    /\ servers' = [servers EXCEPT ![s] = "listening"]
    /\ UNCHANGED <<daemon, pid, errors, run, requests, coreVars>>

PidWritten ==
    /\ Doing(Up("pid")) /\ Next1 /\ pid' = TRUE
    /\ UNCHANGED <<daemon, servers, errors, run, requests, coreVars>>

\* The start is on the audit log.
StartDone ==
    /\ Doing(Up("log")) /\ Next1 /\ daemon' = "running"
    /\ UNCHANGED <<servers, pid, errors, run, requests, coreVars>>

-----------------------------------------------------------------------------
(* runtime.shutdown(), and the steps the rollback of start() shares         *)

\* By a signal or by signet.stop; refused in any other state.
Shutdown ==
    /\ daemon = "running"
    /\ daemon' = "draining" /\ work' = StopSteps /\ errors' = FALSE
    /\ UNCHANGED <<servers, pid, run, requests, coreVars>>

ServerStops(s) ==
    /\ Doing(Down(s)) /\ Next1
    /\ servers' = [servers EXCEPT ![s] = "stopped"]
    /\ UNCHANGED <<daemon, pid, errors, run, requests, coreVars>>

\* The listener is closed, but the socket file cannot be removed or the close throws.
ServerStopFails(s) ==
    /\ Doing(Down(s)) /\ s # "ws" /\ Next1
    /\ servers' = [servers EXCEPT ![s] = "stuck"]
    /\ errors' = TRUE
    /\ UNCHANGED <<daemon, pid, run, requests, coreVars>>

CoreStops ==
    /\ Doing(Down("core")) /\ Stop /\ Next1
    /\ UNCHANGED <<daemon, servers, pid, errors, run, requests>>

\* stop() is refused while a WebSocket request's start of the core is under way.
CoreStopRefused ==
    /\ Doing(Down("core")) /\ core \notin {"local", "running", "error"} /\ Next1
    /\ errors' = TRUE
    /\ UNCHANGED <<daemon, servers, pid, run, requests, coreVars>>

\* The result of the cleanup is not looked at.
PidCleanup ==
    /\ Doing(Down("pid")) /\ Next1
    /\ pid' \in {FALSE, pid}
    /\ UNCHANGED <<daemon, servers, errors, run, requests, coreVars>>

\* The shutdown is put on the audit log; an append that throws makes it an error.
ShutdownDone ==
    /\ Doing(Down("log")) /\ Next1
    /\ daemon' \in {"error"} \union (IF errors THEN {} ELSE {"stopped"})
    /\ UNCHANGED <<servers, pid, errors, run, requests, coreVars>>

-----------------------------------------------------------------------------
(* Requests.                                                                *)

\* Over the admin socket or HTTP: the core operations of the inbox and
\* conversation actions.
AdminRequest ==
    /\ requests < MaxRequests /\ requests' = requests + 1
    /\ \E s \in Servers \ {"ws"} : Listening(s)
    /\ \/ Register
       \/ \E i \in Ids : Attach(i) \/ RemoveInbox(i) \/ Purge(i)
    /\ UNCHANGED <<daemon, work, servers, pid, errors, run>>

\* createLazyCoreUpgrade: a WebSocket request that finds the core local starts it.
CoreUpgrade ==
    /\ Listening("ws") /\ core = "local" /\ Start
    /\ UNCHANGED runtimeVars

CoreStep == (\E t \in Slots : TaskStep(t)) /\ UNCHANGED runtimeVars

DaemonStep ==
    \/ KeysReady \/ InitializeLocal \/ InitializeNetwork \/ NetworkSettled
    \/ NetworkAuditFails \/ PidWritten \/ StartDone
    \/ \E s \in Servers : ServerStarts(s) \/ ServerStops(s) \/ ServerStopFails(s)
    \/ \E part \in Servers \union {"keys", "pid", "log"} : StepFails(part)
    \/ CoreStops \/ CoreStopRefused \/ PidCleanup \/ ShutdownDone

\* Nothing is left to run: the last process has exited.
Terminated == daemon = "created" /\ run = MaxRuns /\ UNCHANGED vars

Next ==
    \/ Launch \/ Exit \/ Crash \/ Shutdown \/ DaemonStep
    \/ AdminRequest \/ CoreUpgrade \/ CoreStep \/ Terminated

\* The event loop resumes what it can resume, and the native calls settle.
Fairness ==
    /\ WF_vars(DaemonStep)
    /\ \A t \in Slots : WF_vars(TaskStep(t) /\ UNCHANGED runtimeVars)

Spec == Init /\ [][Next]_vars /\ Fairness

-----------------------------------------------------------------------------
(* Properties.                                                              *)

\* The daemon's variables have their types.
RuntimeTypeOK ==
    /\ CoreTypeOK
    /\ daemon \in {"created", "starting", "running", "draining", "stopped", "error"}
    /\ servers \in [Servers -> {"idle", "listening", "stopped", "stuck"}]
    /\ pid \in BOOLEAN /\ errors \in BOOLEAN /\ run \in 0 .. MaxRuns
    /\ requests \in 0 .. MaxRequests
    /\ Len(work) <= Len(StartSteps)

\* A running daemon has every server listening, an open core that was not
\* stopped and a PID file, whatever happened to the network start.
RunningIsUp ==
    daemon = "running" => /\ \A s \in Servers : Listening(s)
                          /\ core \in {"local", "starting", "running"} /\ open /\ pid

\* A daemon that reports "stopped" has stopped its servers and its core: a core
\* start that a request left under way shows as "error" instead.
StoppedIsDown ==
    daemon = "stopped" => /\ \A s \in Servers : servers[s] = "stopped"
                          /\ core = "stopped" /\ ~beats

\* No failed start and no failed shutdown leaves a server accepting requests.
FailedIsClosed ==
    daemon = "error" /\ work = <<>> => \A s \in Servers : ~Listening(s)

\* A server never passes a request to a core whose identity store is closed.
ServersBeforeCore == (\E s \in Servers : Listening(s)) => open

\* The streams, the registry and the rows of the identities agree, through
\* failed hydrations, detaches, removals and stops.
IdentitiesConsistent == StreamsMatchRegistry /\ RemovedIsDown /\ StopLeavesOnlyCaught

\* What the daemon reports is what is up: running, stopped or failed.
DaemonConsistent ==
    /\ RuntimeTypeOK
    /\ RunningIsUp /\ StoppedIsDown /\ FailedIsClosed
    /\ ServersBeforeCore /\ BeatsWhileRunning

\* Neither a failed registration nor a start leaves an identity half done.
NothingHalfDone == [][FailedRegistrationCleans /\ RunningHasAll]_vars

\* start() and shutdown() end, neither waiting for a core that waits for them,
\* and so does every call of the core.
DaemonProgress ==
    /\ CallsEnd
    /\ daemon \in {"starting", "draining"} ~> daemon \notin {"starting", "draining"}
=============================================================================
