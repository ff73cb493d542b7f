--------------------------- MODULE ServerShutdown ---------------------------
(***************************************************************************)
(* The supervision of a server (server_runtime/supervision.rs) and its     *)
(* authentication tasks (auth/handler.rs) on top of SessionRegistry: what  *)
(* starts a graceful shutdown, the order in which it closes the parts of   *)
(* the server, the tasks it waits for, its time limit and its result.      *)
(*                                                                         *)
(* Claimed connections come from classification tasks, which nobody waits  *)
(* for: a claim may arrive at any moment of the shutdown and after it.     *)
(* Everything runs on a multi-threaded executor, so that each access to an *)
(* atomic, to a tracker or to a lock is a step of its own.                 *)
(***************************************************************************)
EXTENDS SessionRegistry, Integers, Sequences

CONSTANTS
    Conn,             \* connections that the TCP front door claims
    WorkerOrder,      \* the workers, in the order in which they are joined
    MaxAuthInflight   \* max_auth_inflight

\* Every claimed connection can become a session within the bound on them.
ASSUME ServerAssumption ==
    /\ MaxAuthInflight \in Nat \ {0}
    /\ Len(WorkerOrder) \in Nat /\ DOMAIN WorkerOrder = 1..Len(WorkerOrder)
    /\ \A i \in DOMAIN WorkerOrder : WorkerOrder[i] # "none"
    /\ IsFiniteSet(Conn) /\ Cardinality(Conn) <= MaxSessions

VARIABLES
    cancel,          \* the CancellationToken is cancelled
    ctrl_c,          \* it was cancelled by the signal
    worker,          \* how the task of a worker stands
    sup,             \* where supervision::run is
    trigger,         \* the worker that ended first, NoWorker if cancelled
    joined,          \* how many workers have been joined
    result,          \* shutdown_result
    accepting_auth,  \* AuthTaskTracker.accepting
    auth_closed,     \* AuthTaskTracker.tasks is closed
    conn,            \* where a claimed connection is
    permits          \* auth_inflight: permits left

supervisionVars == <<cancel, ctrl_c, worker, sup, trigger, joined, result>>
authVars == <<accepting_auth, auth_closed, conn, permits>>
serverVars == <<vars, supervisionVars, authVars>>

Worker == { WorkerOrder[i] : i \in DOMAIN WorkerOrder }
NoWorker == "none"

\* Supervising is the select; Cancelling to AuthClosing run without an await;
\* Joining, AuthWaiting and SessionWaiting are awaits under the time limit.
SupStage ==
    {"Supervising", "Cancelling", "Stopping", "Notifying", "GateClosing", "AuthClosing",
     "Joining", "AuthWaiting", "SessionWaiting", "Returned", "TimedOut"}

\* A connection is Reserved with the token of AuthTaskTracker::spawn, Admitted
\* once it saw the open gate, Authenticated once AUTH_OK is sent.
ConnStage ==
    {"Classifying", "Claimed", "Reserved", "Admitted", "Spawned", "Authenticating",
     "Authenticated", "Ended"}

Result == {"Ok", "Err", "TimedOut"}

\* The server's own state is well formed; auth_inflight stays within its size.
ServerTypeOK ==
    /\ TypeOK
    /\ cancel \in BOOLEAN /\ ctrl_c \in BOOLEAN
    /\ worker \in [Worker -> {"running", "ok", "failed"}]
    /\ sup \in SupStage
    /\ trigger \in Worker \cup {NoWorker}
    /\ joined \in 0..Len(WorkerOrder)
    /\ result \in Result
    /\ accepting_auth \in BOOLEAN /\ auth_closed \in BOOLEAN
    /\ conn \in [Conn -> ConnStage]
    /\ permits \in 0..MaxAuthInflight

ServerInit ==
    /\ Init
    /\ cancel = FALSE
    /\ ctrl_c = FALSE
    /\ worker = [w \in Worker |-> "running"]
    /\ sup = "Supervising"
    /\ trigger = NoWorker
    /\ joined = 0
    /\ result = "Ok"
    /\ accepting_auth = TRUE
    /\ auth_closed = FALSE
    /\ conn = [c \in Conn |-> "Classifying"]
    /\ permits = MaxAuthInflight

-----------------------------------------------------------------------------
(* The signal and the workers.                                             *)

CtrlC ==
    /\ ~ctrl_c
    /\ ctrl_c' = TRUE
    /\ cancel' = TRUE
    /\ UNCHANGED <<vars, worker, sup, trigger, joined, result, authVars>>

\* Each worker's loop selects on the token and returns Ok once it is cancelled.
WorkerStops(w) ==
    /\ worker[w] = "running"
    /\ cancel
    /\ worker' = [worker EXCEPT ![w] = "ok"]
    /\ UNCHANGED <<vars, cancel, ctrl_c, sup, trigger, joined, result, authVars>>

\* An I/O error or a panic, before or during the shutdown.
WorkerFails(w) ==
    /\ worker[w] = "running"
    /\ worker' = [worker EXCEPT ![w] = "failed"]
    /\ UNCHANGED <<vars, cancel, ctrl_c, sup, trigger, joined, result, authVars>>

-----------------------------------------------------------------------------
(* supervision::run.                                                       *)

At(from, to) == sup = from /\ sup' = to

\* The select ends with a worker's branch, for a worker that failed or that
\* stopped because of the signal.
TriggerWorkerFailed(w) ==
    /\ At("Supervising", "Cancelling")
    /\ worker[w] # "running"
    /\ trigger' = w
    /\ UNCHANGED <<vars, cancel, ctrl_c, worker, joined, result, authVars>>

\* The select ends with the token's branch.
TriggerCancelled ==
    /\ At("Supervising", "Stopping")
    /\ cancel
    /\ UNCHANGED <<vars, cancel, ctrl_c, worker, trigger, joined, result, authVars>>

Cancel ==
    /\ At("Cancelling", "Stopping")
    /\ cancel' = TRUE
    /\ UNCHANGED <<vars, ctrl_c, worker, trigger, joined, result, authVars>>

\* The three parts of SessionManager::start_shutdown.
StopSessions ==
    /\ At("Stopping", "Notifying")
    /\ StartShutdown
    /\ UNCHANGED <<cancel, ctrl_c, worker, trigger, joined, result, authVars>>

NotifySession(s) ==
    /\ sup = "Notifying"
    /\ SendServerRestart(s)
    /\ UNCHANGED <<supervisionVars, authVars>>

CloseSessions ==
    /\ At("Notifying", "GateClosing")
    /\ CloseTasks
    /\ UNCHANGED <<cancel, ctrl_c, worker, trigger, joined, result, authVars>>

\* AuthTaskTracker::close, and the result of the worker that ended first.
CloseGate ==
    /\ At("GateClosing", "AuthClosing")
    /\ accepting_auth' = FALSE
    /\ UNCHANGED <<vars, cancel, ctrl_c, worker, trigger, joined, result,
                   auth_closed, conn, permits>>

classify_task_result(w) == IF worker[w] = "failed" THEN "Err" ELSE "Ok"

CloseAuthTasks ==
    /\ At("AuthClosing", "Joining")
    /\ auth_closed' = TRUE
    /\ result' = IF trigger = NoWorker THEN "Ok" ELSE classify_task_result(trigger)
    /\ UNCHANGED <<vars, cancel, ctrl_c, worker, trigger, joined,
                   accepting_auth, conn, permits>>

\* Mutant: the last worker decides.
merge_task_result_last(w) == classify_task_result(w)

\* The first error is kept.
merge_task_result(w) == IF result = "Ok" THEN classify_task_result(w) ELSE result

\* The next worker is awaited, unless the select has consumed its result; after
\* the signal the results are ignored.
JoinWorker ==
    /\ sup = "Joining"
    /\ joined < Len(WorkerOrder)
    /\ LET w == WorkerOrder[joined + 1]
       IN  /\ worker[w] # "running"
           /\ result' = IF trigger \in {NoWorker, w} THEN result ELSE merge_task_result(w)
    /\ joined' = joined + 1
    /\ UNCHANGED <<vars, cancel, ctrl_c, worker, sup, trigger, authVars>>

WorkersJoined ==
    /\ At("Joining", "AuthWaiting")
    /\ joined = Len(WorkerOrder)
    /\ UNCHANGED <<vars, cancel, ctrl_c, worker, trigger, joined, result, authVars>>

\* Mutant: the tracker knows a task only once it is spawned, as it would if the
\* gate were checked before the token is taken.
HoldsTokenWhenSpawned(c) == conn[c] \in {"Spawned", "Authenticating", "Authenticated"}

\* The tracker counts a connection from its token to the end of its task.
HoldsToken(c) ==
    conn[c] \in {"Reserved", "Admitted", "Spawned", "Authenticating", "Authenticated"}

AuthTasksEnded ==
    /\ At("AuthWaiting", "SessionWaiting")
    /\ auth_closed
    /\ \A c \in Conn : ~HoldsToken(c)
    /\ UNCHANGED <<vars, cancel, ctrl_c, worker, trigger, joined, result, authVars>>

SessionsEnded ==
    /\ At("SessionWaiting", "Returned")
    /\ WaitForShutdown
    /\ UNCHANGED <<cancel, ctrl_c, worker, trigger, joined, result, authVars>>

\* await_graceful_shutdown: the time limit is noticed at an await.
TimeOut ==
    /\ sup \in {"Joining", "AuthWaiting", "SessionWaiting"}
    /\ sup' = "TimedOut"
    /\ result' = "TimedOut"
    /\ UNCHANGED <<vars, cancel, ctrl_c, worker, trigger, joined, authVars>>

SupervisionStep ==
    \/ \E w \in Worker : TriggerWorkerFailed(w)
    \/ TriggerCancelled
    \/ Cancel
    \/ StopSessions
    \/ \E s \in Sid : NotifySession(s)
    \/ CloseSessions
    \/ CloseGate
    \/ CloseAuthTasks
    \/ JoinWorker
    \/ WorkersJoined
    \/ AuthTasksEnded
    \/ SessionsEnded

-----------------------------------------------------------------------------
(* A claimed connection and its authentication task.                       *)

ConnStep(c, from, to) ==
    /\ conn[c] = from
    /\ conn' = [conn EXCEPT ![c] = to]
    /\ UNCHANGED <<supervisionVars, accepting_auth, auth_closed>>

\* The claim handler of spawn_tcp_task looks at the token first.
Claim(c) ==
    /\ ConnStep(c, "Classifying", IF cancel THEN "Ended" ELSE "Claimed")
    /\ UNCHANGED <<vars, permits>>

\* AuthTaskTracker::spawn: the token, the gate, the task.
Reserve(c) ==
    /\ ConnStep(c, "Claimed", "Reserved")
    /\ UNCHANGED <<vars, permits>>

CheckGate(c) ==
    /\ ConnStep(c, "Reserved", IF accepting_auth THEN "Admitted" ELSE "Ended")
    /\ UNCHANGED <<vars, permits>>

SpawnAuth(c) ==
    /\ ConnStep(c, "Admitted", "Spawned")
    /\ UNCHANGED <<vars, permits>>

\* handle(): a permit, or the end.
acquire_auth_permit(c) ==
    /\ \/ /\ permits > 0
          /\ ConnStep(c, "Spawned", "Authenticating")
          /\ permits' = permits - 1
       \/ /\ permits = 0
          /\ ConnStep(c, "Spawned", "Ended")
          /\ UNCHANGED permits
    /\ UNCHANGED vars

\* The TLS handshake or the authentication fails, is refused by AUTH_FAIL, is
\* given up by the peer or runs into the deadline.
AuthEnds(c) ==
    /\ ConnStep(c, "Authenticating", "Ended")
    /\ permits' = permits + 1
    /\ UNCHANGED vars

\* Mutant: only a task that waits for its permit is cancelled.
CancelAuthEarly(c) ==
    /\ cancel
    /\ ConnStep(c, "Spawned", "Ended")
    /\ UNCHANGED <<vars, permits>>

\* The select in the task ends with the token's branch, at an await of handle():
\* between AUTH_OK and create_session there is none.
CancelAuth(c) ==
    /\ cancel
    /\ \/ ConnStep(c, "Spawned", "Ended") /\ UNCHANGED permits
       \/ ConnStep(c, "Authenticating", "Ended") /\ permits' = permits + 1
    /\ UNCHANGED vars

\* handle_auth: the credentials are right and AUTH_OK is sent.
SendAuthOk(c) ==
    /\ ConnStep(c, "Authenticating", "Authenticated")
    /\ UNCHANGED <<vars, permits>>

\* create_session, for the client that AUTH named; refused during the shutdown.
create_session(c, client) ==
    /\ ConnStep(c, "Authenticated", "Ended")
    /\ permits' = permits + 1
    /\ \/ SpawnSession(client)
       \/ ~accepting_sessions /\ UNCHANGED vars

AuthStep(c) ==
    \/ Claim(c)
    \/ Reserve(c)
    \/ CheckGate(c)
    \/ SpawnAuth(c)
    \/ acquire_auth_permit(c)
    \/ AuthEnds(c)
    \/ CancelAuth(c)
    \/ SendAuthOk(c)
    \/ \E client \in Client : create_session(c, client)

-----------------------------------------------------------------------------
ServerNext ==
    \/ CtrlC
    \/ \E w \in Worker : WorkerStops(w) \/ WorkerFails(w)
    \/ SupervisionStep
    \/ TimeOut
    \/ \E c \in Conn : AuthStep(c)
    \/ \E s \in Sid : SessionStep(s) /\ UNCHANGED <<supervisionVars, authVars>>

ServerSpec == ServerInit /\ [][ServerNext]_serverVars

\* Fairness: run() goes on when what it waits for has happened, workers and
\* authentication tasks notice the token, and what runs without an await ends.
\* Nothing is assumed about peers (AuthEnds, SendAuthOk, CompleteSession) or
\* about the deadlines of authentication and of the shutdown.
ServerFairness ==
    /\ WF_serverVars(SupervisionStep)
    /\ \A w \in Worker : WF_serverVars(WorkerStops(w))
    /\ \A c \in Conn :
           /\ WF_serverVars(Reserve(c) \/ CheckGate(c) \/ SpawnAuth(c))
           /\ WF_serverVars(CancelAuth(c))
           /\ WF_serverVars(\E client \in Client : create_session(c, client))
    /\ TaskFairness

FairServerSpec == ServerSpec /\ ServerFairness

-----------------------------------------------------------------------------
(* Properties.                                                             *)

\* When supervision::run returns by itself, nothing it started is left: the
\* workers have ended, no authentication task is running or will be spawned, every
\* permit is back, every session task has ended and the tables are empty.  A claim
\* that was past the token check when the gate closed does not escape
\* (AuthTaskTracker::spawn), nor does an authentication that had sent AUTH_OK.
CleanReturn ==
    sup = "Returned" =>
        /\ \A w \in Worker : worker[w] # "running"
        /\ \A c \in Conn : conn[c] \in {"Classifying", "Claimed", "Reserved", "Ended"}
        /\ permits = MaxAuthInflight
        /\ \A s \in Sid : pc[s] \in {"Unborn", "Done"}
        /\ drained /\ DrainedIsEmpty

\* Without the signal, run() returns Ok only if no worker failed: the error of the
\* first worker, or of one that failed while the others were being joined, is
\* reported (classify_task_result, merge_task_result).
ErrorIsReported ==
    sup = "Returned" /\ ~ctrl_c =>
        (result = "Err" <=> \E w \in Worker : worker[w] = "failed")

\* Supervision and the authentication tasks use the session manager as
\* SessionRegistry says it is used: start_shutdown is called once, no session is
\* created after it, and wait_for_shutdown comes last.
RegistrySpec == Spec

\* A signal or the end of a worker leads to the end of run(), without the help of
\* the time limit (which may only come earlier) or of any peer: nobody waits for a
\* task that was not told to stop.
ShutdownReturns ==
    (cancel \/ \E w \in Worker : worker[w] # "running") ~> sup \in {"Returned", "TimedOut"}

\* Every task that was told to stop ends: the server after a signal or a failure, and
\* a session after a takeover (spawn_session_with_channel, supervision::run).
StopsAreObeyed == ShutdownReturns /\ TakeoverCompletes
=============================================================================
