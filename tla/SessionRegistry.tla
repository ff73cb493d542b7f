-------------------------- MODULE SessionRegistry --------------------------
(***************************************************************************)
(* The server's session table: the SessionRegistry (client, address and    *)
(* connection-id routes behind one RwLock), the SessionManager (the        *)
(* accepting flag and the managed sessions behind one Mutex) and the life  *)
(* of the session tasks that share them.                                   *)
(*                                                                         *)
(* A session task runs on a multi-threaded executor, so every acquisition  *)
(* of a lock is a step of its own: a takeover or a server shutdown can     *)
(* fall between any two of them.  What a task does under one lock, or to   *)
(* its own fields only, is one step.                                       *)
(***************************************************************************)
EXTENDS Naturals, FiniteSets

CONSTANTS
    Client,        \* the ClientIds of the allowlist
    Ip,            \* the IPv4 addresses of the tunnel network
    AssignedIp,    \* the address that the configuration assigns to a client
    Prefix,        \* connection-id prefixes
    NoClient,      \* not a client: the owner of a session id not handed out
    NoPrefix,      \* not a prefix: a session without a UDP-QSP session
    MaxSessions    \* bound on the session ids handed out in a behaviour

\* ServerConfig::validate refuses two clients with one assigned address.
ASSUME ConfigAssumption ==
    /\ AssignedIp \in [Client -> Ip]
    /\ \A c, d \in Client : AssignedIp[c] = AssignedIp[d] => c = d

ASSUME ModelAssumption ==
    /\ MaxSessions \in Nat
    /\ NoClient \notin Client
    /\ NoPrefix \notin Prefix

NoSession == 0
Sid == 1..MaxSessions

VARIABLES
    next_session_id,     \* RegistryInner
    sessions,            \* client  -> session id of its handle
    ip_routes,           \* address -> session id of the route's handle
    cid_routes,          \* prefix  -> session id of the route
    accepting_sessions,  \* SessionManagerState
    managed,             \* client  -> session id of its ManagedSession
    armed,               \* sessions whose ManagedSession holds its shutdown sender
    shutdowns,           \* sessions whose sender start_shutdown holds, unlocked
    tasks_closed,        \* the TaskTracker was closed
    drained,             \* wait_for_shutdown returned
    pc,                  \* where the task of a session is
    owner,               \* the client a session belongs to
    signal,              \* what the shutdown receiver of a session has seen
    registering,         \* prefix of the RegisterCid a session is handling
    udp_session          \* prefix of the UDP-QSP session a session keeps

registryVars == <<next_session_id, sessions, ip_routes, cid_routes>>
managerVars == <<accepting_sessions, managed, armed, shutdowns, tasks_closed, drained>>
taskVars == <<pc, owner, signal, registering, udp_session>>
vars == <<registryVars, managerVars, taskVars>>

\* A task is Running inside run_inner, Inserting between the two registry
\* calls of RegisterCid, Closing from the end of the select in run() to
\* cleanup(), Cleaned from there to remove_session_if_current.
Stage == {"Unborn", "Running", "Inserting", "Closing", "Cleaned", "Done"}
Signal == {"Pending", "Takeover", "ServerRestart", "Unavailable"}

TypeOK ==
    /\ next_session_id \in 1..MaxSessions + 1
    /\ sessions \in [Client -> 0..MaxSessions]
    /\ ip_routes \in [Ip -> 0..MaxSessions]
    /\ cid_routes \in [Prefix -> 0..MaxSessions]
    /\ accepting_sessions \in BOOLEAN
    /\ managed \in [Client -> 0..MaxSessions]
    /\ armed \in SUBSET Sid
    /\ shutdowns \in SUBSET Sid
    /\ tasks_closed \in BOOLEAN
    /\ drained \in BOOLEAN
    /\ pc \in [Sid -> Stage]
    /\ owner \in [Sid -> Client \cup {NoClient}]
    /\ signal \in [Sid -> Signal]
    /\ registering \in [Sid -> Prefix \cup {NoPrefix}]
    /\ udp_session \in [Sid -> Prefix \cup {NoPrefix}]

Init ==
    /\ next_session_id = 1
    /\ sessions = [c \in Client |-> NoSession]
    /\ ip_routes = [i \in Ip |-> NoSession]
    /\ cid_routes = [p \in Prefix |-> NoSession]
    /\ accepting_sessions = TRUE
    /\ managed = [c \in Client |-> NoSession]
    /\ armed = {}
    /\ shutdowns = {}
    /\ tasks_closed = FALSE
    /\ drained = FALSE
    /\ pc = [s \in Sid |-> "Unborn"]
    /\ owner = [s \in Sid |-> NoClient]
    /\ signal = [s \in Sid |-> "Pending"]
    /\ registering = [s \in Sid |-> NoPrefix]
    /\ udp_session = [s \in Sid |-> NoPrefix]

----------------------------------------------------------------------------
(* The operations of the registry, each under one write lock.              *)

\* The cid routes that retain() keeps when session s loses its own.
CidRoutesWithout(s) ==
    [p \in Prefix |-> IF cid_routes[p] = s THEN NoSession ELSE cid_routes[p]]

\* The routes left by remove_cids_for_session_except.
CidRoutesKeeping(s, keep) ==
    [p \in Prefix |-> IF cid_routes[p] = s /\ p # keep THEN NoSession ELSE cid_routes[p]]

register_session(c, ip) ==
    LET old == sessions[c]
        oldIp == IF old = NoSession THEN ip ELSE AssignedIp[owner[old]]
    IN  /\ next_session_id' = next_session_id + 1
        /\ sessions' = [sessions EXCEPT ![c] = next_session_id]
        /\ cid_routes' = CidRoutesWithout(old)
        /\ ip_routes' = [i \in Ip |-> IF i = ip THEN next_session_id
                                      ELSE IF i = oldIp THEN NoSession
                                      ELSE ip_routes[i]]

\* Mutant: the address route goes whoever owns it.
remove_session_any_ip(s, c, ip) ==
    /\ sessions' = IF sessions[c] = s THEN [sessions EXCEPT ![c] = NoSession] ELSE sessions
    /\ ip_routes' = [ip_routes EXCEPT ![ip] = NoSession]
    /\ cid_routes' = CidRoutesWithout(s)
    /\ UNCHANGED next_session_id

remove_session(s, c, ip) ==
    /\ sessions' = IF sessions[c] = s THEN [sessions EXCEPT ![c] = NoSession] ELSE sessions
    /\ ip_routes' = IF ip_routes[ip] = s THEN [ip_routes EXCEPT ![ip] = NoSession] ELSE ip_routes
    /\ cid_routes' = CidRoutesWithout(s)
    /\ UNCHANGED next_session_id

\* Mutants: a replaced session may insert, or a prefix may have another owner.
CidInsertableByAny(c, s, p) == cid_routes[p] \in {NoSession, s}
CidInsertableOver(c, s, p) == sessions[c] = s

\* insert_cid accepts a prefix from the active session of the client only, and
\* never one that another session owns.
CidInsertable(c, s, p) ==
    /\ sessions[c] = s
    /\ cid_routes[p] \in {NoSession, s}

----------------------------------------------------------------------------
(* The shutdown channel of a session.                                      *)

\* Mutant: a notice that comes while RegisterCid is handled is lost.
ListeningBetweenHandlers(s) == pc[s] = "Running"

\* The receiver lives until the select in run() is over.
Listening(s) == pc[s] \in {"Running", "Inserting"}

\* What the receivers see once the senders in S are used to send reason, or
\* are dropped unused.
Notified(S, reason) ==
    [s \in Sid |-> IF s \in S /\ Listening(s) /\ signal[s] = "Pending" THEN reason ELSE signal[s]]

----------------------------------------------------------------------------
(* The operations of the manager.                                          *)

\* The replaced session, if any, is told why it ends.
TakeoverNotice(replaced) == Notified({replaced} \cap armed, "Takeover")

\* spawn_session_with_channel: one critical section of the manager's mutex
\* covers registration, replacement and the takeover notice.
SpawnSession(c) ==
    LET new == next_session_id
        replaced == managed[c]
    IN  /\ accepting_sessions
        /\ new \in Sid
        /\ register_session(c, AssignedIp[c])
        /\ managed' = [managed EXCEPT ![c] = new]
        /\ signal' = TakeoverNotice(replaced)
        /\ armed' = (armed \ {replaced}) \cup {new}
        /\ pc' = [pc EXCEPT ![new] = "Running"]
        /\ owner' = [owner EXCEPT ![new] = c]
        /\ UNCHANGED <<accepting_sessions, shutdowns, tasks_closed, drained,
                       registering, udp_session>>

\* start_shutdown takes the senders under the mutex; supervision calls it once.
StartShutdown ==
    /\ accepting_sessions
    /\ accepting_sessions' = FALSE
    /\ shutdowns' = {s \in armed : \E c \in Client : managed[c] = s}
    /\ armed' = armed \ shutdowns'
    /\ UNCHANGED <<registryVars, managed, tasks_closed, drained, taskVars>>

\* ... and uses them after releasing it.
SendServerRestart(s) ==
    /\ s \in shutdowns
    /\ shutdowns' = shutdowns \ {s}
    /\ signal' = Notified({s}, "ServerRestart")
    /\ UNCHANGED <<registryVars, accepting_sessions, managed, armed, tasks_closed, drained,
                   pc, owner, registering, udp_session>>

CloseTasks ==
    /\ ~accepting_sessions
    /\ shutdowns = {}
    /\ ~tasks_closed
    /\ tasks_closed' = TRUE
    /\ UNCHANGED <<registryVars, accepting_sessions, managed, armed, shutdowns, drained, taskVars>>

\* Mutant: a task counts as ended once its routes are gone.
WaitForCleanup ==
    /\ tasks_closed
    /\ \A s \in Sid : pc[s] \in {"Unborn", "Cleaned", "Done"}
    /\ ~drained
    /\ drained' = TRUE
    /\ UNCHANGED <<registryVars, accepting_sessions, managed, armed, shutdowns, tasks_closed,
                   taskVars>>

\* wait_for_shutdown: the tracker is closed and every tracked task has ended.
WaitForShutdown ==
    /\ tasks_closed
    /\ \A s \in Sid : pc[s] \in {"Unborn", "Done"}
    /\ ~drained
    /\ drained' = TRUE
    /\ UNCHANGED <<registryVars, accepting_sessions, managed, armed, shutdowns, tasks_closed,
                   taskVars>>

----------------------------------------------------------------------------
(* The steps of a session task.                                            *)

\* handle_register_cid up to and including insert_cid.  A refused insert
\* answers RegisterFail and changes nothing here.
InsertCid(s, p) ==
    /\ pc[s] = "Running"
    /\ CidInsertable(owner[s], s, p)
    /\ cid_routes' = [cid_routes EXCEPT ![p] = s]
    /\ registering' = [registering EXCEPT ![s] = p]
    /\ pc' = [pc EXCEPT ![s] = "Inserting"]
    /\ UNCHANGED <<next_session_id, sessions, ip_routes, managerVars, owner, signal, udp_session>>

\* remove_cids_for_session_except and the new UDP-QSP session.
ReplaceUdpSession(s) ==
    /\ pc[s] = "Inserting"
    /\ cid_routes' = CidRoutesKeeping(s, registering[s])
    /\ udp_session' = [udp_session EXCEPT ![s] = registering[s]]
    /\ registering' = [registering EXCEPT ![s] = NoPrefix]
    /\ pc' = [pc EXCEPT ![s] = "Running"]
    /\ UNCHANGED <<next_session_id, sessions, ip_routes, managerVars, owner, signal>>

\* The same, when the I/O of the new UDP-QSP session cannot be created.
UdpIoCreateFails(s) ==
    /\ pc[s] = "Inserting"
    /\ cid_routes' = CidRoutesKeeping(s, registering[s])
    /\ registering' = [registering EXCEPT ![s] = NoPrefix]
    /\ pc' = [pc EXCEPT ![s] = "Closing"]
    /\ UNCHANGED <<next_session_id, sessions, ip_routes, managerVars, owner, signal, udp_session>>

\* retire_udp_transport, after a UDP failure or a liveness timeout.
RetireUdpTransport(s) ==
    /\ pc[s] = "Running"
    /\ udp_session[s] # NoPrefix
    /\ cid_routes' = CidRoutesWithout(s)
    /\ udp_session' = [udp_session EXCEPT ![s] = NoPrefix]
    /\ UNCHANGED <<next_session_id, sessions, ip_routes, managerVars, pc, owner, signal, registering>>

\* run(): the select ends with the shutdown branch.
ObserveShutdown(s) ==
    /\ pc[s] = "Running"
    /\ signal[s] # "Pending"
    /\ pc' = [pc EXCEPT ![s] = "Closing"]
    /\ UNCHANGED <<registryVars, managerVars, owner, signal, registering, udp_session>>

\* run(): run_inner returned (peer closed, idle, error).  A notice that came
\* while the last handler was running is never looked at.
CompleteSession(s) ==
    /\ pc[s] = "Running"
    /\ pc' = [pc EXCEPT ![s] = "Closing"]
    /\ UNCHANGED <<registryVars, managerVars, owner, signal, registering, udp_session>>

\* cleanup(), after the best-effort CLOSE and flush; run() then drops the
\* session with its UDP-QSP session.
Cleanup(s) ==
    /\ pc[s] = "Closing"
    /\ remove_session(s, owner[s], AssignedIp[owner[s]])
    /\ udp_session' = [udp_session EXCEPT ![s] = NoPrefix]
    /\ pc' = [pc EXCEPT ![s] = "Cleaned"]
    /\ UNCHANGED <<managerVars, owner, signal, registering>>

\* The sessions of client c that remove_session_if_current takes out for s.
RemovedIfCurrent(c, s) == IF managed[c] = s THEN {s} ELSE {}

\* The end of the spawned task: remove_session_if_current under the mutex.
FinishTask(s) ==
    LET c == owner[s]
        removed == RemovedIfCurrent(c, s)
    IN  /\ pc[s] = "Cleaned"
        /\ managed' = IF removed = {} THEN managed ELSE [managed EXCEPT ![c] = NoSession]
        /\ signal' = Notified(removed \cap armed, "Unavailable")
        /\ armed' = armed \ removed
        /\ pc' = [pc EXCEPT ![s] = "Done"]
        /\ UNCHANGED <<registryVars, accepting_sessions, shutdowns, tasks_closed, drained,
                       owner, registering, udp_session>>

----------------------------------------------------------------------------
SessionStep(s) ==
    \/ \E p \in Prefix : InsertCid(s, p)
    \/ ReplaceUdpSession(s)
    \/ UdpIoCreateFails(s)
    \/ RetireUdpTransport(s)
    \/ ObserveShutdown(s)
    \/ CompleteSession(s)
    \/ Cleanup(s)
    \/ FinishTask(s)

Next ==
    \/ \E c \in Client : SpawnSession(c)
    \/ StartShutdown
    \/ \E s \in Sid : SendServerRestart(s)
    \/ CloseTasks
    \/ WaitForShutdown
    \/ \E s \in Sid : SessionStep(s)

Spec == Init /\ [][Next]_vars

\* Fairness: the executor keeps polling a task that is not blocked on a peer.
\* Every wait between the end of the select and the end of the task is bounded
\* by BEST_EFFORT_IO_TIMEOUT.  A peer can keep a task busy with RegisterCid, but
\* each read of the socket goes through the select in run(), which polls the
\* shutdown branch first: hence the strong fairness of ObserveShutdown.
\* Nothing is assumed about peers (CompleteSession, InsertCid).
TaskFairness ==
    \A s \in Sid :
        /\ WF_vars(ReplaceUdpSession(s) \/ UdpIoCreateFails(s))
        /\ SF_vars(ObserveShutdown(s))
        /\ WF_vars(Cleanup(s))
        /\ WF_vars(FinishTask(s))

----------------------------------------------------------------------------
(* Properties.                                                             *)

Live(s) == pc[s] \in {"Running", "Inserting", "Closing"}
Current(s) == owner[s] \in Client /\ sessions[owner[s]] = s

\* Every route (client, address or connection id) leads to the current session
\* of the client it belongs to, and that session still has its cleanup ahead:
\* no interleaving of takeover, RegisterCid and cleanup leaves a route to a
\* session that was replaced or has ended (register_session, remove_session,
\* insert_cid).
RoutesAreOwned ==
    /\ \A c \in Client : sessions[c] # NoSession =>
           /\ owner[sessions[c]] = c
           /\ Live(sessions[c])
    /\ \A i \in Ip : ip_routes[i] # NoSession =>
           /\ Current(ip_routes[i])
           /\ AssignedIp[owner[ip_routes[i]]] = i
    /\ \A p \in Prefix : cid_routes[p] # NoSession => Current(cid_routes[p])

\* The current session of a client can be reached: by its address always, and
\* by the connection id of its UDP-QSP session while it runs.  The cleanup of a
\* replaced session, which may come much later and may concern the same address
\* or the same prefix, takes nothing from its successor.
CurrentSessionIsReachable ==
    \A c \in Client : sessions[c] # NoSession =>
        LET s == sessions[c]
        IN  /\ ip_routes[AssignedIp[c]] = s
            /\ pc[s] = "Running" /\ udp_session[s] # NoPrefix => cid_routes[udp_session[s]] = s

\* A session answers to one connection id outside RegisterCid: the prefix of a
\* replaced registration is gone when the handler ends
\* (remove_cids_for_session_except).
OneCidPerSession ==
    \A p \in Prefix : cid_routes[p] # NoSession =>
        LET s == cid_routes[p]
        IN  pc[s] = "Running" => udp_session[s] = p

\* The comment in spawn_session_with_channel: the registry and the manager agree
\* on the active session of a client.  They differ only while a session that
\* ended by itself is between its cleanup and remove_session_if_current.
ViewsAgree ==
    \A c \in Client :
        \/ managed[c] = sessions[c]
        \/ /\ sessions[c] = NoSession
           /\ pc[managed[c]] = "Cleaned"

\* Takeover: a session that is still serving traffic and is not the client's
\* current one has been told to stop.
ReplacedIsNotified ==
    \A s \in Sid : pc[s] \in {"Running", "Inserting"} =>
        Current(s) \/ signal[s] # "Pending"

\* Once start_shutdown has returned, every session still serving was notified,
\* and no session starts later.
ShutdownIsNotified ==
    tasks_closed => \A s \in Sid : pc[s] \in {"Running", "Inserting"} => signal[s] # "Pending"

\* No session ends with "session shutdown signal unavailable without a reason":
\* the sender of a listening session is never dropped unused (run()).
ShutdownSignalAvailable ==
    \A s \in Sid : signal[s] # "Unavailable"

\* wait_for_shutdown returns only when the tables are empty, as the test
\* shutdown_sends_server_restart_close_and_awaits_active_sessions expects.
DrainedIsEmpty ==
    drained =>
        /\ \A c \in Client : sessions[c] = NoSession /\ managed[c] = NoSession
        /\ \A i \in Ip : ip_routes[i] = NoSession
        /\ \A p \in Prefix : cid_routes[p] = NoSession

\* A step that leaves a session current, and its task where it was, leaves its
\* connection ids to it.
CidsAreKept ==
    \A s \in Sid : Current(s) /\ Current(s)' /\ UNCHANGED <<pc[s], udp_session[s]>> =>
        \A p \in Prefix : cid_routes[p] = s => cid_routes'[p] = s

\* A current session loses a connection id only by a step of its own or by a
\* takeover: no other session's registration, retirement or cleanup takes it
\* (the PrefixCollision check of insert_cid, the session id checks of retain).
RoutesAreNotStolen == [][CidsAreKept]_vars

\* A replaced session ends, with no help from its peer.
TakeoverCompletes ==
    \A s \in Sid :
        (pc[s] \in {"Running", "Inserting"} /\ ~Current(s)) ~> pc[s] = "Done"
============================================================================
