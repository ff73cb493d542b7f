---------------------------- MODULE ClientRuntime ----------------------------
(***************************************************************************)
(* The client runtime (slt-client/src/runtime/mod.rs): the loop that       *)
(* connects, authenticates, runs a session and reconnects; the supervision *)
(* of the two TUN tasks (tun/mod.rs) that races with it; the commands of   *)
(* the host, an Android service or the command line; and the event stream  *)
(* that the host sees (runtime/observer.rs).                               *)
(*                                                                         *)
(* The runtime is one future: supervisor and session loop are polled in    *)
(* turn, the TUN tasks, the metrics task and the host run beside it.  What *)
(* a session does inside is TransportSwitch; here it is one stage that     *)
(* ends with an exit reason.                                               *)
(***************************************************************************)
EXTENDS Naturals, Sequences, SequencesExt

CONSTANTS
    Platforms,      \* which hosts to look at: "android", "desktop"
    ReconnectMin,   \* timing.reconnect_min, in milliseconds
    ReconnectMax,   \* timing.reconnect_max
    MaxAttempts,    \* bound on the connection attempts of a behaviour
    MaxCommands     \* bound on the commands waiting in the channel

\* ClientTimingConfig::validate
ASSUME RuntimeAssumption ==
    /\ Platforms \subseteq {"android", "desktop"}
    /\ ReconnectMin \in Nat \ {0} /\ ReconnectMax \in Nat
    /\ ReconnectMin <= ReconnectMax
    /\ MaxAttempts \in Nat /\ MaxCommands \in Nat

VARIABLES
    platform,      \* who embeds the runtime
    host,          \* how far the host is with stopping
    commands,      \* the command channel
    control_rx,    \* the runtime still listens to it
    cancel,        \* the cancellation token
    tun_fault,     \* the token by which the supervisor ends the session loop
    tasks,         \* TUN task -> running, or how it ended
    handles,       \* JoinHandles that TunHandles still holds
    channels,      \* TunChannels has not been dropped
    metrics_task,  \* the metrics reporter runs
    stage,         \* the supervisor
    loop,          \* the session loop: its place, attempt, backoff, outcome
    result,        \* what run_sessions returned, corrected by the supervisor
    transport,     \* the transport that the observer tracks
    events         \* events since the last Connecting, that one included

hostVars == <<platform, host, commands>>
tunVars == <<tasks, handles, channels, metrics_task>>
vars == <<hostVars, control_rx, cancel, tun_fault, tunVars, stage, loop,
          result, transport, events>>

----------------------------------------------------------------------------
(* Errors and what they mean for the next attempt.                         *)

TunTask == {"Reader", "Writer"}

NoError == [variant |-> "None", kind |-> "-"]
Err(v, k) == [variant |-> v, kind |-> k]
Plain(vs) == {Err(v, "-") : v \in vs}

\* SocketProtectionResult::into_io_result
into_io_result ==
    [ProtectRejected |-> "PermissionDenied", NoUnderlyingNetwork |-> "NotConnected",
     BindFailed |-> "NetworkUnreachable", PlatformFailure |-> "Other"]

\* What connect_addr may report for one address.  Only Android protects sockets.
AddressErrors ==
    Plain({"TcpSocketCreate"})
    \cup {Err("TcpConnect", k) : k \in {"PermissionDenied", "Other"}}
    \cup {Err("SocketProtect", into_io_result[r]) :
            r \in {x \in DOMAIN into_io_result : platform = "android"}}

\* The resolver failed, or found no address (ensure_non_empty).
ResolveError == Err("DnsResolution", "-")

\* The rest of connect: the handshake failed at its set-up, at the server's
\* certificate, at a lost connection or at anything else.
TlsErrors ==
    Plain({"TlsHandshakeTimeout"})
    \cup {Err("TlsHandshake", k) : k \in {"Setup", "Verify", "Transient", "Ssl"}}

\* TlsError::is_transient_io
is_transient_io(kind) == kind = "Transient"

\* ConnectError::is_retriable
is_retriable(err) ==
    \/ err.variant \in {"TcpConnectTimeout", "AuthTimeout", "AuthDisconnected",
                        "TlsHandshakeTimeout", "DnsResolution"}
    \/ err.variant = "SocketProtect" /\ err.kind \in {"NotConnected", "NetworkUnreachable"}
    \/ err.variant \in {"TcpConnect", "Io"} /\ err.kind # "PermissionDenied"
    \/ err.variant = "TlsHandshake" /\ is_transient_io(err.kind)

\* connect_stream tries the addresses in turn and keeps the last error.  An
\* address that accepted is NoError; no address at all counts as DNS failure.
connect_stream(addrs) ==
    IF NoError \in ToSet(addrs) THEN NoError
    ELSE IF addrs = <<>> THEN ResolveError ELSE Last(addrs)

\* What ends run_auth_flow without AUTH_OK.
AuthError ==
    [AuthFail |-> Err("AuthRejected", "-"),
     CloseProtocolError |-> Err("AuthProtocolError", "-"),
     Close |-> Err("AuthDisconnected", "-"),
     Eof |-> Err("AuthDisconnected", "-"),
     Inadmissible |-> Err("AuthUnexpectedMessage", "-"),
     BadPayload |-> Err("Payload", "-"),
     BadFrame |-> Err("Frame", "-"),
     BadMessage |-> Err("Message", "-"),
     ReadError |-> Err("Io", "Other"),
     ReadDenied |-> Err("Io", "PermissionDenied"),
     Timeout |-> Err("AuthTimeout", "-"),
     WriteTimeout |-> Err("AuthTimeout", "-"),
     NoExport |-> Err("AuthTlsExport", "-")]

SessionErrors ==
    Plain({"ProtocolViolation", "Frame", "Message", "Payload", "Crypto",
           "UdpQspKeys", "PermissionDenied", "UdpUpgradeRequired", "UdpQsp"})
    \cup {Err(v, k) : v \in {"Connection", "Io"}, k \in {"PermissionDenied", "Other"}}

\* SessionError::exit
exit_of(err) ==
    CASE err.variant = "UdpUpgradeRequired" -> "UdpUpgradeRequired"
      [] err.variant = "PermissionDenied" \/ err.kind = "PermissionDenied" -> "PermissionDenied"
      [] err.variant \in {"Connection", "Io", "UdpQsp"} -> "ConnectionError"
      [] OTHER -> "ProtocolError"

\* A session that lost the channel of a TUN task.
TunClosed == [Reader |-> "TunClosed Reader", Writer |-> "TunClosed Writer"]

\* The exits that the event loop reports without an error.
BareExits == {"TcpClosed", "IdleTimeout", "RemoteClose", "ConnectionError", "UdpUpgradeRequired"}

Outcome(exit, err) == [exit |-> exit, error |-> err]
NoOutcome == Outcome("-", NoError)
Outcomes ==
    {Outcome(e, NoError) : e \in BareExits} \cup {Outcome(exit_of(e), e) : e \in SessionErrors}

\* Results of run_sessions: Ok, or a RuntimeError.
Ok == [of |-> "Ok", error |-> NoError, task |-> "-"]
Failed(of, err) == [of |-> of, error |-> err, task |-> "-"]
TunFailed(variant, task) == [of |-> "Tun", error |-> Err(variant, "-"), task |-> task]
Pending == [of |-> "-", error |-> NoError, task |-> "-"]

\* RuntimeError::is_restart_retriable
is_restart_retriable(r) ==
    \/ r.of = "Connect" /\ is_retriable(r.error)
    \/ r.of = "Session" /\ exit_of(r.error) = "ConnectionError"

\* How a finished TUN task is reported.
classify_task_exit(task) ==
    TunFailed(CASE tasks[task] = "exited ok" -> "UnexpectedExit"
                [] tasks[task] = "exited io" -> "Io"
                [] OTHER -> "Panic", task)

----------------------------------------------------------------------------
(* Small pieces of the actions.                                            *)

Event(kind, n) == [kind |-> kind, transport |-> transport, n |-> n]

emit(kinds) == events' = events \o [i \in DOMAIN kinds |-> Event(kinds[i], 0)]

\* The log starts over with each attempt; the next event is Connecting.
emit_connecting ==
    /\ transport' = "Tcp"
    /\ events' = <<[kind |-> "Connecting", transport |-> transport', n |-> 0]>>

Finished(task) == tasks[task] \in {"exited ok", "exited io", "exited panic"}

\* The select of the supervisor is biased: it sees a finished task before it
\* polls the session loop again.
Polled ==
    \/ stage \in {"awaiting", "fault"}
    \/ stage = "racing" /\ \A t \in handles : ~Finished(t)

LoopAt(place) == Polled /\ loop.at = place
Go(place) == loop' = [loop EXCEPT !.at = place, !.outcome = NoOutcome]

\* The local variables of run_sessions, before and after they live.
Locals(place) == [at |-> place, attempt |-> 0, backoff |-> ReconnectMin, outcome |-> NoOutcome]

\* run_sessions returns r.  After a TUN failure it was only awaited and what it
\* returns is dropped; otherwise a closed channel still has to be explained by
\* the task that owned it.
Return(r) ==
    /\ loop' = Locals("ended")
    /\ IF stage = "fault" THEN UNCHANGED result ELSE result' = r
    /\ stage' = IF stage # "fault" /\ r.error.variant = "ChannelClosed" THEN "resolving" ELSE "closing"

\* ReconnectBackoff::next_delay
Delays(cap) == LET half == cap \div 2 IN (cap - half)..cap

schedule_reconnect(failed) ==
    \E delay \in Delays(loop.backoff) :
        /\ loop' = [loop EXCEPT !.at = "backoff", !.outcome = NoOutcome,
                     !.backoff = IF 2 * loop.backoff < ReconnectMax THEN 2 * loop.backoff ELSE ReconnectMax]
        /\ events' = events \o failed \o <<Event("ReconnectScheduled", delay)>>

----------------------------------------------------------------------------
Init ==
    /\ platform \in Platforms
    /\ host = "running"
    /\ commands = <<>>
    /\ control_rx = (platform = "android")
    /\ cancel = FALSE
    /\ tun_fault = FALSE
    /\ tasks = [t \in TunTask |-> "unborn"]
    /\ handles = {}
    /\ channels = FALSE
    /\ metrics_task = FALSE
    /\ stage = "setup"
    /\ loop = Locals("idle")
    /\ result = Pending
    /\ transport = "Tcp"
    /\ events = <<>>

----------------------------------------------------------------------------
(* The host.                                                               *)

\* NativeSession::network_changed
NetworkChanged ==
    /\ platform = "android" /\ host \in {"running", "stopped"}
    /\ Len(commands) < MaxCommands
    /\ commands' = Append(commands, "NetworkChanged")
    /\ UNCHANGED <<platform, host, control_rx, cancel, tun_fault, tunVars, stage, loop, result, transport, events>>

\* stop_inner, of stop() and of the drop of the handle: first the command,
\* then the token.
SendStop ==
    /\ platform = "android" /\ host \in {"running", "stopped"}
    /\ Len(commands) < MaxCommands
    /\ commands' = Append(commands, "Stop")
    /\ host' = "stopping"
    /\ UNCHANGED <<platform, control_rx, cancel, tun_fault, tunVars, stage, loop, result, transport, events>>

CancelToken ==
    /\ host = "stopping"
    /\ cancel' = TRUE
    /\ host' = "stopped"
    /\ UNCHANGED <<platform, commands, control_rx, tun_fault, tunVars, stage, loop, result, transport, events>>

\* The handle is gone and with it the only sender.
DropSender ==
    /\ host = "stopped" /\ platform = "android"
    /\ host' = "dropped"
    /\ UNCHANGED <<platform, commands, control_rx, cancel, tun_fault, tunVars, stage, loop, result, transport, events>>

\* spawn_ctrl_c
CtrlC ==
    /\ platform = "desktop" /\ host = "running"
    /\ host' = "stopped"
    /\ cancel' = TRUE
    /\ UNCHANGED <<platform, commands, control_rx, tun_fault, tunVars, stage, loop, result, transport, events>>

----------------------------------------------------------------------------
(* Start: the TUN device, then run_client.                                 *)

SpawnTun ==
    /\ stage = "setup"
    /\ tasks' = [t \in TunTask |-> "running"]
    /\ handles' = TunTask
    /\ channels' = TRUE
    /\ stage' = "ready"
    /\ UNCHANGED <<hostVars, control_rx, cancel, tun_fault, metrics_task, loop, result, transport, events>>

SpawnTunFails ==
    /\ stage = "setup"
    /\ result' = Failed("Setup", NoError)
    /\ stage' = "done"
    /\ UNCHANGED <<hostVars, control_rx, cancel, tun_fault, tunVars, loop, transport, events>>

\* catch_unwind of the worker thread.
WorkerPanics ==
    /\ stage = "setup" /\ platform = "android"
    /\ events' = Append(events, Event("Error", 1))
    /\ stage' = "returned"
    /\ UNCHANGED <<hostVars, control_rx, cancel, tun_fault, tunVars, loop, result, transport>>

\* The worker thread, or main, returns.  The bridge reports only what kept it
\* from run_client, which reports everything else itself.
HostReturns ==
    /\ stage = "done"
    /\ IF platform = "android" /\ result.of = "Setup" THEN emit(<<"Error">>) ELSE UNCHANGED events
    /\ stage' = "returned"
    /\ UNCHANGED <<hostVars, control_rx, cancel, tun_fault, tunVars, loop, result, transport>>

RunClient ==
    /\ stage = "ready"
    /\ metrics_task' = TRUE
    /\ emit(<<"Starting", "TunReady">>)
    /\ stage' = "racing"
    /\ Go("top")
    /\ UNCHANGED <<hostVars, control_rx, cancel, tun_fault, tasks, handles, channels, result, transport>>

----------------------------------------------------------------------------
(* The session loop.                                                       *)

loopFrame == <<hostVars, control_rx, cancel, tun_fault, tunVars>>

try_connect ==
    /\ LoopAt("top")
    /\ UNCHANGED loopFrame
    /\ \/ tun_fault /\ Return(TunFailed("FaultSignalled", "-")) /\ UNCHANGED <<transport, events>>
       \/ ~tun_fault /\ cancel /\ Return(Ok) /\ UNCHANGED <<transport, events>>
       \/ /\ ~tun_fault /\ ~cancel
          /\ loop.attempt < MaxAttempts
          /\ loop' = [loop EXCEPT !.at = "connecting", !.attempt = @ + 1]
          /\ emit_connecting
          /\ UNCHANGED <<stage, result>>

\* The TUN fault is the first arm of every select of the loop.
LeaveOnTunFault ==
    /\ LoopAt("connecting") \/ LoopAt("authenticating")
    /\ tun_fault
    /\ Return(TunFailed("FaultSignalled", "-"))
    /\ UNCHANGED <<loopFrame, transport, events>>

\* connect_authenticated returns Cancelled, and the checks of try_connect turn
\* it into a shutdown.
LeaveOnCancel ==
    /\ LoopAt("connecting") \/ LoopAt("authenticating")
    /\ ~tun_fault /\ cancel
    /\ Return(Ok)
    /\ UNCHANGED <<loopFrame, transport, events>>

\* A failed attempt, as try_connect sees it.
ConnectFailed(err) ==
    /\ UNCHANGED <<loopFrame, transport>>
    /\ \/ cancel /\ Return(Ok) /\ UNCHANGED events
       \/ ~cancel /\ ~is_retriable(err) /\ Return(Failed("Connect", err)) /\ UNCHANGED events
       \/ /\ ~cancel /\ is_retriable(err)
          /\ schedule_reconnect(<<Event("ReconnectFailed", 0)>>)
          /\ UNCHANGED <<stage, result>>

\* tcp::connect: the addresses in turn within CONNECT_TIMEOUT, then TLS.
Connect ==
    /\ LoopAt("connecting") /\ ~tun_fault
    /\ \/ \E a, b \in AddressErrors \cup {NoError} :
            /\ connect_stream(<<a, b>>) # NoError
            /\ ConnectFailed(connect_stream(<<a, b>>))
       \/ ConnectFailed(connect_stream(<<>>))
       \/ ConnectFailed(Err("TcpConnectTimeout", "-"))
       \/ \E err \in TlsErrors : ConnectFailed(err)
       \/ /\ Go("authenticating")
          /\ emit(<<"ConnectedTcp", "Authenticating">>)
          /\ UNCHANGED <<loopFrame, stage, result, transport>>

\* authenticate: AUTH_OK ends it, PING is answered and PONG is noted, anything
\* else fails the attempt.  A connection starts the backoff over.
Authenticate ==
    /\ LoopAt("authenticating") /\ ~tun_fault
    /\ \/ \E input \in DOMAIN AuthError : ConnectFailed(AuthError[input])
       \/ /\ loop' = [loop EXCEPT !.at = "session", !.backoff = ReconnectMin]
          /\ emit(<<"Authenticated">>)
          /\ UNCHANGED <<loopFrame, stage, result, transport>>

\* recv_control: the next command, or the end of the channel.
Receive(command) ==
    /\ control_rx
    /\ \/ /\ commands # <<>> /\ command = Head(commands)
          /\ commands' = Tail(commands) /\ UNCHANGED control_rx
       \/ /\ commands = <<>> /\ host = "dropped" /\ command = "None"
          /\ control_rx' = FALSE /\ UNCHANGED commands

commandFrame == <<platform, host, tun_fault, tunVars, transport>>

\* handle_connect_command: a network change starts the next attempt at once.
ConnectCommand ==
    /\ LoopAt("connecting") \/ LoopAt("authenticating")
    /\ ~tun_fault
    /\ UNCHANGED commandFrame
    /\ \/ /\ Receive("NetworkChanged")
          /\ emit(<<"NetworkChanged">>) /\ Go("top")
          /\ UNCHANGED <<cancel, stage, result>>
       \/ /\ Receive("Stop") \/ Receive("None")
          /\ cancel' = TRUE
          /\ Return(Ok) /\ UNCHANGED events

\* The wait of schedule_reconnect ends with its timer, a token or a command.
BackoffEnds ==
    /\ LoopAt("backoff")
    /\ Go("top")
    /\ UNCHANGED <<loopFrame, stage, result, transport, events>>

BackoffCommand ==
    /\ LoopAt("backoff") /\ ~tun_fault /\ ~cancel
    /\ UNCHANGED <<commandFrame, stage, result>>
    /\ Go("top")
    /\ \/ Receive("NetworkChanged") /\ emit(<<"NetworkChanged">>) /\ UNCHANGED cancel
       \/ (Receive("Stop") \/ Receive("None")) /\ cancel' = TRUE /\ UNCHANGED events

----------------------------------------------------------------------------
(* The session, seen from outside.                                         *)

EndSession(outcome) == loop' = [loop EXCEPT !.at = "leaving", !.outcome = outcome]

\* Traffic moves to UDP-QSP and back (TransportSwitch).
SwitchTransport ==
    /\ LoopAt("session") /\ ~tun_fault /\ ~cancel
    /\ transport' = IF transport = "Tcp" THEN "UdpQsp" ELSE "Tcp"
    /\ UNCHANGED <<loopFrame, stage, loop, result, events>>

\* ClientSession::run: the tokens come before everything the session does.
SessionSignalled ==
    /\ LoopAt("session") /\ (tun_fault \/ cancel)
    /\ EndSession(Outcome(IF tun_fault THEN "TunFault" ELSE "Shutdown", NoError))
    /\ UNCHANGED <<loopFrame, stage, result, transport, events>>

SessionEnds ==
    /\ LoopAt("session") /\ ~tun_fault /\ ~cancel
    /\ \E outcome \in Outcomes : EndSession(outcome)
    /\ UNCHANGED <<loopFrame, stage, result, transport, events>>

\* The reader's queue is closed: recv gives None.  The writer's: send fails.
SessionLosesTun(task) ==
    /\ LoopAt("session") /\ ~tun_fault /\ ~cancel
    /\ tasks[task] # "running"
    /\ EndSession(Outcome(TunClosed[task], NoError))
    /\ UNCHANGED <<loopFrame, stage, result, transport, events>>

\* Commands during a session.  Without an active UDP path a network change ends
\* the session; with one the path is refreshed, which may also end in TCP or in
\* a reconnect.
SessionCommand ==
    /\ LoopAt("session") /\ ~tun_fault /\ ~cancel
    /\ UNCHANGED <<platform, host, tun_fault, tunVars, stage, result>>
    /\ \/ /\ Receive("Stop")
          /\ cancel' = TRUE
          /\ EndSession(Outcome("Shutdown", NoError)) /\ UNCHANGED <<transport, events>>
       \/ /\ commands = <<>> /\ host = "dropped" /\ control_rx
          /\ EndSession(Outcome("Shutdown", NoError))
          /\ UNCHANGED <<commands, control_rx, cancel, transport, events>>
       \/ /\ Receive("NetworkChanged")
          /\ EndSession(Outcome("NetworkChanged", NoError))
          /\ emit(<<"NetworkChanged">>) /\ UNCHANGED <<cancel, transport>>
       \/ /\ Receive("NetworkChanged") /\ transport = "UdpQsp"
          /\ transport' \in {"Tcp", "UdpQsp"}
          /\ UNCHANGED <<cancel, loop, events>>

\* The arms of handle_session_exit.
exit_action(outcome) ==
    CASE outcome.exit = "Shutdown" -> Ok
      [] outcome.exit = "TunClosed Reader" -> TunFailed("ChannelClosed", "Reader")
      [] outcome.exit = "TunClosed Writer" -> TunFailed("ChannelClosed", "Writer")
      [] outcome.exit = "TunFault" -> TunFailed("FaultSignalled", "-")
      [] outcome.exit \in {"ProtocolError", "PermissionDenied", "UdpUpgradeRequired"} ->
            Failed("Session", IF outcome.error # NoError THEN outcome.error
                              ELSE Err("UdpUpgradeRequired", "-"))
      [] OTHER -> Pending

\* With a close of the server taken for the end.
handle_session_exit_close(outcome) ==
    IF cancel \/ outcome.exit = "RemoteClose" THEN Ok ELSE exit_action(outcome)

\* handle_session_exit: what the loop returns, Pending to reconnect.
handle_session_exit(outcome) == IF cancel THEN Ok ELSE exit_action(outcome)

\* A loop that reconnects at once, whatever ended the session.
SessionReturnsHot ==
    /\ LoopAt("leaving")
    /\ UNCHANGED <<loopFrame, transport, events>>
    /\ LET r == handle_session_exit(loop.outcome) IN
       \/ r # Pending /\ Return(r)
       \/ r = Pending /\ UNCHANGED <<stage, result>> /\ Go("top")

\* The session has said goodbye, for at most a second, and returns.
SessionReturns ==
    /\ LoopAt("leaving")
    /\ UNCHANGED <<loopFrame, transport>>
    /\ LET r == handle_session_exit(loop.outcome) IN
       \/ r # Pending /\ Return(r) /\ UNCHANGED events
       \/ /\ r = Pending /\ UNCHANGED <<stage, result>>
          /\ IF loop.outcome.exit = "NetworkChanged" THEN Go("top") /\ UNCHANGED events
             ELSE schedule_reconnect(<<>>)

----------------------------------------------------------------------------
(* Supervision.                                                            *)

supFrame == <<hostVars, control_rx, metrics_task, channels, transport>>

\* A supervisor that does not ask whether the task was told to end.
ObserveTunExitAlways(task) ==
    /\ stage = "racing"
    /\ task \in handles /\ Finished(task)
    /\ handles' = handles \ {task}
    /\ stage' = "fault" /\ tun_fault' = TRUE /\ result' = classify_task_exit(task)
    /\ UNCHANGED <<supFrame, cancel, tasks, loop, events>>

\* wait_for_exit
ObserveTunExit(task) ==
    /\ stage = "racing"
    /\ task \in handles /\ Finished(task)
    /\ handles' = handles \ {task}
    /\ IF cancel
       THEN stage' = "awaiting" /\ UNCHANGED <<tun_fault, result>>
       ELSE stage' = "fault" /\ tun_fault' = TRUE /\ result' = classify_task_exit(task)
    /\ UNCHANGED <<supFrame, cancel, tasks, loop, events>>

\* resolve_tun_channel_failure waits for the task whose channel closed; its
\* handle must still be there, or the runtime panics.
ResolveTunChannel ==
    /\ stage = "resolving"
    /\ IF result.task \notin handles
       THEN stage' = "panicked" /\ UNCHANGED <<handles, result>>
       ELSE /\ Finished(result.task)
            /\ handles' = handles \ {result.task}
            /\ result' = classify_task_exit(result.task)
            /\ stage' = "closing"
    /\ UNCHANGED <<supFrame, cancel, tun_fault, tasks, loop, events>>

\* Without the cancellation that ends the TUN and metrics tasks.
CloseQuietly ==
    /\ stage = "closing"
    /\ channels' = FALSE
    /\ stage' = "joining"
    /\ UNCHANGED <<hostVars, control_rx, cancel, tun_fault, tasks, handles, metrics_task, loop, result, transport, events>>

Close ==
    /\ stage = "closing"
    /\ cancel' = TRUE
    /\ channels' = FALSE
    /\ stage' = "joining"
    /\ UNCHANGED <<hostVars, control_rx, tun_fault, tasks, handles, metrics_task, loop, result, transport, events>>

\* TunHandles::shutdown, the metrics reporter, then the terminal events.
Finish ==
    /\ stage = "joining"
    /\ \A t \in handles : Finished(t)
    /\ ~metrics_task
    /\ handles' = {}
    /\ stage' = "done"
    /\ events' = events \o
         (IF result = Ok THEN <<Event("Stopping", 0), Event("Stopped", 0)>>
          ELSE <<Event("Error", IF is_restart_retriable(result) THEN 1 ELSE 0)>>)
    /\ UNCHANGED <<supFrame, cancel, tun_fault, tasks, loop, result>>

MetricsTaskEnds ==
    /\ metrics_task /\ cancel
    /\ metrics_task' = FALSE
    /\ UNCHANGED <<hostVars, control_rx, cancel, tun_fault, tasks, handles, channels, stage, loop, result, transport, events>>

----------------------------------------------------------------------------
(* The TUN tasks.  A task that ends drops its end of the packet channel;   *)
(* only later is its result there to be joined.                            *)

taskFrame == <<hostVars, control_rx, cancel, tun_fault, handles, channels, metrics_task,
               stage, loop, result, transport, events>>

TunTaskEnds(task, how) ==
    /\ tasks[task] = "running"
    /\ tasks' = [tasks EXCEPT ![task] = how]
    /\ UNCHANGED taskFrame

\* The reader returns when it is told to, or when it has a packet and nobody
\* takes it; the device may fail.
run_tun_reader ==
    \/ (cancel \/ ~channels) /\ TunTaskEnds("Reader", "ok")
    \/ TunTaskEnds("Reader", "io")

\* The writer returns when it is told to, or when no more frames can come; the
\* device may refuse a batch.
run_tun_writer ==
    \/ (cancel \/ ~channels) /\ TunTaskEnds("Writer", "ok")
    \/ TunTaskEnds("Writer", "io")

TunTaskPanics(task) == TunTaskEnds(task, "panic")

\* The result of a task that has ended is there for its JoinHandle.
Joinable == [ok |-> "exited ok", io |-> "exited io", panic |-> "exited panic"]

TunTaskJoinable(task) ==
    /\ tasks[task] \in {"ok", "io", "panic"}
    /\ tasks' = [tasks EXCEPT ![task] = Joinable[@]]
    /\ UNCHANGED taskFrame

----------------------------------------------------------------------------
HostNext == NetworkChanged \/ SendStop \/ CancelToken \/ DropSender \/ CtrlC

LoopNext ==
    \/ try_connect \/ LeaveOnTunFault \/ LeaveOnCancel \/ Connect \/ Authenticate
    \/ ConnectCommand \/ BackoffEnds \/ BackoffCommand
    \/ SwitchTransport \/ SessionSignalled \/ SessionEnds \/ SessionCommand
    \/ SessionReturns
    \/ \E t \in TunTask : SessionLosesTun(t)

SupervisorNext ==
    \/ SpawnTun \/ SpawnTunFails \/ WorkerPanics \/ RunClient \/ HostReturns
    \/ ResolveTunChannel \/ Close \/ Finish
    \/ \E t \in TunTask : ObserveTunExit(t)

TaskNext ==
    \/ MetricsTaskEnds
    \/ run_tun_reader \/ run_tun_writer
    \/ \E t \in TunTask : TunTaskPanics(t) \/ TunTaskJoinable(t)

Next == HostNext \/ LoopNext \/ SupervisorNext \/ TaskNext

Spec == Init /\ [][Next]_vars

\* The executor polls what can go on; every wait of the loop has a timeout.
\* Nothing is assumed of the server, the device or the host, except that a host
\* that has sent Stop goes on to cancel.
Fairness ==
    /\ WF_vars(SupervisorNext)
    /\ WF_vars(try_connect \/ LeaveOnTunFault \/ LeaveOnCancel \/ BackoffEnds
               \/ SessionSignalled \/ SessionReturns)
    /\ WF_vars(MetricsTaskEnds)
    /\ WF_vars(cancel /\ run_tun_reader) /\ WF_vars(cancel /\ run_tun_writer)
    /\ \A t \in TunTask : WF_vars(TunTaskJoinable(t))
    /\ WF_vars(CancelToken)

FairSpec == Spec /\ Fairness

----------------------------------------------------------------------------
(* Properties.                                                             *)

Results ==
    {Pending, Ok, Failed("Setup", NoError)}
    \cup {Failed("Connect", e) : e \in AddressErrors \cup TlsErrors \cup {AuthError[i] : i \in DOMAIN AuthError}}
    \cup {Failed("Session", e) : e \in SessionErrors}
    \cup {TunFailed(v, t) : v \in {"ChannelClosed", "Io", "Panic", "UnexpectedExit"}, t \in TunTask}
    \cup {TunFailed("FaultSignalled", "-")}

Terminal == {"Stopped", "Error"}

\* Every variable has its type; the backoff stays between its two limits.
TypeOK ==
    /\ platform \in Platforms
    /\ host \in {"running", "stopping", "stopped", "dropped"}
    /\ Len(commands) <= MaxCommands /\ ToSet(commands) \subseteq {"NetworkChanged", "Stop"}
    /\ {control_rx, cancel, tun_fault, channels, metrics_task} \subseteq BOOLEAN
    /\ tasks \in [TunTask -> {"unborn", "running", "ok", "io", "panic",
                              "exited ok", "exited io", "exited panic"}]
    /\ handles \subseteq TunTask
    /\ stage \in {"setup", "ready", "racing", "awaiting", "fault", "resolving",
                  "closing", "joining", "done", "returned", "panicked"}
    /\ loop.at \in {"idle", "top", "connecting", "authenticating", "session", "leaving", "backoff", "ended"}
    /\ loop.attempt \in 0..MaxAttempts
    /\ loop.backoff \in ReconnectMin..ReconnectMax
    /\ result \in Results
    /\ transport \in {"Tcp", "UdpQsp"}

\* A host that follows the events learns exactly once that the session is over,
\* and nothing comes after: "The runtime owns the full lifecycle event stream",
\* and the bridge adds only its own failures.
OneTerminalEvent ==
    /\ \A i \in DOMAIN events : events[i].kind \in Terminal => i = Len(events)
    /\ stage = "returned" /\ platform = "android" =>
          events # <<>> /\ Last(events).kind \in Terminal

\* The runtime reports a clean stop only to a host that asked for one: no lost
\* connection, TUN failure or network change ends it silently.
StoppedOnRequest ==
    \A i \in DOMAIN events : events[i].kind = "Stopped" => host # "running"

\* A TUN error that leaves the supervisor is the failure of the task itself:
\* neither the closed channel through which a session noticed it, nor the
\* supervisor's own signal, nor the regular end of a cancelled task.
TunErrorIsExplained ==
    stage \in {"closing", "joining", "done", "returned"} /\ result.of = "Tun" =>
        result.error.variant \in {"Io", "Panic"}

\* wait_for_task finds the handle it waits for: wait_for_exit has not taken it.
HandleIsThere == stage # "panicked"

\* When run_client returns, no TUN or metrics task of its is left.
NothingIsLeftRunning ==
    stage \in {"done", "returned"} =>
        ~metrics_task /\ \A t \in TunTask : tasks[t] = "unborn" \/ Finished(t)

\* Between two attempts there is a scheduled wait or a change of network: no
\* way a session or an attempt ends lets the client reconnect in a tight loop.
NoHotLoop ==
    loop'.attempt > loop.attempt =>
        \/ loop.attempt = 0
        \/ \E i \in DOMAIN events : events[i].kind \in {"ReconnectScheduled", "NetworkChanged"}

\* The first wait after a connection that got through is a short one, however
\* many attempts had failed before it.
BackoffStartsOver ==
    \A i, j \in DOMAIN events :
        i < j /\ events[i].kind = "Authenticated" /\ events[j].kind = "ReconnectScheduled" =>
            events[j].n <= ReconnectMin

\* Until a session runs, events say TCP, also after a session that was on UDP:
\* "a reconnect after a UDP-committed session does not report stale UdpQsp".
ConnectEventsSayTcp ==
    \A i \in DOMAIN events :
        events[i].kind \in {"Connecting", "ConnectedTcp", "Authenticating", "Authenticated"} =>
            events[i].transport = "Tcp"

\* The only Error that tells the host to start again is that of a panic: what
\* run_client gives up on, it has classified as not worth a retry.
OnlyPanicsAskForRestart ==
    \A i \in DOMAIN events : events[i].kind = "Error" /\ events[i].n = 1 => result = Pending

\* Cancellation, from wherever it comes, and the end of a TUN task end the
\* runtime, through backoff waits, attempts, sessions and joins.
SignalsEndTheRuntime ==
    (cancel \/ \E t \in TunTask : tasks[t] \notin {"unborn", "running"}) ~> (stage = "returned")

\* The event stream tells the host the truth: when the session is over, whether the
\* host asked for it, whether a restart helps, and on which transport it is.
EventsAreTruthful ==
    OneTerminalEvent /\ StoppedOnRequest /\ ConnectEventsSayTcp /\ OnlyPanicsAskForRestart

\* However the ends of the TUN tasks, of the session and of the runtime race, the
\* cause is reported, no handle is taken twice and no task is left.
TasksAreAccountedFor ==
    TypeOK /\ TunErrorIsExplained /\ HandleIsThere /\ NothingIsLeftRunning

\* The pace of reconnects: never in a tight loop, and quick again after a connection
\* that got through.
ReconnectsArePaced == [][BackoffStartsOver' /\ NoHotLoop]_vars
=============================================================================
