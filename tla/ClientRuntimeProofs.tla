------------------------ MODULE ClientRuntimeProofs ------------------------
(***************************************************************************)
(* Proofs about ClientRuntime, for every pair of backoff limits, any       *)
(* number of attempts and a command channel of any size.                   *)
(***************************************************************************)
EXTENDS ClientRuntime, SequenceTheorems, TLAPS

-----------------------------------------------------------------------------
(* The inductive invariant                                                 *)

Commands == {"NetworkChanged", "Stop"}
Hosts == {"running", "stopping", "stopped", "dropped"}
TaskStates == {"unborn", "running", "ok", "io", "panic", "exited ok", "exited io", "exited panic"}
Stages == {"setup", "ready", "racing", "awaiting", "fault", "resolving",
           "closing", "joining", "done", "returned", "panicked"}

\* The places of the session loop while run_sessions runs.
Running == {"top", "connecting", "authenticating", "session", "leaving", "backoff"}

\* What a session may leave with.
Exits ==
    {NoOutcome} \cup Outcomes
        \cup {Outcome(e, NoError) : e \in {"TunFault", "Shutdown", "NetworkChanged",
                                           "TunClosed Reader", "TunClosed Writer"}}

LoopType == [at : {"idle", "ended"} \cup Running, attempt : 0..MaxAttempts,
             backoff : ReconnectMin..ReconnectMax, outcome : Exits]

Kinds == {"Starting", "TunReady", "Connecting", "ConnectedTcp", "Authenticating", "Authenticated",
          "ReconnectFailed", "ReconnectScheduled", "NetworkChanged", "Stopping", "Stopped", "Error"}
EventType == [kind : Kinds, transport : {"Tcp", "UdpQsp"}, n : Nat]

Types ==
    /\ platform \in Platforms
    /\ host \in Hosts
    /\ commands \in Seq(Commands) /\ Len(commands) <= MaxCommands
    /\ control_rx \in BOOLEAN /\ cancel \in BOOLEAN /\ tun_fault \in BOOLEAN
    /\ channels \in BOOLEAN /\ metrics_task \in BOOLEAN
    /\ tasks \in [TunTask -> TaskStates]
    /\ handles \subseteq TunTask
    /\ stage \in Stages
    /\ loop \in LoopType
    /\ result \in Results
    /\ transport \in {"Tcp", "UdpQsp"}
    /\ events \in Seq(EventType)

\* The stages of the supervisor in which the two TUN tasks exist.
Supervising == {"ready", "racing", "awaiting", "fault", "resolving", "closing", "joining"}

\* A TUN task that failed, whether or not its handle can be joined yet.
HasFailed(t) == tasks[t] \in {"io", "panic", "exited io", "exited panic"}

\* What each stage of the supervisor knows of the loop, of the tokens and of the result.
StagesInOrder ==
    /\ stage # "panicked"
    /\ stage = "setup" =>
          result = Pending /\ events = <<>> /\ loop.at = "idle" /\ ~tun_fault /\ ~metrics_task
    /\ stage = "ready" =>
          channels /\ result = Pending /\ events = <<>> /\ loop.at = "idle" /\ ~tun_fault
    /\ stage \in {"racing", "awaiting"} =>
          channels /\ result = Pending /\ loop.at \in Running /\ ~tun_fault
    /\ stage \in {"ready", "racing"} => handles = TunTask
    /\ stage = "awaiting" => cancel
    /\ stage = "fault" => channels /\ tun_fault /\ result.of = "Tun" /\ loop.at \in Running
    /\ stage = "resolving" =>
          /\ channels /\ handles = TunTask
          /\ result.task \in TunTask /\ HasFailed(result.task)
    /\ stage = "closing" => channels
    /\ stage = "joining" => cancel
    /\ stage \in {"closing", "joining", "done"} => result # Pending
    /\ stage \in {"closing", "joining"} => result.of # "Setup"
    /\ stage \in {"resolving", "closing", "joining", "done", "returned"} =>
          loop.at \notin Running

\* Tasks are born together, end regularly only when they are told to, and lose their
\* handle only to a supervisor that has joined them.
TasksInOrder ==
    /\ stage = "setup" => \A t \in TunTask : tasks[t] = "unborn"
    /\ stage \in Supervising => \A t \in TunTask : tasks[t] # "unborn"
    /\ stage \in Supervising => \A t \in TunTask : t \notin handles => Finished(t)
    /\ stage \in {"done", "returned"} =>
          ~metrics_task /\ \A t \in TunTask : tasks[t] = "unborn" \/ Finished(t)
    /\ \A t \in TunTask : tasks[t] \in {"ok", "exited ok"} => cancel
    /\ stage \in {"closing", "joining", "done", "returned", "fault"} /\ result.of = "Tun" =>
          result.error.variant \in {"Io", "Panic"}

\* Only the host makes the runtime end with Ok: it has sent Stop, dropped its handle or
\* cancelled the token.
RequestIsTraced ==
    /\ cancel /\ stage \notin {"joining", "done", "returned"} => host # "running"
    /\ \A i \in DOMAIN commands : commands[i] = "Stop" => host # "running"
    /\ loop.outcome.exit = "Shutdown" => host # "running"
    /\ result = Ok => host # "running"

\* The outcome of a session is there while the loop leaves it, and one that lost a
\* channel lost it to a task that failed, or that was told to end.
OutcomeIsTraced ==
    /\ loop.at # "leaving" => loop.outcome = NoOutcome
    /\ \A t \in TunTask : loop.outcome.exit = TunClosed[t] => HasFailed(t) \/ cancel
    /\ loop.outcome.exit = "TunFault" => tun_fault

\* What a recorded event says of the state.
EventIsTrue(e) ==
    /\ e.kind \in Terminal => stage \in {"done", "returned"}
    /\ e.kind = "Stopped" => host # "running"
    /\ e.kind \in {"Connecting", "ConnectedTcp", "Authenticating", "Authenticated"} =>
          e.transport = "Tcp"
    /\ e.kind = "Error" /\ e.n = 1 => result = Pending
    /\ e.kind = "Authenticated" => loop.at \notin {"connecting", "authenticating"}

Logged(kinds) == \E i \in DOMAIN events : events[i].kind \in kinds

\* The log of events, and what the place of the loop says of it.
EventsInOrder ==
    /\ \A i \in DOMAIN events : EventIsTrue(events[i])
    /\ \A i \in DOMAIN events : events[i].kind \in Terminal => i = Len(events)
    /\ stage = "done" => (result.of = "Setup" => events = <<>>)
    /\ stage = "done" /\ result.of # "Setup" => events # <<>> /\ Last(events).kind \in Terminal
    /\ stage = "returned" /\ platform = "android" => events # <<>> /\ Last(events).kind \in Terminal
    /\ loop.at \in {"connecting", "authenticating"} => transport = "Tcp"
    /\ ~is_restart_retriable(result)

\* Why the loop may go on to its next attempt, and how long it waits.
PaceIsKept ==
    /\ loop.at = "idle" => loop.attempt = 0
    /\ loop.at = "top" => loop.attempt = 0 \/ Logged({"ReconnectScheduled", "NetworkChanged"})
    /\ loop.at = "backoff" => Logged({"ReconnectScheduled"})
    /\ loop.outcome.exit = "NetworkChanged" => Logged({"NetworkChanged"})
    /\ loop.at \in {"session", "leaving"} => loop.backoff = ReconnectMin
    /\ BackoffStartsOver

Inv ==
    /\ Types /\ StagesInOrder /\ TasksInOrder /\ RequestIsTraced /\ OutcomeIsTraced
    /\ EventsInOrder /\ PaceIsKept

-----------------------------------------------------------------------------
(* What the steps have in common                                           *)

\* The log after a few more events.
LEMMA LogGrows ==
    ASSUME NEW s \in Seq(EventType), NEW t \in Seq(EventType)
    PROVE  /\ s \o t \in Seq(EventType)
           /\ Len(s \o t) = Len(s) + Len(t)
           /\ \A i \in DOMAIN s : i \in DOMAIN (s \o t) /\ (s \o t)[i] = s[i]
           /\ \A k \in DOMAIN t : Len(s) + k \in DOMAIN (s \o t) /\ (s \o t)[Len(s) + k] = t[k]
           /\ \A i \in DOMAIN (s \o t) :
                 i \in DOMAIN s \/ \E k \in DOMAIN t : i = Len(s) + k
<1>1. /\ s \o t \in Seq(EventType) /\ Len(s \o t) = Len(s) + Len(t)
      /\ Len(s) \in Nat /\ Len(t) \in Nat
  OBVIOUS
<1>2. /\ DOMAIN s = 1..Len(s) /\ DOMAIN t = 1..Len(t) /\ DOMAIN (s \o t) = 1..Len(s \o t)
  BY <1>1
<1>3. \A i \in DOMAIN s : i \in DOMAIN (s \o t) /\ (s \o t)[i] = s[i]
  BY <1>1, <1>2
<1>4. \A k \in DOMAIN t : Len(s) + k \in DOMAIN (s \o t) /\ (s \o t)[Len(s) + k] = t[k]
  BY <1>1, <1>2
<1>5. ASSUME NEW i \in DOMAIN (s \o t), i \notin DOMAIN s
      PROVE  \E k \in DOMAIN t : i = Len(s) + k
  <2>1. i - Len(s) \in DOMAIN t /\ i = Len(s) + (i - Len(s))
    BY <1>1, <1>2, <1>5
  <2> QED BY <2>1
<1> QED BY <1>1, <1>3, <1>4, <1>5

LEMMA EventFacts ==
    ASSUME transport \in {"Tcp", "UdpQsp"}, NEW kind \in Kinds, NEW n \in Nat
    PROVE  /\ Event(kind, n) \in EventType
           /\ Event(kind, n).kind = kind /\ Event(kind, n).n = n
           /\ Event(kind, n).transport = transport
  BY DEF Event, EventType

LEMMA ShortLogs ==
    ASSUME NEW a \in EventType, NEW b \in EventType
    PROVE  /\ <<>> \in Seq(EventType) /\ <<a>> \in Seq(EventType) /\ <<a, b>> \in Seq(EventType)
           /\ <<a>> \o <<b>> = <<a, b>>
           /\ <<>> \o <<b>> = <<b>>
<1>1. <<>> \in Seq(EventType) /\ <<a>> \in Seq(EventType) /\ <<a, b>> \in Seq(EventType)
  OBVIOUS
<1>2. <<a>> \o <<b>> = <<a, b>>
  <2> DEFINE s == <<a>> \o <<b>>
  <2>1. <<b>> \in Seq(EventType) /\ Len(<<a>>) = 1 /\ Len(<<b>>) = 1 /\ Len(<<a, b>>) = 2
    OBVIOUS
  <2>2. s \in Seq(EventType) /\ Len(s) = 2 /\ s[1] = a /\ s[2] = b
    BY <1>1, <2>1
  <2> HIDE DEF s
  <2>3. \A i \in 1..Len(s) : s[i] = <<a, b>>[i]
    BY <2>2
  <2>4. s = <<a, b>>
    BY <1>1, <2>1, <2>2, <2>3, SeqEqual
  <2> QED BY <2>4 DEF s
<1>3. <<>> \o <<b>> = <<b>>
  OBVIOUS
<1> QED BY <1>1, <1>2, <1>3

\* The exit of a session that lost the channel of a task.
LEMMA TunClosedFacts ==
    /\ TunClosed["Reader"] = "TunClosed Reader" /\ TunClosed["Writer"] = "TunClosed Writer"
    /\ \A t \in TunTask : TunClosed[t] \in {"TunClosed Reader", "TunClosed Writer"}
<1>1. TunClosed["Reader"] = "TunClosed Reader" /\ TunClosed["Writer"] = "TunClosed Writer"
  BY DEF TunClosed
<1> QED BY <1>1 DEF TunTask

\* The results do not depend on anything that changes.
LEMMA SameResults == ASSUME platform' = platform PROVE Results' = Results
  BY DEF Results, AddressErrors

\* What the session loop does to the command channel and to the token: it takes
\* commands, and cancels only for a host that has asked for it.
ChannelStep ==
    /\ commands' \in Seq(Commands) /\ Len(commands') <= MaxCommands
    /\ \A i \in DOMAIN commands' : \E j \in DOMAIN commands : commands'[i] = commands[j]
    /\ control_rx' \in BOOLEAN /\ cancel' \in BOOLEAN
    /\ cancel => cancel'
    /\ cancel' => cancel \/ host # "running"
    /\ UNCHANGED <<platform, host, tun_fault, tunVars>>

LEMMA SameChannel ==
    ASSUME Types, UNCHANGED <<platform, host, tun_fault, tunVars, commands, control_rx, cancel>>
    PROVE  ChannelStep
  BY DEF Types, ChannelStep

LEMMA ReceiveStep ==
    ASSUME Types, RequestIsTraced, NEW command, Receive(command),
           cancel' = cancel \/ (command \in {"Stop", "None"} /\ cancel' = TRUE),
           UNCHANGED <<platform, host, tun_fault, tunVars>>
    PROVE  ChannelStep /\ (command \in {"Stop", "None"} => host # "running")
<1>1. CASE commands # <<>> /\ command = Head(commands) /\ commands' = Tail(commands) /\ UNCHANGED control_rx
  <2>1. /\ commands' \in Seq(Commands) /\ Len(commands') = Len(commands) - 1
        /\ \A i \in DOMAIN commands' : i + 1 \in DOMAIN commands /\ commands'[i] = commands[i + 1]
    BY <1>1 DEF Types
  <2>2. 1 \in DOMAIN commands /\ commands[1] = command /\ command \in Commands
    BY <1>1 DEF Types
  <2>3. command \in {"Stop", "None"} => host # "running"
    BY <2>2 DEF RequestIsTraced, Commands
  <2>4. Len(commands) \in Nat /\ MaxCommands \in Nat
    BY RuntimeAssumption DEF Types
  <2>5. cancel' \in BOOLEAN /\ (cancel => cancel') /\ (cancel' => cancel \/ host # "running")
    <3>1. cancel \in BOOLEAN
      BY DEF Types
    <3>2. CASE cancel' = cancel
      BY <3>1, <3>2
    <3>3. CASE command \in {"Stop", "None"} /\ cancel' = TRUE
      BY <2>3, <3>1, <3>3
    <3> QED BY <3>2, <3>3
  <2>6. Len(commands') <= MaxCommands
    BY <2>1, <2>4 DEF Types
  <2>7. control_rx' \in BOOLEAN
    BY <1>1 DEF Types
  <2> QED BY <2>1, <2>3, <2>5, <2>6, <2>7 DEF ChannelStep
<1>2. CASE commands = <<>> /\ host = "dropped" /\ command = "None" /\ control_rx' = FALSE /\ UNCHANGED commands
  BY <1>2 DEF Types, ChannelStep
<1> QED BY <1>1, <1>2 DEF Receive

-----------------------------------------------------------------------------
(* The ways in which a step of the session loop ends                       *)

\* A result that run_sessions may return, seen from the stage of the supervisor.
Returnable(r) ==
    /\ r \in Results /\ r # Pending /\ r.of # "Setup"
    /\ ~is_restart_retriable(r)
    /\ r = Ok => host # "running"
    /\ stage # "fault" /\ r.of = "Tun" =>
          /\ stage = "racing"
          /\ r.error.variant = "ChannelClosed"
          /\ r.task \in TunTask /\ HasFailed(r.task)
    /\ r.error.variant = "ChannelClosed" => r.of = "Tun"

LEMMA ReturnKeeps ==
    ASSUME Inv, Polled, loop.at \in Running, NEW r, Returnable(r), Return(r),
           ChannelStep, UNCHANGED <<transport, events>>
    PROVE  Inv'
<1> USE DEF Inv
<1>1. /\ stage \in {"racing", "awaiting", "fault"}
      /\ stage' = IF stage # "fault" /\ r.error.variant = "ChannelClosed" THEN "resolving" ELSE "closing"
      /\ loop' = Locals("ended")
      /\ result' = IF stage = "fault" THEN result ELSE r
      /\ UNCHANGED <<platform, host, tun_fault, tasks, handles, channels, metrics_task, transport, events>>
  BY DEF Polled, Return, ChannelStep, tunVars
<1>2. /\ loop'.at = "ended" /\ loop'.attempt = 0 /\ loop'.backoff = ReconnectMin
      /\ loop'.outcome = NoOutcome /\ loop'.outcome.exit = "-"
  BY <1>1 DEF Locals, NoOutcome, Outcome
<1>3. loop' \in LoopType
  BY <1>1, RuntimeAssumption DEF Locals, LoopType, Exits
<1>4. result' \in Results /\ result' # Pending /\ ~is_restart_retriable(result')
  BY <1>1 DEF Types, Returnable, StagesInOrder, EventsInOrder, Pending
<1>5. Types'
  BY <1>1, <1>3, <1>4, SameResults DEF Types, ChannelStep, Stages
<1>6. StagesInOrder'
  <2>1. result'.of # "Setup"
    BY <1>1 DEF StagesInOrder, Returnable
  <2> QED BY <1>1, <1>2, <1>4, <2>1 DEF StagesInOrder, Returnable, HasFailed, Running
<1>7. TasksInOrder'
  BY <1>1 DEF TasksInOrder, Returnable, Finished, Supervising, StagesInOrder, ChannelStep
<1>8. RequestIsTraced'
  BY <1>1, <1>2 DEF RequestIsTraced, Returnable, ChannelStep
<1>9. OutcomeIsTraced'
  BY <1>2, TunClosedFacts DEF OutcomeIsTraced
<1>10. EventsInOrder'
  BY <1>1, <1>2, <1>4 DEF EventsInOrder, EventIsTrue, Terminal
<1>11. PaceIsKept'
  BY <1>1, <1>2 DEF PaceIsKept, BackoffStartsOver
<1> QED BY <1>5, <1>6, <1>7, <1>8, <1>9, <1>10, <1>11
\* The loop schedules its next attempt, after `failed`.
LEMMA ScheduleKeeps ==
    ASSUME Inv, Polled, loop.at \in {"connecting", "authenticating", "leaving"},
           NEW failed, failed = <<>> \/ failed = <<Event("ReconnectFailed", 0)>>,
           schedule_reconnect(failed),
           ChannelStep, UNCHANGED <<stage, result, transport>>
    PROVE  Inv'
<1> USE DEF Inv
<1>1. PICK delay \in Delays(loop.backoff) :
        /\ loop' = [loop EXCEPT !.at = "backoff", !.outcome = NoOutcome,
                     !.backoff = IF 2 * loop.backoff < ReconnectMax THEN 2 * loop.backoff ELSE ReconnectMax]
        /\ events' = events \o failed \o <<Event("ReconnectScheduled", delay)>>
  BY DEF schedule_reconnect
<1>2. UNCHANGED <<platform, host, tun_fault, tasks, handles, channels, metrics_task, transport, stage, result>>
  BY DEF ChannelStep, tunVars
<1>3. /\ loop.backoff \in Nat /\ ReconnectMin <= loop.backoff /\ loop.backoff <= ReconnectMax
      /\ ReconnectMin \in Nat /\ ReconnectMax \in Nat /\ ReconnectMin <= ReconnectMax
  BY RuntimeAssumption DEF Types, LoopType
<1>4. delay \in Nat /\ delay <= loop.backoff
  <2>1. /\ loop.backoff \div 2 \in Nat /\ loop.backoff \div 2 <= loop.backoff
    BY <1>3
  <2> QED BY <1>3, <2>1 DEF Delays
<1>5. loop' \in LoopType
  <2>1. /\ loop'.backoff \in ReconnectMin..ReconnectMax
    BY <1>1, <1>3 DEF Types, LoopType
  <2>2. NoOutcome \in Exits
    BY DEF Exits
  <2> QED BY <1>1, <2>1, <2>2 DEF Types, LoopType, Running
<1>6. loop'.at = "backoff" /\ loop'.outcome = NoOutcome /\ loop'.outcome.exit = "-" /\ loop'.attempt = loop.attempt
  BY <1>1 DEF Types, LoopType, NoOutcome, Outcome
<1> DEFINE new == failed \o <<Event("ReconnectScheduled", delay)>>
<1>7. /\ failed \in Seq(EventType) /\ <<Event("ReconnectScheduled", delay)>> \in Seq(EventType)
      /\ Event("ReconnectScheduled", delay) \in EventType
      /\ Event("ReconnectFailed", 0) \in EventType
  <2>1. Event("ReconnectScheduled", delay) \in EventType /\ Event("ReconnectFailed", 0) \in EventType
    BY <1>4, EventFacts DEF Kinds, Types
  <2> QED BY <2>1, ShortLogs
<1>8. /\ new \in Seq(EventType) /\ new # <<>> /\ Len(new) \in 1..2
      /\ \A k \in DOMAIN new : \/ new[k] = Event("ReconnectFailed", 0)
                               \/ new[k] = Event("ReconnectScheduled", delay) /\ k = Len(new)
      /\ new[Len(new)] = Event("ReconnectScheduled", delay)
  <2>1. CASE failed = <<>>
    <3>1. new = <<Event("ReconnectScheduled", delay)>>
      BY <1>7, <2>1
    <3> HIDE DEF new
    <3> QED BY <1>7, <3>1
  <2>2. CASE failed = <<Event("ReconnectFailed", 0)>>
    <3>1. new = <<Event("ReconnectFailed", 0), Event("ReconnectScheduled", delay)>>
      BY <1>7, <2>2, ShortLogs
    <3> HIDE DEF new
    <3> QED BY <1>7, <3>1
  <2> QED BY <2>1, <2>2
<1>9. events' = events \o new
  BY <1>1, <1>7 DEF Types
<1> HIDE DEF new
<1>10. /\ events' \in Seq(EventType)
       /\ Len(events') = Len(events) + Len(new)
       /\ \A i \in DOMAIN events : i \in DOMAIN events' /\ events'[i] = events[i]
       /\ \A k \in DOMAIN new : Len(events) + k \in DOMAIN events' /\ events'[Len(events) + k] = new[k]
       /\ \A i \in DOMAIN events' : i \in DOMAIN events \/ \E k \in DOMAIN new : i = Len(events) + k
  BY <1>8, <1>9, LogGrows DEF Types
<1>11. \A i \in DOMAIN events' :
          \/ i \in DOMAIN events /\ events'[i] = events[i]
          \/ events'[i].kind = "ReconnectFailed"
          \/ events'[i].kind = "ReconnectScheduled" /\ events'[i].n = delay
  BY <1>8, <1>10 DEF Event
<1>12. \E i \in DOMAIN events' : events'[i].kind = "ReconnectScheduled"
  <2>1. Len(new) \in DOMAIN new
    BY <1>8
  <2> QED BY <1>8, <1>10, <2>1 DEF Event
<1>13. stage \in {"racing", "awaiting", "fault"}
  BY DEF Polled
<1>14. Types'
  BY <1>2, <1>5, <1>10, SameResults DEF Types, ChannelStep
<1>15. StagesInOrder'
  BY <1>2, <1>6, <1>13 DEF StagesInOrder, ChannelStep, Running
<1>16. TasksInOrder'
  BY <1>2, <1>13 DEF TasksInOrder, Finished, Supervising, ChannelStep
<1>17. RequestIsTraced'
  BY <1>2, <1>6 DEF RequestIsTraced, ChannelStep
<1>18. OutcomeIsTraced'
  BY <1>6, TunClosedFacts DEF OutcomeIsTraced
<1>19. EventsInOrder'
  BY <1>2, <1>6, <1>11, <1>13 DEF EventsInOrder, EventIsTrue, Terminal
<1>20. BackoffStartsOver'
  <2> SUFFICES ASSUME NEW i \in DOMAIN events', NEW j \in DOMAIN events', i < j,
                      events'[i].kind = "Authenticated", events'[j].kind = "ReconnectScheduled"
               PROVE  events'[j].n <= ReconnectMin
    BY DEF BackoffStartsOver
  <2>1. i \in DOMAIN events /\ events'[i] = events[i]
    BY <1>11
  <2>2. CASE j \in DOMAIN events /\ events'[j] = events[j]
    BY <2>1, <2>2 DEF PaceIsKept, BackoffStartsOver
  <2>3. CASE events'[j].n = delay
    <3>1. loop.at = "leaving"
      BY <2>1 DEF EventsInOrder, EventIsTrue
    <3> QED BY <1>4, <2>3, <3>1 DEF PaceIsKept
  <2> QED BY <1>11, <2>2, <2>3
<1>21. PaceIsKept'
  BY <1>6, <1>12, <1>20 DEF PaceIsKept, Logged
<1> QED BY <1>14, <1>15, <1>16, <1>17, <1>18, <1>19, <1>21
\* The events of emit.
Emitted(kinds) == [i \in DOMAIN kinds |-> Event(kinds[i], 0)]

LEMMA EmittedFacts ==
    ASSUME transport \in {"Tcp", "UdpQsp"}, NEW kinds \in Seq(Kinds)
    PROVE  /\ Emitted(kinds) \in Seq(EventType)
           /\ DOMAIN Emitted(kinds) = DOMAIN kinds
           /\ \A k \in DOMAIN kinds : /\ Emitted(kinds)[k].kind = kinds[k]
                                      /\ Emitted(kinds)[k].transport = transport
                                      /\ Emitted(kinds)[k].n = 0
<1>1. \A k \in DOMAIN kinds : kinds[k] \in Kinds
  OBVIOUS
<1>2. \A k \in DOMAIN kinds : Event(kinds[k], 0) \in EventType
  BY <1>1, EventFacts
<1>3. Len(kinds) \in Nat /\ DOMAIN kinds = 1..Len(kinds)
  OBVIOUS
<1>4. Emitted(kinds) \in [1..Len(kinds) -> EventType]
  BY <1>2, <1>3 DEF Emitted
<1>5. Emitted(kinds) \in Seq(EventType)
  BY <1>3, <1>4, SeqDef
<1>6. \A k \in DOMAIN kinds : Emitted(kinds)[k] = Event(kinds[k], 0)
  BY DEF Emitted
<1>7. DOMAIN Emitted(kinds) = DOMAIN kinds
  BY DEF Emitted
<1> QED BY <1>5, <1>6, <1>7 DEF Event

\* The loop moves on within run_sessions, and emits `new`.
LEMMA MoveKeeps ==
    ASSUME Inv, Polled, ChannelStep, UNCHANGED <<stage, result>>,
           loop' \in LoopType, loop.at \in Running, loop'.at \in Running,
           loop'.attempt = loop.attempt,
           transport' \in {"Tcp", "UdpQsp"},
           NEW new \in Seq(EventType), events' = events \o new,
           \A k \in DOMAIN new :
              /\ new[k].kind \in {"ConnectedTcp", "Authenticating", "Authenticated", "NetworkChanged"}
              /\ new[k].kind = "NetworkChanged" \/ new[k].transport = "Tcp"
              /\ new[k].kind = "Authenticated" => loop'.at = "session",
           loop'.at \in {"connecting", "authenticating"} => loop.at = "connecting" /\ transport' = "Tcp",
           loop'.at = "top" => loop.at = "backoff" \/ Logged({"NetworkChanged"})',
           loop'.at # "backoff",
           loop'.at \in {"session", "leaving"} => loop'.backoff = ReconnectMin,
           OutcomeIsTraced',
           loop'.outcome.exit = "Shutdown" => host # "running",
           loop'.outcome.exit = "NetworkChanged" => Logged({"NetworkChanged"})'
    PROVE  Inv'
<1> USE DEF Inv
<1>1. UNCHANGED <<platform, host, tun_fault, tasks, handles, channels, metrics_task, stage, result>>
  BY DEF ChannelStep, tunVars
<1>2. stage \in {"racing", "awaiting", "fault"}
  BY DEF Polled
<1>3. /\ events' \in Seq(EventType)
      /\ Len(events') = Len(events) + Len(new)
      /\ \A i \in DOMAIN events : i \in DOMAIN events' /\ events'[i] = events[i]
      /\ \A k \in DOMAIN new : Len(events) + k \in DOMAIN events' /\ events'[Len(events) + k] = new[k]
      /\ \A i \in DOMAIN events' : i \in DOMAIN events \/ \E k \in DOMAIN new : i = Len(events) + k
  BY LogGrows DEF Types
<1>4. \A i \in DOMAIN events' :
         \/ i \in DOMAIN events /\ events'[i] = events[i]
         \/ /\ i \notin DOMAIN events
            /\ events'[i].kind \in {"ConnectedTcp", "Authenticating", "Authenticated", "NetworkChanged"}
            /\ events'[i].kind = "NetworkChanged" \/ events'[i].transport = "Tcp"
            /\ events'[i].kind = "Authenticated" => loop'.at = "session"
  BY <1>3
<1>5. Types'
  BY <1>1, <1>3, SameResults DEF Types, ChannelStep
<1>6. StagesInOrder'
  BY <1>1, <1>2 DEF StagesInOrder, ChannelStep, Running
<1>7. TasksInOrder'
  BY <1>1, <1>2 DEF TasksInOrder, Finished, Supervising, ChannelStep
<1>8. RequestIsTraced'
  BY <1>1 DEF RequestIsTraced, ChannelStep
<1>9. EventsInOrder'
  <2>1. \A i \in DOMAIN events' : EventIsTrue(events[i])'
    BY <1>1, <1>2, <1>4 DEF EventsInOrder, EventIsTrue, Terminal
  <2> QED BY <1>1, <1>2, <2>1 DEF EventsInOrder, EventIsTrue
<1>10. BackoffStartsOver'
  <2> SUFFICES ASSUME NEW i \in DOMAIN events', NEW j \in DOMAIN events', i < j,
                      events'[i].kind = "Authenticated", events'[j].kind = "ReconnectScheduled"
               PROVE  events'[j].n <= ReconnectMin
    BY DEF BackoffStartsOver
  <2>1. j \in DOMAIN events /\ events'[j] = events[j]
    BY <1>4
  <2>2. i \in DOMAIN events /\ events'[i] = events[i]
    BY <1>3, <2>1 DEF Types
  <2> QED BY <2>1, <2>2 DEF PaceIsKept, BackoffStartsOver
<1>11. PaceIsKept'
  <2>1. loop.at = "backoff" => Logged({"ReconnectScheduled"})'
    BY <1>3 DEF PaceIsKept, Logged
  <2>2. loop'.at = "top" => Logged({"ReconnectScheduled", "NetworkChanged"})'
    BY <2>1 DEF Logged
  <2> QED BY <1>10, <2>2 DEF PaceIsKept, Running
<1> QED BY <1>5, <1>6, <1>7, <1>8, <1>9, <1>11
-----------------------------------------------------------------------------
(* The session loop                                                        *)

\* What a stage in which the loop is polled says of the tokens.
LEMMA PolledFacts ==
    ASSUME Inv, Polled
    PROVE  /\ stage \in {"racing", "awaiting", "fault"}
           /\ tun_fault <=> stage = "fault"
           /\ ~cancel => stage \in {"racing", "fault"}
  BY DEF Inv, Polled, StagesInOrder

LEMMA OkReturnable ==
    ASSUME Inv, Polled, host # "running"
    PROVE  Returnable(Ok)
<1>1. Ok \in Results
  BY DEF Results
<1> QED BY <1>1 DEF Returnable, Ok, Pending, NoError, is_restart_retriable

LEMMA FaultReturnable ==
    ASSUME Inv, Polled, tun_fault
    PROVE  Returnable(TunFailed("FaultSignalled", "-"))
<1>1. TunFailed("FaultSignalled", "-") \in Results
  BY DEF Results
<1>2. stage = "fault"
  BY PolledFacts
<1> QED BY <1>1, <1>2 DEF Returnable, TunFailed, Ok, Pending, Err, is_restart_retriable

\* The errors of an attempt.
AttemptErrors == AddressErrors \cup TlsErrors \cup {AuthError[i] : i \in DOMAIN AuthError}

LEMMA AuthErrorVariants ==
    \A i \in DOMAIN AuthError : AuthError[i].variant # "ChannelClosed"
  BY DEF AuthError, Err

LEMMA AttemptVariants ==
    ASSUME NEW err \in AttemptErrors
    PROVE  err.variant # "ChannelClosed"
<1>1. CASE err \in AddressErrors
  BY <1>1 DEF AddressErrors, Plain, Err
<1>2. CASE err \in TlsErrors
  BY <1>2 DEF TlsErrors, Plain, Err
<1>3. CASE err \in {AuthError[i] : i \in DOMAIN AuthError}
  BY <1>3, AuthErrorVariants
<1> QED BY <1>1, <1>2, <1>3 DEF AttemptErrors

LEMMA ConnectReturnable ==
    ASSUME Inv, Polled, NEW err \in AttemptErrors, ~is_retriable(err)
    PROVE  Returnable(Failed("Connect", err))
<1>1. Failed("Connect", err) \in Results
  BY DEF Results, AttemptErrors
<1>2. err.variant # "ChannelClosed"
  BY AttemptVariants
<1>3. ~is_restart_retriable(Failed("Connect", err))
  BY DEF is_restart_retriable, Failed
<1> QED BY <1>1, <1>2, <1>3 DEF Returnable, Failed, Ok, Pending

\* A failed attempt.
LEMMA ConnectFailedKeeps ==
    ASSUME Inv, Polled, loop.at \in {"connecting", "authenticating"}, ~tun_fault,
           NEW err, err \in AttemptErrors \/ is_retriable(err), ConnectFailed(err)
    PROVE  Inv'
<1>1. ChannelStep
  BY SameChannel DEF Inv, ConnectFailed, loopFrame, hostVars
<1>2. loop.at \in Running
  BY DEF Running
<1>3. CASE cancel /\ Return(Ok) /\ UNCHANGED events
  <2>1. host # "running"
    BY <1>3, PolledFacts DEF Inv, RequestIsTraced
  <2> QED BY <1>1, <1>2, <1>3, <2>1, OkReturnable, ReturnKeeps DEF ConnectFailed
<1>4. CASE ~is_retriable(err) /\ Return(Failed("Connect", err)) /\ UNCHANGED events
  BY <1>1, <1>2, <1>4, ConnectReturnable, ReturnKeeps DEF ConnectFailed
<1>5. CASE schedule_reconnect(<<Event("ReconnectFailed", 0)>>) /\ UNCHANGED <<stage, result>>
  BY <1>1, <1>5, ScheduleKeeps DEF ConnectFailed
<1> QED BY <1>3, <1>4, <1>5 DEF ConnectFailed

\* The first address that a list of two fails with.
LEMMA StreamErrors ==
    ASSUME NEW a \in AddressErrors \cup {NoError}, NEW b \in AddressErrors \cup {NoError},
           connect_stream(<<a, b>>) # NoError
    PROVE  connect_stream(<<a, b>>) \in AttemptErrors
<1>1. NoError \notin ToSet(<<a, b>>) /\ <<a, b>> # <<>> /\ Last(<<a, b>>) = b
  BY DEF connect_stream, Last
<1>2. b \in ToSet(<<a, b>>)
  BY DEF ToSet
<1>3. connect_stream(<<a, b>>) = b /\ b # NoError
  BY <1>1, <1>2 DEF connect_stream
<1> QED BY <1>3 DEF AttemptErrors

LEMMA ConnectKeeps ==
    ASSUME Inv, Connect
    PROVE  Inv'
<1> USE DEF Inv
<1>1. Polled /\ loop.at = "connecting" /\ ~tun_fault /\ loop.at \in Running
  BY DEF Connect, LoopAt, Running
<1>2. ASSUME NEW a \in AddressErrors \cup {NoError}, NEW b \in AddressErrors \cup {NoError},
             connect_stream(<<a, b>>) # NoError, ConnectFailed(connect_stream(<<a, b>>))
      PROVE  Inv'
  BY <1>1, <1>2, StreamErrors, ConnectFailedKeeps
<1>3. CASE ConnectFailed(connect_stream(<<>>))
  <2>1. is_retriable(connect_stream(<<>>))
    <3>1. NoError \notin ToSet(<<>>)
      BY DEF ToSet
    <3>2. connect_stream(<<>>) = ResolveError
      BY <3>1 DEF connect_stream
    <3> QED BY <3>2 DEF ResolveError, Err, is_retriable
  <2> QED BY <1>1, <1>3, <2>1, ConnectFailedKeeps
<1>4. CASE ConnectFailed(Err("TcpConnectTimeout", "-"))
  <2>1. is_retriable(Err("TcpConnectTimeout", "-"))
    BY DEF Err, is_retriable
  <2> QED BY <1>1, <1>4, <2>1, ConnectFailedKeeps
<1>5. ASSUME NEW err \in TlsErrors, ConnectFailed(err)
      PROVE  Inv'
  <2>1. err \in AttemptErrors
    BY DEF AttemptErrors
  <2> QED BY <1>1, <1>5, <2>1, ConnectFailedKeeps
<1>6. CASE /\ Go("authenticating") /\ emit(<<"ConnectedTcp", "Authenticating">>)
           /\ UNCHANGED <<loopFrame, stage, result, transport>>
  <2> DEFINE kinds == <<"ConnectedTcp", "Authenticating">>
             new == Emitted(kinds)
  <2>1. ChannelStep
    BY <1>6, SameChannel DEF loopFrame, hostVars
  <2>2. /\ loop'.at = "authenticating" /\ loop'.outcome = NoOutcome /\ loop'.attempt = loop.attempt
        /\ loop' \in LoopType /\ loop'.outcome.exit = "-"
    BY <1>6 DEF Go, Types, LoopType, Exits, NoOutcome, Outcome, Running
  <2>3. kinds \in Seq(Kinds) /\ \A k \in DOMAIN kinds : kinds[k] \in {"ConnectedTcp", "Authenticating"}
    BY DEF Kinds
  <2>4. events' = events \o new /\ transport = "Tcp"
    BY <1>1, <1>6 DEF emit, Emitted, EventsInOrder
  <2> HIDE DEF kinds
  <2>5. /\ new \in Seq(EventType)
        /\ \A k \in DOMAIN new : new[k].kind \in {"ConnectedTcp", "Authenticating"} /\ new[k].transport = "Tcp"
    BY <2>3, <2>4, EmittedFacts
  <2> HIDE DEF new
  <2>6. OutcomeIsTraced'
    BY <2>2, TunClosedFacts DEF OutcomeIsTraced
  <2> QED BY <1>1, <1>6, <2>1, <2>2, <2>4, <2>5, <2>6, MoveKeeps DEF Running
<1> QED BY <1>2, <1>3, <1>4, <1>5, <1>6 DEF Connect
\* A move of the loop that emits nothing.
LEMMA QuietMoveKeeps ==
    ASSUME Inv, Polled, ChannelStep, UNCHANGED <<stage, result, events>>,
           loop' \in LoopType, loop.at \in Running, loop'.at \in Running,
           loop'.attempt = loop.attempt,
           transport' \in {"Tcp", "UdpQsp"},
           loop'.at \notin {"connecting", "authenticating", "backoff"},
           loop'.at = "top" => loop.at = "backoff" \/ Logged({"NetworkChanged"}),
           loop'.at \in {"session", "leaving"} => loop'.backoff = ReconnectMin,
           OutcomeIsTraced',
           loop'.outcome.exit = "Shutdown" => host # "running",
           loop'.outcome.exit # "NetworkChanged"
    PROVE  Inv'
<1>1. <<>> \in Seq(EventType) /\ events' = events \o <<>>
  BY ConcatEmptySeq DEF Inv, Types
<1>2. Logged({"NetworkChanged"})' <=> Logged({"NetworkChanged"})
  BY DEF Logged
<1>3. \A k \in DOMAIN <<>> : FALSE
  OBVIOUS
<1> QED BY <1>1, <1>2, <1>3, MoveKeeps

\* A move of the loop that emits one event about a change of network.
LEMMA NetworkMoveKeeps ==
    ASSUME Inv, Polled, ChannelStep, UNCHANGED <<stage, result, transport>>,
           emit(<<"NetworkChanged">>),
           loop' \in LoopType, loop.at \in Running,
           loop'.at \in {"top", "leaving"},
           loop'.attempt = loop.attempt,
           loop'.at = "leaving" => loop'.backoff = ReconnectMin,
           OutcomeIsTraced',
           loop'.outcome.exit # "Shutdown"
    PROVE  Inv'
<1> DEFINE kinds == <<"NetworkChanged">>
           new == Emitted(kinds)
<1>1. kinds \in Seq(Kinds) /\ DOMAIN kinds = {1} /\ kinds[1] = "NetworkChanged"
  BY DEF Kinds
<1>2. events' = events \o new
  BY DEF emit, Emitted
<1> HIDE DEF kinds
<1>3. /\ new \in Seq(EventType) /\ DOMAIN new = {1}
      /\ \A k \in DOMAIN new : new[k].kind = "NetworkChanged"
  BY <1>1, EmittedFacts DEF Inv, Types
<1> HIDE DEF new
<1>4. Logged({"NetworkChanged"})'
  <2>1. events \in Seq(EventType) /\ 1 \in DOMAIN new /\ new[1].kind = "NetworkChanged"
    BY <1>3 DEF Inv, Types
  <2>2. Len(events) + 1 \in DOMAIN events' /\ events'[Len(events) + 1].kind = "NetworkChanged"
    BY <1>2, <1>3, <2>1, LogGrows
  <2> QED BY <2>2 DEF Logged
<1>5. loop'.at \in Running /\ loop'.at \notin {"connecting", "authenticating", "backoff", "session"}
  BY DEF Running
<1>6. transport' \in {"Tcp", "UdpQsp"}
  BY DEF Inv, Types
<1> QED BY <1>2, <1>3, <1>4, <1>5, <1>6, MoveKeeps

\* A step to the head of the loop.
LEMMA GoTop ==
    ASSUME Types, Go("top")
    PROVE  /\ loop' \in LoopType /\ loop'.at = "top" /\ loop'.attempt = loop.attempt
           /\ loop'.outcome = NoOutcome /\ loop'.outcome.exit = "-"
           /\ OutcomeIsTraced'
<1>1. /\ loop' \in LoopType /\ loop'.at = "top" /\ loop'.attempt = loop.attempt
      /\ loop'.outcome = NoOutcome /\ loop'.outcome.exit = "-"
  BY DEF Go, Types, LoopType, Exits, NoOutcome, Outcome, Running
<1> QED BY <1>1, TunClosedFacts DEF OutcomeIsTraced

LEMMA TryConnectKeeps ==
    ASSUME Inv, try_connect
    PROVE  Inv'
<1> USE DEF Inv
<1>1. Polled /\ loop.at = "top" /\ loop.at \in Running
  BY DEF try_connect, LoopAt, Running
<1>2. ChannelStep
  BY SameChannel DEF try_connect, loopFrame, hostVars
<1>3. CASE tun_fault /\ Return(TunFailed("FaultSignalled", "-")) /\ UNCHANGED <<transport, events>>
  BY <1>1, <1>2, <1>3, FaultReturnable, ReturnKeeps
<1>4. CASE cancel /\ Return(Ok) /\ UNCHANGED <<transport, events>>
  <2>1. host # "running"
    BY <1>1, <1>4, PolledFacts DEF RequestIsTraced
  <2> QED BY <1>1, <1>2, <1>4, <2>1, OkReturnable, ReturnKeeps
<1>5. CASE /\ loop.attempt < MaxAttempts
           /\ loop' = [loop EXCEPT !.at = "connecting", !.attempt = @ + 1]
           /\ emit_connecting
           /\ UNCHANGED <<stage, result>>
  <2>1. UNCHANGED <<platform, host, tun_fault, tasks, handles, channels, metrics_task, stage, result>>
    BY <1>2, <1>5 DEF ChannelStep, tunVars
  <2>2. stage \in {"racing", "awaiting", "fault"}
    BY <1>1 DEF Polled
  <2>3. /\ loop'.at = "connecting" /\ loop'.outcome = NoOutcome /\ loop'.outcome.exit = "-"
        /\ loop' \in LoopType
    <3>1. loop.attempt + 1 \in 0..MaxAttempts
      BY <1>5, RuntimeAssumption DEF Types, LoopType
    <3>2. loop.outcome = NoOutcome
      BY <1>1 DEF OutcomeIsTraced
    <3>3. loop \in LoopType /\ NoOutcome.exit = "-"
      BY DEF Types, NoOutcome, Outcome
    <3>4. loop' \in LoopType /\ loop'.at = "connecting" /\ loop'.outcome = loop.outcome
      BY <1>5, <3>1, <3>3 DEF LoopType, Running
    <3> QED BY <3>2, <3>3, <3>4
  <2>4. /\ transport' = "Tcp"
        /\ events' \in Seq(EventType) /\ Len(events') = 1
        /\ events'[1].kind = "Connecting" /\ events'[1].transport = "Tcp"
    BY <1>5 DEF emit_connecting, EventType, Kinds
  <2>5. DOMAIN events' = {1}
    BY <2>4
  <2>6. Types'
    BY <1>2, <2>1, <2>3, <2>4, SameResults DEF Types, ChannelStep
  <2>7. StagesInOrder'
    BY <1>2, <2>1, <2>2, <2>3 DEF StagesInOrder, ChannelStep, Running
  <2>8. TasksInOrder'
    BY <1>2, <2>1, <2>2 DEF TasksInOrder, Finished, Supervising, ChannelStep
  <2>9. RequestIsTraced'
    BY <1>2, <2>1, <2>3 DEF RequestIsTraced, ChannelStep
  <2>10. OutcomeIsTraced'
    BY <2>3, TunClosedFacts DEF OutcomeIsTraced
  <2>11. EventsInOrder'
    BY <2>1, <2>2, <2>4, <2>5 DEF EventsInOrder, EventIsTrue, Terminal
  <2>12. PaceIsKept'
    BY <2>3, <2>4, <2>5 DEF PaceIsKept, BackoffStartsOver
  <2> QED BY <2>6, <2>7, <2>8, <2>9, <2>10, <2>11, <2>12
<1> QED BY <1>3, <1>4, <1>5 DEF try_connect

LEMMA LeaveKeeps ==
    ASSUME Inv, LeaveOnTunFault \/ LeaveOnCancel
    PROVE  Inv'
<1> USE DEF Inv
<1>1. /\ Polled /\ loop.at \in Running
      /\ UNCHANGED <<loopFrame, transport, events>>
  BY DEF LeaveOnTunFault, LeaveOnCancel, LoopAt, Running
<1>2. ChannelStep
  BY <1>1, SameChannel DEF loopFrame, hostVars
<1>3. CASE LeaveOnTunFault
  BY <1>1, <1>2, <1>3, FaultReturnable, ReturnKeeps DEF LeaveOnTunFault
<1>4. CASE LeaveOnCancel
  <2>1. host # "running"
    BY <1>1, <1>4, PolledFacts DEF RequestIsTraced, LeaveOnCancel
  <2> QED BY <1>1, <1>2, <1>4, <2>1, OkReturnable, ReturnKeeps DEF LeaveOnCancel
<1> QED BY <1>3, <1>4
LEMMA AuthenticateKeeps ==
    ASSUME Inv, Authenticate
    PROVE  Inv'
<1> USE DEF Inv
<1>1. Polled /\ loop.at = "authenticating" /\ ~tun_fault /\ loop.at \in Running
  BY DEF Authenticate, LoopAt, Running
<1>2. ASSUME NEW input \in DOMAIN AuthError, ConnectFailed(AuthError[input])
      PROVE  Inv'
  <2>1. AuthError[input] \in AttemptErrors
    BY DEF AttemptErrors
  <2> QED BY <1>1, <1>2, <2>1, ConnectFailedKeeps
<1>3. CASE /\ loop' = [loop EXCEPT !.at = "session", !.backoff = ReconnectMin]
           /\ emit(<<"Authenticated">>)
           /\ UNCHANGED <<loopFrame, stage, result, transport>>
  <2> DEFINE kinds == <<"Authenticated">>
             new == Emitted(kinds)
  <2>1. ChannelStep
    BY <1>3, SameChannel DEF loopFrame, hostVars
  <2>2. /\ loop'.at = "session" /\ loop'.outcome = loop.outcome /\ loop'.attempt = loop.attempt
        /\ loop'.backoff = ReconnectMin /\ loop' \in LoopType
    <3>1. ReconnectMin \in ReconnectMin..ReconnectMax
      BY RuntimeAssumption
    <3> QED BY <1>3, <3>1 DEF Types, LoopType, Running
  <2>3. loop.outcome = NoOutcome /\ loop'.outcome.exit = "-"
    BY <1>1, <2>2 DEF OutcomeIsTraced, NoOutcome, Outcome
  <2>4. kinds \in Seq(Kinds) /\ \A k \in DOMAIN kinds : kinds[k] = "Authenticated"
    BY DEF Kinds
  <2>5. events' = events \o new /\ transport = "Tcp"
    BY <1>1, <1>3 DEF emit, Emitted, EventsInOrder
  <2> HIDE DEF kinds
  <2>6. /\ new \in Seq(EventType)
        /\ \A k \in DOMAIN new : new[k].kind = "Authenticated" /\ new[k].transport = "Tcp"
    BY <2>4, <2>5, EmittedFacts
  <2> HIDE DEF new
  <2>7. OutcomeIsTraced'
    BY <2>2, <2>3, TunClosedFacts DEF OutcomeIsTraced
  <2> QED BY <1>1, <1>3, <2>1, <2>2, <2>3, <2>5, <2>6, <2>7, MoveKeeps DEF Running
<1> QED BY <1>2, <1>3 DEF Authenticate

LEMMA ConnectCommandKeeps ==
    ASSUME Inv, ConnectCommand
    PROVE  Inv'
<1> USE DEF Inv
<1>1. /\ Polled /\ loop.at \in Running
      /\ UNCHANGED <<platform, host, tun_fault, tunVars, transport>>
  BY DEF ConnectCommand, commandFrame, LoopAt, Running
<1>2. CASE /\ Receive("NetworkChanged")
           /\ emit(<<"NetworkChanged">>) /\ Go("top")
           /\ UNCHANGED <<cancel, stage, result>>
  BY <1>1, <1>2, ReceiveStep, GoTop, NetworkMoveKeeps
<1>3. CASE /\ Receive("Stop") \/ Receive("None")
           /\ cancel' = TRUE
           /\ Return(Ok) /\ UNCHANGED events
  <2>1. ChannelStep /\ host # "running"
    BY <1>1, <1>3, ReceiveStep
  <2> QED BY <1>1, <1>3, <2>1, OkReturnable, ReturnKeeps
<1> QED BY <1>2, <1>3 DEF ConnectCommand

LEMMA BackoffKeeps ==
    ASSUME Inv, BackoffEnds \/ BackoffCommand
    PROVE  Inv'
<1> USE DEF Inv
<1>1. Polled /\ loop.at = "backoff" /\ loop.at \in Running /\ Go("top") /\ UNCHANGED <<stage, result, transport>>
  BY DEF BackoffEnds, BackoffCommand, commandFrame, LoopAt, Running
<1>2. transport' \in {"Tcp", "UdpQsp"}
  BY <1>1 DEF Types
<1>3. CASE BackoffEnds
  <2>1. ChannelStep
    BY <1>3, SameChannel DEF BackoffEnds, loopFrame, hostVars
  <2> QED BY <1>1, <1>2, <1>3, <2>1, GoTop, QuietMoveKeeps DEF BackoffEnds, Running
<1>4. CASE BackoffCommand /\ Receive("NetworkChanged") /\ emit(<<"NetworkChanged">>) /\ UNCHANGED cancel
  <2>1. ChannelStep
    BY <1>4, ReceiveStep DEF BackoffCommand, commandFrame
  <2> QED BY <1>1, <1>4, <2>1, GoTop, NetworkMoveKeeps
<1>5. CASE BackoffCommand /\ (Receive("Stop") \/ Receive("None")) /\ cancel' = TRUE /\ UNCHANGED events
  <2>1. ChannelStep
    BY <1>5, ReceiveStep DEF BackoffCommand, commandFrame
  <2> QED BY <1>1, <1>2, <1>5, <2>1, GoTop, QuietMoveKeeps DEF Running
<1> QED BY <1>3, <1>4, <1>5 DEF BackoffCommand

\* The session ends with an outcome.
LEMMA EndSessionKeeps ==
    ASSUME Inv, Polled, loop.at = "session", ChannelStep, UNCHANGED <<stage, result, transport, events>>,
           NEW outcome \in Exits, EndSession(outcome),
           outcome.exit = "Shutdown" => host # "running",
           outcome.exit # "NetworkChanged",
           \A t \in TunTask : outcome.exit = TunClosed[t] => HasFailed(t) \/ cancel,
           outcome.exit = "TunFault" => tun_fault
    PROVE  Inv'
<1> USE DEF Inv
<1>1. /\ loop' \in LoopType /\ loop'.at = "leaving" /\ loop'.outcome = outcome
      /\ loop'.attempt = loop.attempt /\ loop'.backoff = loop.backoff
  BY DEF EndSession, Types, LoopType, Running
<1>2. loop.backoff = ReconnectMin
  BY DEF PaceIsKept
<1>3. OutcomeIsTraced'
  BY <1>1 DEF OutcomeIsTraced, HasFailed, ChannelStep, tunVars
<1>4. transport' \in {"Tcp", "UdpQsp"}
  BY DEF Types
<1> QED BY <1>1, <1>2, <1>3, <1>4, QuietMoveKeeps DEF Running

LEMMA SwitchTransportKeeps ==
    ASSUME Inv, SwitchTransport
    PROVE  Inv'
<1> USE DEF Inv
<1>1. /\ Polled /\ loop.at = "session" /\ loop.at \in Running
      /\ UNCHANGED <<loopFrame, stage, loop, result, events>>
      /\ transport' \in {"Tcp", "UdpQsp"}
  BY DEF SwitchTransport, LoopAt, Running
<1>2. ChannelStep
  BY <1>1, SameChannel DEF loopFrame, hostVars
<1>3. OutcomeIsTraced' /\ loop'.outcome = NoOutcome /\ loop'.outcome.exit = "-"
  <2>1. loop'.outcome = NoOutcome /\ NoOutcome.exit = "-"
    BY <1>1 DEF OutcomeIsTraced, NoOutcome, Outcome
  <2> QED BY <2>1, TunClosedFacts DEF OutcomeIsTraced
<1>4. loop' \in LoopType /\ loop.backoff = ReconnectMin
  BY <1>1 DEF Types, PaceIsKept
<1> QED BY <1>1, <1>2, <1>3, <1>4, QuietMoveKeeps
LEMMA SessionSignalledKeeps ==
    ASSUME Inv, SessionSignalled
    PROVE  Inv'
<1> USE DEF Inv
<1> DEFINE outcome == Outcome(IF tun_fault THEN "TunFault" ELSE "Shutdown", NoError)
<1>1. /\ Polled /\ loop.at = "session" /\ (tun_fault \/ cancel) /\ EndSession(outcome)
      /\ UNCHANGED <<loopFrame, stage, result, transport, events>>
  BY DEF SessionSignalled, LoopAt
<1>2. ChannelStep
  BY <1>1, SameChannel DEF loopFrame, hostVars
<1>3. outcome \in Exits /\ outcome.exit = IF tun_fault THEN "TunFault" ELSE "Shutdown"
  BY DEF Exits, Outcome
<1>4. cancel => host # "running"
  BY <1>1, PolledFacts DEF RequestIsTraced
<1>5. \A t \in TunTask : outcome.exit # TunClosed[t]
  BY <1>3, TunClosedFacts
<1> HIDE DEF outcome
<1> QED BY <1>1, <1>2, <1>3, <1>4, <1>5, EndSessionKeeps

\* The outcomes of a session that ends by itself.
LEMMA OutcomeExits ==
    ASSUME NEW outcome \in Outcomes
    PROVE  /\ outcome \in Exits
           /\ outcome.exit \in BareExits \cup {"PermissionDenied", "ProtocolError"}
<1>1. \A e \in SessionErrors :
        exit_of(e) \in {"UdpUpgradeRequired", "PermissionDenied", "ConnectionError", "ProtocolError"}
  BY DEF exit_of
<1>2. CASE outcome \in {Outcome(e, NoError) : e \in BareExits}
  <2>1. PICK e \in BareExits : outcome = Outcome(e, NoError)
    BY <1>2
  <2>2. outcome.exit = e
    BY <2>1 DEF Outcome
  <2> QED BY <2>2 DEF Exits
<1>3. CASE outcome \in {Outcome(exit_of(e), e) : e \in SessionErrors}
  <2>1. PICK e \in SessionErrors : outcome = Outcome(exit_of(e), e)
    BY <1>3
  <2>2. outcome.exit = exit_of(e)
    BY <2>1 DEF Outcome
  <2> QED BY <1>1, <2>2 DEF BareExits, Exits
<1> QED BY <1>2, <1>3 DEF Outcomes

LEMMA SessionEndsKeeps ==
    ASSUME Inv, SessionEnds
    PROVE  Inv'
<1> USE DEF Inv
<1>1. PICK outcome \in Outcomes : EndSession(outcome)
  BY DEF SessionEnds
<1>2. Polled /\ loop.at = "session" /\ UNCHANGED <<loopFrame, stage, result, transport, events>>
  BY DEF SessionEnds, LoopAt
<1>3. ChannelStep
  BY <1>2, SameChannel DEF loopFrame, hostVars
<1>4. /\ outcome \in Exits
      /\ outcome.exit \notin {"Shutdown", "NetworkChanged", "TunFault", "TunClosed Reader", "TunClosed Writer"}
  BY OutcomeExits DEF BareExits
<1>5. \A t \in TunTask : outcome.exit # TunClosed[t]
  BY <1>4, TunClosedFacts
<1> QED BY <1>1, <1>2, <1>3, <1>4, <1>5, EndSessionKeeps

LEMMA SessionLosesTunKeeps ==
    ASSUME Inv, NEW task \in TunTask, SessionLosesTun(task)
    PROVE  Inv'
<1> USE DEF Inv
<1> DEFINE outcome == Outcome(TunClosed[task], NoError)
<1>1. /\ Polled /\ loop.at = "session" /\ ~tun_fault /\ ~cancel /\ tasks[task] # "running"
      /\ EndSession(outcome)
      /\ UNCHANGED <<loopFrame, stage, result, transport, events>>
  BY DEF SessionLosesTun, LoopAt
<1>2. ChannelStep
  BY <1>1, SameChannel DEF loopFrame, hostVars
<1>3. outcome.exit = TunClosed[task] /\ outcome.exit \in {"TunClosed Reader", "TunClosed Writer"}
  BY TunClosedFacts DEF Outcome
<1>4. outcome \in Exits
  BY TunClosedFacts DEF Exits, Outcome
<1>5. stage = "racing"
  BY <1>1, PolledFacts
<1>6. HasFailed(task)
  BY <1>1, <1>5 DEF HasFailed, TasksInOrder, Types, Supervising, TaskStates
<1>7. \A t \in TunTask : TunClosed[t] = TunClosed[task] => t = task
  BY TunClosedFacts DEF TunTask
<1> HIDE DEF outcome
<1> QED BY <1>1, <1>2, <1>3, <1>4, <1>6, <1>7, EndSessionKeeps

LEMMA SessionCommandKeeps ==
    ASSUME Inv, SessionCommand
    PROVE  Inv'
<1> USE DEF Inv
<1>1. /\ Polled /\ loop.at = "session" /\ loop.at \in Running
      /\ UNCHANGED <<platform, host, tun_fault, tunVars, stage, result>>
  BY DEF SessionCommand, LoopAt, Running
<1> DEFINE stopped == Outcome("Shutdown", NoError)
           changed == Outcome("NetworkChanged", NoError)
<1>2. /\ stopped \in Exits /\ stopped.exit = "Shutdown"
      /\ changed \in Exits /\ changed.exit = "NetworkChanged"
  BY DEF Exits, Outcome
<1>3. \A t \in TunTask : TunClosed[t] \notin {"Shutdown", "NetworkChanged"}
  BY TunClosedFacts
<1> HIDE DEF stopped, changed
<1>4. CASE /\ Receive("Stop") /\ cancel' = TRUE
           /\ EndSession(stopped) /\ UNCHANGED <<transport, events>>
  <2>1. ChannelStep /\ host # "running"
    BY <1>1, <1>4, ReceiveStep
  <2> QED BY <1>1, <1>2, <1>3, <1>4, <2>1, EndSessionKeeps
<1>5. CASE /\ host = "dropped" /\ EndSession(stopped)
           /\ UNCHANGED <<commands, control_rx, cancel, transport, events>>
  <2>1. ChannelStep /\ host # "running"
    BY <1>1, <1>5, SameChannel
  <2> QED BY <1>1, <1>2, <1>3, <1>5, <2>1, EndSessionKeeps
<1>6. CASE /\ Receive("NetworkChanged") /\ EndSession(changed)
           /\ emit(<<"NetworkChanged">>) /\ UNCHANGED <<cancel, transport>>
  <2>1. ChannelStep
    BY <1>1, <1>6, ReceiveStep
  <2>2. /\ loop' \in LoopType /\ loop'.at = "leaving" /\ loop'.outcome = changed
        /\ loop'.attempt = loop.attempt /\ loop'.backoff = loop.backoff
    BY <1>2, <1>6 DEF EndSession, Types, LoopType, Running
  <2>3. loop.backoff = ReconnectMin
    BY <1>1 DEF PaceIsKept
  <2>4. OutcomeIsTraced'
    BY <1>2, <1>3, <2>2 DEF OutcomeIsTraced
  <2> QED BY <1>1, <1>2, <1>6, <2>1, <2>2, <2>3, <2>4, NetworkMoveKeeps
<1>7. CASE /\ Receive("NetworkChanged")
           /\ transport' \in {"Tcp", "UdpQsp"}
           /\ UNCHANGED <<cancel, loop, events>>
  <2>1. ChannelStep
    BY <1>1, <1>7, ReceiveStep
  <2>2. loop'.outcome = NoOutcome /\ NoOutcome.exit = "-"
    BY <1>1, <1>7 DEF OutcomeIsTraced, NoOutcome, Outcome
  <2>3. OutcomeIsTraced'
    BY <2>2, TunClosedFacts DEF OutcomeIsTraced
  <2>4. loop' \in LoopType /\ loop.backoff = ReconnectMin
    BY <1>1, <1>7 DEF Types, PaceIsKept
  <2> QED BY <1>1, <1>7, <2>1, <2>2, <2>3, <2>4, QuietMoveKeeps
<1> QED BY <1>4, <1>5, <1>6, <1>7 DEF SessionCommand, stopped, changed
\* The error of an outcome is the one that its exit was computed from.
LEMMA OutcomeErrors ==
    ASSUME NEW outcome \in Exits
    PROVE  \/ outcome.error = NoError
           \/ outcome.error \in SessionErrors /\ outcome.exit = exit_of(outcome.error)
<1>1. \A x, y : Outcome(x, y).exit = x /\ Outcome(x, y).error = y
  BY DEF Outcome
<1>2. CASE outcome \in {Outcome(exit_of(e), e) : e \in SessionErrors}
  <2>1. PICK e \in SessionErrors : outcome = Outcome(exit_of(e), e)
    BY <1>2
  <2>2. outcome.exit = exit_of(e) /\ outcome.error = e
    BY <1>1, <2>1
  <2> QED BY <2>2
<1>3. CASE outcome \notin {Outcome(exit_of(e), e) : e \in SessionErrors}
  <2>1. \E x : outcome = Outcome(x, NoError)
    BY <1>3 DEF Exits, Outcomes, NoOutcome
  <2> QED BY <1>1, <2>1
<1> QED BY <1>2, <1>3

LEMMA SessionReturnable ==
    ASSUME Inv, Polled, NEW err \in SessionErrors, exit_of(err) # "ConnectionError"
    PROVE  Returnable(Failed("Session", err))
<1>1. Failed("Session", err) \in Results
  BY DEF Results
<1>2. err.variant # "ChannelClosed"
  BY DEF SessionErrors, Plain, Err
<1>3. ~is_restart_retriable(Failed("Session", err))
  BY DEF is_restart_retriable, Failed
<1> QED BY <1>1, <1>2, <1>3 DEF Returnable, Failed, Ok, Pending

\* What handle_session_exit returns from a session that has ended.
LEMMA ExitReturnable ==
    ASSUME Inv, Polled, loop.at = "leaving", handle_session_exit(loop.outcome) # Pending
    PROVE  Returnable(handle_session_exit(loop.outcome))
<1> USE DEF Inv
<1> DEFINE o == loop.outcome
           r == handle_session_exit(o)
<1>0. o \in Exits
  BY DEF Types, LoopType
<1>1. CASE cancel
  <2>1. r = Ok /\ host # "running"
    BY <1>1, PolledFacts DEF handle_session_exit, RequestIsTraced
  <2> QED BY <2>1, OkReturnable
<1>2. CASE ~cancel /\ o.exit = "Shutdown"
  <2>1. r = Ok /\ host # "running"
    BY <1>2 DEF handle_session_exit, exit_action, RequestIsTraced
  <2> QED BY <2>1, OkReturnable
<1>3. CASE ~cancel /\ o.exit = "TunFault"
  <2>1. r = TunFailed("FaultSignalled", "-") /\ tun_fault
    BY <1>3 DEF handle_session_exit, exit_action, OutcomeIsTraced
  <2> QED BY <2>1, FaultReturnable
<1>4. ASSUME ~cancel, NEW task \in TunTask, o.exit = TunClosed[task], stage # "fault"
      PROVE  Returnable(TunFailed("ChannelClosed", task))
  <2>1. HasFailed(task)
    BY <1>4 DEF OutcomeIsTraced
  <2>2. stage = "racing"
    BY <1>4, PolledFacts
  <2>3. TunFailed("ChannelClosed", task) \in Results
    BY DEF Results
  <2> QED BY <2>1, <2>2, <2>3 DEF Returnable, TunFailed, Err, Ok, Pending, is_restart_retriable
<1>5. ASSUME NEW task \in TunTask, stage = "fault"
      PROVE  Returnable(TunFailed("ChannelClosed", task))
  <2>1. TunFailed("ChannelClosed", task) \in Results
    BY DEF Results
  <2> QED BY <1>5, <2>1 DEF Returnable, TunFailed, Err, Ok, Pending, is_restart_retriable
<1>6. CASE ~cancel /\ o.exit = "TunClosed Reader"
  <2>1. r = TunFailed("ChannelClosed", "Reader") /\ o.exit = TunClosed["Reader"] /\ "Reader" \in TunTask
    BY <1>6, TunClosedFacts DEF handle_session_exit, exit_action, TunTask
  <2> QED BY <1>4, <1>5, <1>6, <2>1
<1>7. CASE ~cancel /\ o.exit = "TunClosed Writer"
  <2>1. r = TunFailed("ChannelClosed", "Writer") /\ o.exit = TunClosed["Writer"] /\ "Writer" \in TunTask
    BY <1>7, TunClosedFacts DEF handle_session_exit, exit_action, TunTask
  <2> QED BY <1>4, <1>5, <1>7, <2>1
<1>8. CASE ~cancel /\ o.exit \in {"ProtocolError", "PermissionDenied", "UdpUpgradeRequired"}
  <2> DEFINE e == IF o.error # NoError THEN o.error ELSE Err("UdpUpgradeRequired", "-")
  <2>1. r = Failed("Session", e)
    BY <1>8 DEF handle_session_exit, exit_action
  <2>2. CASE o.error = NoError
    <3>1. e = Err("UdpUpgradeRequired", "-") /\ e \in SessionErrors
      BY <2>2 DEF SessionErrors, Plain
    <3>2. exit_of(e) # "ConnectionError"
      BY <3>1 DEF exit_of, Err
    <3> QED BY <2>1, <3>1, <3>2, SessionReturnable
  <2>3. CASE o.error # NoError
    <3>1. e = o.error /\ e \in SessionErrors /\ exit_of(e) = o.exit
      BY <1>0, <2>3, OutcomeErrors
    <3> QED BY <1>8, <2>1, <3>1, SessionReturnable
  <2> QED BY <2>2, <2>3
<1>9. CASE /\ ~cancel
           /\ o.exit \notin {"Shutdown", "TunFault", "TunClosed Reader", "TunClosed Writer",
                             "ProtocolError", "PermissionDenied", "UdpUpgradeRequired"}
  BY <1>9 DEF handle_session_exit, exit_action
<1> QED BY <1>1, <1>2, <1>3, <1>6, <1>7, <1>8, <1>9

LEMMA SessionReturnsKeeps ==
    ASSUME Inv, SessionReturns
    PROVE  Inv'
<1> USE DEF Inv
<1> DEFINE r == handle_session_exit(loop.outcome)
<1>1. Polled /\ loop.at = "leaving" /\ loop.at \in Running /\ UNCHANGED <<loopFrame, transport>>
  BY DEF SessionReturns, LoopAt, Running
<1>2. ChannelStep
  BY <1>1, SameChannel DEF loopFrame, hostVars
<1>3. CASE r # Pending /\ Return(r) /\ UNCHANGED events
  BY <1>1, <1>2, <1>3, ExitReturnable, ReturnKeeps
<1>4. CASE UNCHANGED <<stage, result, events>> /\ loop.outcome.exit = "NetworkChanged" /\ Go("top")
  <2>1. Logged({"NetworkChanged"}) /\ transport' \in {"Tcp", "UdpQsp"}
    BY <1>1, <1>4 DEF PaceIsKept, Types
  <2> QED BY <1>1, <1>2, <1>4, <2>1, GoTop, QuietMoveKeeps DEF Running
<1>5. CASE UNCHANGED <<stage, result>> /\ schedule_reconnect(<<>>)
  BY <1>1, <1>2, <1>5, ScheduleKeeps
<1> QED BY <1>3, <1>4, <1>5 DEF SessionReturns

LEMMA LoopKeeps ==
    ASSUME Inv, LoopNext
    PROVE  Inv'
  BY TryConnectKeeps, LeaveKeeps, ConnectKeeps, AuthenticateKeeps, ConnectCommandKeeps,
     BackoffKeeps, SwitchTransportKeeps, SessionSignalledKeeps, SessionEndsKeeps,
     SessionCommandKeeps, SessionReturnsKeeps, SessionLosesTunKeeps DEF LoopNext
-----------------------------------------------------------------------------
(* The host, the TUN tasks and the metrics task                            *)

LEMMA HostKeeps ==
    ASSUME Inv, HostNext
    PROVE  Inv'
<1> USE DEF Inv
<1>1. /\ UNCHANGED <<platform, control_rx, tun_fault, tasks, handles, channels, metrics_task,
                     stage, loop, result, transport, events>>
      /\ host' \in Hosts
      /\ host # "running" => host' # "running"
  BY DEF HostNext, NetworkChanged, SendStop, CancelToken, DropSender, CtrlC, tunVars, Types, Hosts
<1>2. cancel' = cancel \/ (cancel' = TRUE /\ host' # "running")
  BY DEF HostNext, NetworkChanged, SendStop, CancelToken, DropSender, CtrlC
<1>3. /\ commands' \in Seq(Commands) /\ Len(commands') <= MaxCommands
      /\ \A i \in DOMAIN commands' :
            \/ i \in DOMAIN commands /\ commands'[i] = commands[i]
            \/ commands'[i] = "Stop" => host' # "running"
  <2>1. CASE commands' = commands
    BY <2>1 DEF Types
  <2>2. ASSUME NEW c \in Commands, Len(commands) < MaxCommands, commands' = Append(commands, c),
               c = "Stop" => host' # "running"
        PROVE  <1>3!1
    <3>1. /\ commands' \in Seq(Commands) /\ Len(commands') = Len(commands) + 1
          /\ \A i \in DOMAIN commands' :
                (i \in DOMAIN commands /\ commands'[i] = commands[i]) \/ commands'[i] = c
      BY <2>2 DEF Types
    <3>2. Len(commands) \in Nat /\ MaxCommands \in Nat
      BY RuntimeAssumption DEF Types
    <3> QED BY <2>2, <3>1, <3>2
  <2> QED BY <2>1, <2>2 DEF HostNext, NetworkChanged, SendStop, CancelToken, DropSender, CtrlC, Commands
<1>4. cancel' \in BOOLEAN /\ (cancel => cancel')
  BY <1>2 DEF Types
<1>5. Types'
  BY <1>1, <1>3, <1>4, SameResults DEF Types
<1>6. StagesInOrder'
  BY <1>1, <1>4 DEF StagesInOrder, HasFailed
<1>7. TasksInOrder'
  BY <1>1, <1>4 DEF TasksInOrder, Finished
<1>8. RequestIsTraced'
  BY <1>1, <1>2, <1>3 DEF RequestIsTraced
<1>9. OutcomeIsTraced'
  BY <1>1, <1>4 DEF OutcomeIsTraced, HasFailed
<1>10. EventsInOrder'
  BY <1>1 DEF EventsInOrder, EventIsTrue
<1>11. PaceIsKept'
  BY <1>1 DEF PaceIsKept, Logged, BackoffStartsOver
<1> QED BY <1>5, <1>6, <1>7, <1>8, <1>9, <1>10, <1>11

\* A TUN task changes from one state to another, in the order of its life.
LEMMA TaskStepKeeps ==
    ASSUME Inv, NEW task \in TunTask, NEW how \in TaskStates \ {"unborn", "running"},
           tasks[task] # "unborn", ~Finished(task),
           tasks' = [tasks EXCEPT ![task] = how], UNCHANGED taskFrame,
           how \in {"ok", "exited ok"} => cancel,
           HasFailed(task) => how \in {"exited io", "exited panic"}
    PROVE  Inv'
<1> USE DEF Inv
<1>1. UNCHANGED <<platform, host, commands, control_rx, cancel, tun_fault, handles, channels,
                  metrics_task, stage, loop, result, transport, events>>
  BY DEF taskFrame, hostVars
<1>2. /\ tasks' \in [TunTask -> TaskStates] /\ tasks'[task] = how
      /\ \A t \in TunTask : t # task => tasks'[t] = tasks[t]
  BY DEF Types
<1>3. \A t \in TunTask : HasFailed(t) => HasFailed(t)'
  BY <1>2 DEF HasFailed
<1>4. \A t \in TunTask : Finished(t) => Finished(t)'
  BY <1>2 DEF Finished
<1>5. stage \in Supervising
  BY DEF TasksInOrder, StagesInOrder, Supervising, Types, Stages
<1>6. Types'
  BY <1>1, <1>2, SameResults DEF Types
<1>7. StagesInOrder'
  <2>1. stage = "resolving" => HasFailed(result.task)'
    BY <1>1, <1>3 DEF StagesInOrder, HasFailed
  <2> QED BY <1>1, <2>1 DEF StagesInOrder, HasFailed
<1>8. TasksInOrder'
  BY <1>1, <1>2, <1>4, <1>5 DEF TasksInOrder, Supervising
<1>9. RequestIsTraced'
  BY <1>1 DEF RequestIsTraced
<1>10. OutcomeIsTraced'
  BY <1>1, <1>3 DEF OutcomeIsTraced
<1>11. EventsInOrder'
  BY <1>1 DEF EventsInOrder, EventIsTrue
<1>12. PaceIsKept'
  BY <1>1 DEF PaceIsKept, Logged, BackoffStartsOver
<1> QED BY <1>6, <1>7, <1>8, <1>9, <1>10, <1>11, <1>12

\* A task ends regularly only when it was told to.
LEMMA TaskEndsKeeps ==
    ASSUME Inv, NEW task \in TunTask, NEW how \in {"ok", "io", "panic"}, TunTaskEnds(task, how),
           how = "ok" => cancel \/ ~channels
    PROVE  Inv'
<1>1. tasks[task] = "running" /\ ~Finished(task) /\ ~HasFailed(task)
  BY DEF TunTaskEnds, Finished, HasFailed
<1>2. stage \in Supervising
  BY <1>1 DEF Inv, TasksInOrder, StagesInOrder, Supervising, Types, Stages
<1>3. ~channels => cancel
  BY <1>2 DEF Inv, StagesInOrder, Supervising
<1>4. how \in TaskStates \ {"unborn", "running"}
  BY DEF TaskStates
<1> QED BY <1>1, <1>3, <1>4, TaskStepKeeps DEF TunTaskEnds

LEMMA JoinableKeeps ==
    ASSUME Inv, NEW task \in TunTask, TunTaskJoinable(task)
    PROVE  Inv'
<1> DEFINE how == Joinable[tasks[task]]
<1>1. tasks[task] \in {"ok", "io", "panic"} /\ ~Finished(task)
  BY DEF TunTaskJoinable, Finished
<1>2. Joinable["ok"] = "exited ok" /\ Joinable["io"] = "exited io" /\ Joinable["panic"] = "exited panic"
  BY DEF Joinable
<1>3. how \in TaskStates \ {"unborn", "running"}
  BY <1>1, <1>2 DEF TaskStates
<1>4. how = "exited ok" => cancel
  BY <1>1, <1>2 DEF Inv, TasksInOrder
<1>5. how # "ok" /\ (HasFailed(task) => how \in {"exited io", "exited panic"})
  BY <1>1, <1>2 DEF HasFailed
<1>6. tasks' = [tasks EXCEPT ![task] = how]
  BY DEF TunTaskJoinable
<1> HIDE DEF how
<1> QED BY <1>1, <1>3, <1>4, <1>5, <1>6, TaskStepKeeps DEF TunTaskJoinable

LEMMA MetricsTaskEndsKeeps ==
    ASSUME Inv, MetricsTaskEnds
    PROVE  Inv'
<1> USE DEF Inv
<1>1. /\ UNCHANGED <<platform, host, commands, control_rx, cancel, tun_fault, tasks, handles, channels,
                     stage, loop, result, transport, events>>
      /\ metrics_task' = FALSE
  BY DEF MetricsTaskEnds, hostVars
<1>2. Types'
  BY <1>1, SameResults DEF Types
<1>3. StagesInOrder'
  BY <1>1 DEF StagesInOrder, HasFailed
<1>4. TasksInOrder'
  BY <1>1 DEF TasksInOrder, Finished
<1>5. RequestIsTraced' /\ OutcomeIsTraced'
  BY <1>1 DEF RequestIsTraced, OutcomeIsTraced, HasFailed
<1>6. EventsInOrder'
  BY <1>1 DEF EventsInOrder, EventIsTrue
<1>7. PaceIsKept'
  BY <1>1 DEF PaceIsKept, Logged, BackoffStartsOver
<1> QED BY <1>2, <1>3, <1>4, <1>5, <1>6, <1>7

LEMMA TasksKeep ==
    ASSUME Inv, TaskNext
    PROVE  Inv'
<1>1. CASE run_tun_reader
  BY <1>1, TaskEndsKeeps DEF run_tun_reader, TunTask
<1>2. CASE run_tun_writer
  BY <1>2, TaskEndsKeeps DEF run_tun_writer, TunTask
<1>3. ASSUME NEW t \in TunTask, TunTaskPanics(t) \/ TunTaskJoinable(t)
      PROVE  Inv'
  BY <1>3, TaskEndsKeeps, JoinableKeeps DEF TunTaskPanics
<1> QED BY <1>1, <1>2, <1>3, MetricsTaskEndsKeeps DEF TaskNext
-----------------------------------------------------------------------------
(* The supervisor                                                          *)

LEMMA SpawnTunKeeps ==
    ASSUME Inv, SpawnTun
    PROVE  Inv'
<1> USE DEF Inv
<1>1. /\ UNCHANGED <<platform, host, commands, control_rx, cancel, tun_fault, metrics_task,
                     loop, result, transport, events>>
      /\ stage = "setup" /\ stage' = "ready" /\ handles' = TunTask /\ channels' = TRUE
      /\ tasks' \in [TunTask -> TaskStates] /\ \A t \in TunTask : tasks'[t] = "running"
  BY DEF SpawnTun, hostVars, TaskStates
<1>2. Types'
  BY <1>1, SameResults DEF Types, Stages
<1>3. StagesInOrder'
  BY <1>1 DEF StagesInOrder
<1>4. TasksInOrder'
  BY <1>1 DEF TasksInOrder, Supervising, StagesInOrder
<1>5. RequestIsTraced'
  BY <1>1 DEF RequestIsTraced
<1>6. OutcomeIsTraced'
  <2>1. loop'.outcome = NoOutcome /\ NoOutcome.exit = "-"
    BY <1>1 DEF OutcomeIsTraced, StagesInOrder, NoOutcome, Outcome
  <2> QED BY <2>1, TunClosedFacts DEF OutcomeIsTraced
<1>7. EventsInOrder'
  BY <1>1 DEF EventsInOrder, EventIsTrue, StagesInOrder
<1>8. PaceIsKept'
  BY <1>1 DEF PaceIsKept, Logged, BackoffStartsOver
<1> QED BY <1>2, <1>3, <1>4, <1>5, <1>6, <1>7, <1>8

LEMMA SpawnTunFailsKeeps ==
    ASSUME Inv, SpawnTunFails
    PROVE  Inv'
<1> USE DEF Inv
<1>1. /\ UNCHANGED <<platform, host, commands, control_rx, cancel, tun_fault, tasks, handles, channels,
                     metrics_task, loop, transport, events>>
      /\ stage = "setup" /\ stage' = "done" /\ result' = Failed("Setup", NoError)
  BY DEF SpawnTunFails, hostVars, tunVars
<1>2. /\ result' \in Results /\ result'.of = "Setup" /\ result' # Pending /\ result' # Ok
      /\ ~is_restart_retriable(result')
  BY <1>1 DEF Results, Failed, Pending, Ok, is_restart_retriable
<1>3. Types'
  BY <1>1, <1>2, SameResults DEF Types, Stages
<1>4. StagesInOrder'
  BY <1>1, <1>2 DEF StagesInOrder, Running
<1>5. TasksInOrder'
  BY <1>1, <1>2 DEF TasksInOrder, Supervising, StagesInOrder
<1>6. RequestIsTraced'
  BY <1>1, <1>2 DEF RequestIsTraced
<1>7. OutcomeIsTraced'
  BY <1>1 DEF OutcomeIsTraced, HasFailed
<1>8. EventsInOrder'
  BY <1>1, <1>2 DEF EventsInOrder, EventIsTrue, StagesInOrder
<1>9. PaceIsKept'
  BY <1>1 DEF PaceIsKept, Logged, BackoffStartsOver
<1> QED BY <1>3, <1>4, <1>5, <1>6, <1>7, <1>8, <1>9

\* The log of a host that learns of a failure before the runtime has reported anything.
LEMMA FirstEvent ==
    ASSUME NEW e \in EventType, NEW s \in Seq(EventType), s = <<>>
    PROVE  /\ s \o <<e>> = <<e>> /\ Append(s, e) = <<e>>
           /\ <<e>> \in Seq(EventType) /\ <<e>> # <<>> /\ Len(<<e>>) = 1
           /\ DOMAIN <<e>> = {1} /\ <<e>>[1] = e /\ Last(<<e>>) = e
<1>1. s \o <<e>> = <<e>>
  BY ShortLogs
<1>2. Append(s, e) = <<e>>
  BY <1>1, AppendIsConcat
<1>3. <<e>> \in Seq(EventType) /\ <<e>> # <<>> /\ Len(<<e>>) = 1 /\ DOMAIN <<e>> = {1} /\ <<e>>[1] = e
  OBVIOUS
<1> QED BY <1>1, <1>2, <1>3 DEF Last

LEMMA WorkerPanicsKeeps ==
    ASSUME Inv, WorkerPanics
    PROVE  Inv'
<1> USE DEF Inv
<1> DEFINE e == Event("Error", 1)
<1>1. /\ UNCHANGED <<platform, host, commands, control_rx, cancel, tun_fault, tasks, handles, channels,
                     metrics_task, loop, result, transport>>
      /\ stage = "setup" /\ stage' = "returned" /\ events' = Append(events, e)
      /\ events = <<>> /\ result = Pending
  BY DEF WorkerPanics, hostVars, tunVars, StagesInOrder
<1>2. e \in EventType /\ e.kind = "Error"
  BY EventFacts DEF Types, Kinds
<1> HIDE DEF e
<1>3. /\ events' \in Seq(EventType) /\ events' # <<>> /\ Len(events') = 1 /\ DOMAIN events' = {1}
      /\ events'[1] = e /\ Last(events') = e
  BY <1>1, <1>2, FirstEvent DEF Types
<1>4. Types'
  BY <1>1, <1>3, SameResults DEF Types, Stages
<1>5. StagesInOrder'
  BY <1>1 DEF StagesInOrder, Running
<1>6. TasksInOrder'
  <2>1. result.of # "Tun"
    BY <1>1 DEF Pending
  <2> QED BY <1>1, <2>1 DEF TasksInOrder, Supervising, StagesInOrder
<1>7. RequestIsTraced'
  BY <1>1 DEF RequestIsTraced
<1>8. OutcomeIsTraced'
  BY <1>1 DEF OutcomeIsTraced, HasFailed
<1>9. EventsInOrder'
  BY <1>1, <1>2, <1>3 DEF EventsInOrder, EventIsTrue, Terminal, StagesInOrder
<1>10. PaceIsKept'
  <2>1. loop.outcome = NoOutcome /\ NoOutcome.exit = "-" /\ loop.at = "idle"
    BY <1>1 DEF OutcomeIsTraced, StagesInOrder, NoOutcome, Outcome
  <2> QED BY <1>1, <1>2, <1>3, <2>1 DEF PaceIsKept, BackoffStartsOver
<1> QED BY <1>4, <1>5, <1>6, <1>7, <1>8, <1>9, <1>10

LEMMA HostReturnsKeeps ==
    ASSUME Inv, HostReturns
    PROVE  Inv'
<1> USE DEF Inv
<1>1. /\ UNCHANGED <<platform, host, commands, control_rx, cancel, tun_fault, tasks, handles, channels,
                     metrics_task, loop, result, transport>>
      /\ stage = "done" /\ stage' = "returned"
  BY DEF HostReturns, hostVars, tunVars
<1>2. StagesInOrder'
  BY <1>1 DEF StagesInOrder, Running
<1>3. TasksInOrder'
  BY <1>1 DEF TasksInOrder, Supervising, Finished
<1>4. RequestIsTraced' /\ OutcomeIsTraced'
  BY <1>1 DEF RequestIsTraced, OutcomeIsTraced, HasFailed
<1>5. CASE platform = "android" /\ result.of = "Setup" /\ emit(<<"Error">>)
  <2> DEFINE e == Event("Error", 0)
  <2>1. e \in EventType /\ e.kind = "Error" /\ e.n = 0
    BY EventFacts DEF Types, Kinds
  <2>2. events' = events \o <<e>> /\ events = <<>>
    <3>1. [i \in DOMAIN <<"Error">> |-> Event(<<"Error">>[i], 0)] = <<e>>
      OBVIOUS
    <3> QED BY <1>1, <1>5, <3>1 DEF emit, EventsInOrder
  <2> HIDE DEF e
  <2>3. /\ events' \in Seq(EventType) /\ events' # <<>> /\ Len(events') = 1 /\ DOMAIN events' = {1}
        /\ events'[1] = e /\ Last(events') = e
    BY <2>1, <2>2, FirstEvent DEF Types
  <2>4. Types'
    BY <1>1, <2>3, SameResults DEF Types, Stages
  <2>5. EventsInOrder'
    BY <1>1, <2>1, <2>3 DEF EventsInOrder, EventIsTrue, Terminal
  <2>6. PaceIsKept'
    BY <1>1, <2>1, <2>2, <2>3 DEF PaceIsKept, BackoffStartsOver, Logged
  <2> QED BY <1>2, <1>3, <1>4, <2>4, <2>5, <2>6
<1>6. CASE ~(platform = "android" /\ result.of = "Setup") /\ UNCHANGED events
  <2>1. Types'
    BY <1>1, <1>6, SameResults DEF Types, Stages
  <2>2. EventsInOrder'
    BY <1>1, <1>6 DEF EventsInOrder, EventIsTrue
  <2>3. PaceIsKept'
    BY <1>1, <1>6 DEF PaceIsKept, BackoffStartsOver, Logged
  <2> QED BY <1>2, <1>3, <1>4, <2>1, <2>2, <2>3
<1> QED BY <1>5, <1>6 DEF HostReturns

LEMMA RunClientKeeps ==
    ASSUME Inv, RunClient
    PROVE  Inv'
<1> USE DEF Inv
<1> DEFINE kinds == <<"Starting", "TunReady">>
           new == Emitted(kinds)
<1>1. /\ UNCHANGED <<platform, host, commands, control_rx, cancel, tun_fault, tasks, handles, channels,
                     result, transport>>
      /\ stage = "ready" /\ stage' = "racing" /\ metrics_task' = TRUE
      /\ Go("top") /\ events' = events \o new /\ events = <<>>
  BY DEF RunClient, hostVars, emit, Emitted, StagesInOrder
<1>2. kinds \in Seq(Kinds) /\ \A k \in DOMAIN kinds : kinds[k] \in {"Starting", "TunReady"}
  BY DEF Kinds
<1> HIDE DEF kinds
<1>3. new \in Seq(EventType) /\ \A k \in DOMAIN new : new[k].kind \in {"Starting", "TunReady"}
  BY <1>2, EmittedFacts DEF Types
<1> HIDE DEF new
<1>4. events' = new
  BY <1>1, <1>3, ConcatEmptySeq
<1>5. loop.at = "idle" /\ loop.attempt = 0
  BY <1>1 DEF StagesInOrder, PaceIsKept
<1>6. Types'
  BY <1>1, <1>3, <1>4, GoTop, SameResults DEF Types, Stages
<1>7. StagesInOrder'
  <2>1. handles = TunTask
    BY <1>1 DEF StagesInOrder
  <2> QED BY <1>1, <2>1, GoTop DEF StagesInOrder, Running
<1>8. TasksInOrder'
  BY <1>1 DEF TasksInOrder, Supervising, Finished
<1>9. RequestIsTraced'
  BY <1>1, GoTop DEF RequestIsTraced
<1>10. OutcomeIsTraced'
  BY <1>1, GoTop
<1>11. EventsInOrder'
  BY <1>1, <1>3, <1>4, GoTop DEF EventsInOrder, EventIsTrue, Terminal
<1>12. PaceIsKept'
  BY <1>1, <1>3, <1>4, <1>5, GoTop DEF PaceIsKept, BackoffStartsOver
<1> QED BY <1>6, <1>7, <1>8, <1>9, <1>10, <1>11, <1>12
\* A task that has been joined and was not told to end has failed.
LEMMA ClassifiedFailure ==
    ASSUME Inv, NEW task \in TunTask, Finished(task), HasFailed(task)
    PROVE  /\ classify_task_exit(task) \in Results
           /\ classify_task_exit(task).of = "Tun"
           /\ classify_task_exit(task).error.variant \in {"Io", "Panic"}
           /\ classify_task_exit(task) # Pending /\ classify_task_exit(task) # Ok
           /\ ~is_restart_retriable(classify_task_exit(task))
<1>1. PICK v \in {"Io", "Panic"} : classify_task_exit(task) = TunFailed(v, task)
  BY DEF classify_task_exit, Finished, HasFailed
<1>2. TunFailed(v, task) \in Results
  BY DEF Results
<1> QED BY <1>1, <1>2 DEF TunFailed, Err, Pending, Ok, is_restart_retriable

LEMMA ObserveTunExitKeeps ==
    ASSUME Inv, NEW task \in TunTask, ObserveTunExit(task)
    PROVE  Inv'
<1> USE DEF Inv
<1>1. /\ UNCHANGED <<platform, host, commands, control_rx, cancel, tasks, channels,
                     metrics_task, loop, transport, events>>
      /\ stage = "racing" /\ Finished(task) /\ handles' = handles \ {task}
  BY DEF ObserveTunExit, supFrame, hostVars
<1>2. OutcomeIsTraced' /\ PaceIsKept'
  <2>1. tun_fault => tun_fault'
    BY <1>1 DEF ObserveTunExit
  <2> QED BY <1>1, <2>1 DEF OutcomeIsTraced, HasFailed, PaceIsKept, Logged, BackoffStartsOver
<1>3. CASE cancel /\ stage' = "awaiting" /\ UNCHANGED <<tun_fault, result>>
  <2>1. Types'
    BY <1>1, <1>3, SameResults DEF Types, Stages
  <2>2. StagesInOrder'
    BY <1>1, <1>3 DEF StagesInOrder
  <2>3. TasksInOrder'
    BY <1>1, <1>3 DEF TasksInOrder, Supervising, Finished
  <2>4. RequestIsTraced'
    BY <1>1, <1>3 DEF RequestIsTraced
  <2>5. EventsInOrder'
    BY <1>1, <1>3 DEF EventsInOrder, EventIsTrue
  <2> QED BY <1>2, <2>1, <2>2, <2>3, <2>4, <2>5
<1>4. CASE ~cancel /\ stage' = "fault" /\ tun_fault' = TRUE /\ result' = classify_task_exit(task)
  <2>1. HasFailed(task)
    BY <1>1, <1>4 DEF HasFailed, Finished, TasksInOrder
  <2>2. /\ result' \in Results /\ result'.of = "Tun" /\ result'.error.variant \in {"Io", "Panic"}
        /\ result' # Pending /\ result' # Ok /\ ~is_restart_retriable(result')
    BY <1>1, <1>4, <2>1, ClassifiedFailure
  <2>3. Types'
    BY <1>1, <1>4, <2>2, SameResults DEF Types, Stages
  <2>4. StagesInOrder'
    BY <1>1, <1>4, <2>2 DEF StagesInOrder
  <2>5. TasksInOrder'
    BY <1>1, <1>4, <2>2 DEF TasksInOrder, Supervising, Finished
  <2>6. RequestIsTraced'
    BY <1>1, <1>4, <2>2 DEF RequestIsTraced
  <2>7. EventsInOrder'
    BY <1>1, <1>4, <2>2 DEF EventsInOrder, EventIsTrue, Terminal
  <2> QED BY <1>2, <2>3, <2>4, <2>5, <2>6, <2>7
<1> QED BY <1>3, <1>4 DEF ObserveTunExit

LEMMA ResolveTunChannelKeeps ==
    ASSUME Inv, ResolveTunChannel
    PROVE  Inv'
<1> USE DEF Inv
<1> DEFINE task == result.task
<1>1. /\ UNCHANGED <<platform, host, commands, control_rx, cancel, tun_fault, tasks, channels,
                     metrics_task, loop, transport, events>>
      /\ stage = "resolving" /\ task \in handles /\ task \in TunTask /\ HasFailed(task)
  BY DEF ResolveTunChannel, supFrame, hostVars, StagesInOrder
<1>2. /\ Finished(task) /\ handles' = handles \ {task}
      /\ result' = classify_task_exit(task) /\ stage' = "closing"
  BY <1>1 DEF ResolveTunChannel
<1>3. /\ result' \in Results /\ result'.of = "Tun" /\ result'.error.variant \in {"Io", "Panic"}
      /\ result' # Pending /\ result' # Ok /\ ~is_restart_retriable(result')
  BY <1>1, <1>2, ClassifiedFailure
<1>4. Types'
  BY <1>1, <1>2, <1>3, SameResults DEF Types, Stages
<1>5. StagesInOrder'
  BY <1>1, <1>2, <1>3 DEF StagesInOrder
<1>6. TasksInOrder'
  BY <1>1, <1>2, <1>3 DEF TasksInOrder, Supervising, Finished
<1>7. RequestIsTraced'
  BY <1>1, <1>2, <1>3 DEF RequestIsTraced
<1>8. OutcomeIsTraced' /\ PaceIsKept'
  BY <1>1 DEF OutcomeIsTraced, HasFailed, PaceIsKept, Logged, BackoffStartsOver
<1>9. EventsInOrder'
  BY <1>1, <1>2, <1>3 DEF EventsInOrder, EventIsTrue, Terminal
<1> QED BY <1>4, <1>5, <1>6, <1>7, <1>8, <1>9

LEMMA CloseKeeps ==
    ASSUME Inv, Close
    PROVE  Inv'
<1> USE DEF Inv
<1>1. /\ UNCHANGED <<platform, host, commands, control_rx, tun_fault, tasks, handles,
                     metrics_task, loop, result, transport, events>>
      /\ stage = "closing" /\ stage' = "joining" /\ cancel' = TRUE /\ channels' = FALSE
  BY DEF Close, hostVars
<1>2. Types'
  BY <1>1, SameResults DEF Types, Stages
<1>3. StagesInOrder'
  BY <1>1 DEF StagesInOrder
<1>4. TasksInOrder'
  BY <1>1 DEF TasksInOrder, Supervising, Finished
<1>5. RequestIsTraced' /\ OutcomeIsTraced'
  BY <1>1 DEF RequestIsTraced, OutcomeIsTraced, HasFailed
<1>6. EventsInOrder'
  BY <1>1 DEF EventsInOrder, EventIsTrue
<1>7. PaceIsKept'
  BY <1>1 DEF PaceIsKept, Logged, BackoffStartsOver
<1> QED BY <1>2, <1>3, <1>4, <1>5, <1>6, <1>7

\* The terminal events end a log without any.
LEMMA FinishKeeps ==
    ASSUME Inv, Finish
    PROVE  Inv'
<1> USE DEF Inv
<1> DEFINE new == IF result = Ok THEN <<Event("Stopping", 0), Event("Stopped", 0)>>
                  ELSE <<Event("Error", IF is_restart_retriable(result) THEN 1 ELSE 0)>>
<1>1. /\ UNCHANGED <<platform, host, commands, control_rx, cancel, tun_fault, tasks, channels,
                     metrics_task, loop, result, transport>>
      /\ stage = "joining" /\ stage' = "done" /\ ~metrics_task /\ handles' = {}
      /\ \A t \in handles : Finished(t)
      /\ events' = events \o new
  BY DEF Finish, supFrame, hostVars
<1>2. \A k \in Kinds : /\ Event(k, 0) \in EventType /\ Event(k, 0).kind = k /\ Event(k, 0).n = 0
  BY EventFacts DEF Types
<1>3. /\ new \in Seq(EventType) /\ Len(new) \in 1..2
      /\ \A k \in DOMAIN new :
            /\ new[k].n = 0
            /\ new[k].kind \in {"Stopping", "Stopped", "Error"}
            /\ new[k].kind = "Stopped" => result = Ok
            /\ new[k].kind \in Terminal <=> k = Len(new)
  <2>1. CASE result = Ok
    <3>1. new = <<Event("Stopping", 0), Event("Stopped", 0)>>
      BY <2>1
    <3> HIDE DEF new
    <3>2. /\ Event("Stopping", 0) \in EventType /\ Event("Stopped", 0) \in EventType
          /\ Event("Stopping", 0).kind = "Stopping" /\ Event("Stopped", 0).kind = "Stopped"
          /\ Event("Stopping", 0).n = 0 /\ Event("Stopped", 0).n = 0
      BY <1>2 DEF Kinds
    <3>3. new \in Seq(EventType) /\ Len(new) = 2 /\ DOMAIN new = 1..2
      BY <3>1, <3>2
    <3>4. new[1] = Event("Stopping", 0) /\ new[2] = Event("Stopped", 0)
      BY <3>1
    <3> QED BY <2>1, <3>2, <3>3, <3>4 DEF Terminal
  <2>2. CASE result # Ok
    <3>1. new = <<Event("Error", 0)>>
      BY <2>2 DEF EventsInOrder
    <3> HIDE DEF new
    <3>2. Event("Error", 0) \in EventType /\ Event("Error", 0).kind = "Error" /\ Event("Error", 0).n = 0
      BY <1>2 DEF Kinds
    <3>3. new \in Seq(EventType) /\ Len(new) = 1 /\ DOMAIN new = 1..1 /\ new[1] = Event("Error", 0)
      BY <3>1, <3>2
    <3> QED BY <3>2, <3>3 DEF Terminal
  <2> QED BY <2>1, <2>2
<1> HIDE DEF new
<1>4. /\ events' \in Seq(EventType)
      /\ Len(events') = Len(events) + Len(new)
      /\ \A i \in DOMAIN events : i \in DOMAIN events' /\ events'[i] = events[i]
      /\ \A k \in DOMAIN new : Len(events) + k \in DOMAIN events' /\ events'[Len(events) + k] = new[k]
      /\ \A i \in DOMAIN events' : i \in DOMAIN events \/ \E k \in DOMAIN new : i = Len(events) + k
  BY <1>1, <1>3, LogGrows DEF Types
<1>5. Len(events) \in Nat /\ Len(new) \in Nat /\ DOMAIN new = 1..Len(new) /\ DOMAIN events = 1..Len(events)
  BY <1>3 DEF Types
<1>6. Len(events') \in DOMAIN events' /\ events'[Len(events')] = new[Len(new)]
  <2>1. Len(new) \in DOMAIN new
    BY <1>3, <1>5
  <2> QED BY <1>4, <2>1
<1>7. \A i \in DOMAIN events' :
         \/ i \in DOMAIN events /\ events'[i] = events[i]
         \/ /\ events'[i].n = 0 /\ events'[i].kind \in {"Stopping", "Stopped", "Error"}
            /\ events'[i].kind = "Stopped" => result = Ok
            /\ events'[i].kind \in Terminal => i = Len(events')
  BY <1>3, <1>4, <1>5
<1>8. Types'
  BY <1>1, <1>4, SameResults DEF Types, Stages
<1>9. StagesInOrder'
  BY <1>1 DEF StagesInOrder
<1>10. TasksInOrder'
  BY <1>1 DEF TasksInOrder, Supervising, Finished
<1>11. RequestIsTraced' /\ OutcomeIsTraced'
  BY <1>1 DEF RequestIsTraced, OutcomeIsTraced, HasFailed
<1>12. EventsInOrder'
  <2>1. \A i \in DOMAIN events : events[i].kind \notin Terminal
    BY <1>1 DEF EventsInOrder, EventIsTrue
  <2>2. result = Ok => host # "running"
    BY DEF RequestIsTraced
  <2>3. \A i \in DOMAIN events' : EventIsTrue(events[i])'
    BY <1>1, <1>7, <2>1, <2>2 DEF EventsInOrder, EventIsTrue, Terminal
  <2>4. \A i \in DOMAIN events' : events'[i].kind \in Terminal => i = Len(events')
    BY <1>7, <2>1
  <2>5. events' # <<>> /\ Last(events').kind \in Terminal
    <3>1. Len(new) \in DOMAIN new
      BY <1>3, <1>5
    <3> QED BY <1>3, <1>4, <1>6, <3>1 DEF Last
  <2>6. result.of # "Setup"
    BY <1>1 DEF StagesInOrder
  <2> QED BY <1>1, <2>3, <2>4, <2>5, <2>6 DEF EventsInOrder
<1>13. BackoffStartsOver'
  <2> SUFFICES ASSUME NEW i \in DOMAIN events', NEW j \in DOMAIN events', i < j,
                      events'[i].kind = "Authenticated", events'[j].kind = "ReconnectScheduled"
               PROVE  events'[j].n <= ReconnectMin
    BY DEF BackoffStartsOver
  <2> QED BY <1>7 DEF PaceIsKept, BackoffStartsOver
<1>14. PaceIsKept'
  BY <1>1, <1>4, <1>13 DEF PaceIsKept, Logged
<1> QED BY <1>8, <1>9, <1>10, <1>11, <1>12, <1>14

LEMMA SupervisorKeeps ==
    ASSUME Inv, SupervisorNext
    PROVE  Inv'
  BY SpawnTunKeeps, SpawnTunFailsKeeps, WorkerPanicsKeeps, RunClientKeeps, HostReturnsKeeps,
     ResolveTunChannelKeeps, CloseKeeps, FinishKeeps, ObserveTunExitKeeps DEF SupervisorNext
-----------------------------------------------------------------------------
(* Theorems                                                                *)

LEMMA InitEstablishes == Init => Inv
<1> SUFFICES ASSUME Init PROVE Inv
  OBVIOUS
<1>1. /\ loop.at = "idle" /\ loop.attempt = 0 /\ loop.outcome = NoOutcome /\ loop.outcome.exit = "-"
      /\ loop \in LoopType
  <2>1. ReconnectMin \in ReconnectMin..ReconnectMax /\ 0 \in 0..MaxAttempts
    BY RuntimeAssumption
  <2> QED BY <2>1 DEF Init, Locals, LoopType, Exits, NoOutcome, Outcome
<1>2. /\ result = Pending /\ result \in Results /\ result # Ok /\ result.of = "-"
      /\ ~is_restart_retriable(result)
  BY DEF Init, Results, Pending, Ok, is_restart_retriable
<1>3. /\ commands = <<>> /\ commands \in Seq(Commands) /\ Len(commands) = 0 /\ 0 <= MaxCommands
      /\ events = <<>> /\ events \in Seq(EventType)
      /\ DOMAIN commands = {} /\ DOMAIN events = {}
  BY RuntimeAssumption DEF Init
<1>4. Types
  BY <1>1, <1>2, <1>3 DEF Init, Types, Hosts, Stages, TaskStates
<1>5. StagesInOrder
  BY <1>1, <1>2, <1>3 DEF Init, StagesInOrder
<1>6. TasksInOrder
  BY DEF Init, TasksInOrder, Supervising
<1>7. RequestIsTraced
  BY <1>1, <1>2, <1>3 DEF Init, RequestIsTraced
<1>8. OutcomeIsTraced
  BY <1>1, TunClosedFacts DEF OutcomeIsTraced
<1>9. EventsInOrder
  BY <1>1, <1>2, <1>3 DEF Init, EventsInOrder
<1>10. PaceIsKept
  BY <1>1, <1>3 DEF PaceIsKept, BackoffStartsOver
<1> QED BY <1>4, <1>5, <1>6, <1>7, <1>8, <1>9, <1>10 DEF Inv

LEMMA StutterKeeps ==
    ASSUME Inv, UNCHANGED vars
    PROVE  Inv'
<1> USE DEF Inv
<1>1. UNCHANGED <<platform, host, commands, control_rx, cancel, tun_fault, tasks, handles, channels,
                  metrics_task, stage, loop, result, transport, events>>
  BY DEF vars, hostVars, tunVars
<1>2. Types'
  BY <1>1, SameResults DEF Types
<1>3. StagesInOrder' /\ TasksInOrder'
  BY <1>1 DEF StagesInOrder, TasksInOrder, HasFailed, Finished
<1>4. RequestIsTraced' /\ OutcomeIsTraced'
  BY <1>1 DEF RequestIsTraced, OutcomeIsTraced, HasFailed
<1>5. EventsInOrder' /\ PaceIsKept'
  BY <1>1 DEF EventsInOrder, EventIsTrue, PaceIsKept, Logged, BackoffStartsOver
<1> QED BY <1>2, <1>3, <1>4, <1>5

LEMMA StepKeeps == Inv /\ [Next]_vars => Inv'
  BY HostKeeps, LoopKeeps, SupervisorKeeps, TasksKeep, StutterKeeps DEF Next

\* The strengthening is an invariant of the supervisor, the session loop, the TUN tasks
\* and the host together.
THEOREM RuntimeInvariant == Spec => []Inv
  BY InitEstablishes, StepKeeps, PTL DEF Spec

\* The event stream tells the host the truth, whatever races with what: one terminal
\* event, a clean stop only on request, a restart only after a panic, and TCP until a
\* session runs (run_client, RuntimeObserver, NativeSession).
THEOREM EventsAreTruthfulProved == Spec => []EventsAreTruthful
<1>1. Inv => EventsAreTruthful
  BY DEF Inv, EventsInOrder, EventIsTrue, Terminal, EventsAreTruthful, OneTerminalEvent,
         StoppedOnRequest, ConnectEventsSayTcp, OnlyPanicsAskForRestart
<1> QED BY <1>1, RuntimeInvariant, PTL

\* However the ends of the TUN tasks, of the session and of the runtime race, the task
\* that failed is the one reported, wait_for_task finds its handle and no task is left
\* when run_client returns (supervise, resolve_tun_channel_failure, TunHandles).
THEOREM TasksAreAccountedForProved == Spec => []TasksAreAccountedFor
<1>1. Inv => TasksAreAccountedFor
  <2> SUFFICES ASSUME Inv PROVE TasksAreAccountedFor
    OBVIOUS
  <2>1. ToSet(commands) \subseteq {"NetworkChanged", "Stop"}
    BY DEF Inv, Types, ToSet, Commands
  <2>2. {control_rx, cancel, tun_fault, channels, metrics_task} \subseteq BOOLEAN
    BY DEF Inv, Types
  <2>3. /\ loop.at \in {"idle", "top", "connecting", "authenticating", "session", "leaving", "backoff", "ended"}
        /\ loop.attempt \in 0..MaxAttempts
        /\ loop.backoff \in ReconnectMin..ReconnectMax
    BY DEF Inv, Types, LoopType, Running
  <2>4. TypeOK
    BY <2>1, <2>2, <2>3 DEF Inv, Types, TypeOK, Hosts, Stages, TaskStates
  <2> QED BY <2>4 DEF Inv, StagesInOrder, TasksInOrder, TasksAreAccountedFor, TunErrorIsExplained,
                     HandleIsThere, NothingIsLeftRunning
<1> QED BY <1>1, RuntimeInvariant, PTL

\* Only a step of try_connect counts an attempt.
LEMMA AttemptsCounted ==
    ASSUME Inv, Next, ~try_connect
    PROVE  loop'.attempt \in Nat /\ loop'.attempt <= loop.attempt
<1> USE DEF Inv
<1>1. loop \in LoopType /\ loop.attempt \in Nat
  BY DEF Types, LoopType
<1>2. CASE loop' = loop
  BY <1>1, <1>2
<1>3. CASE loop' = Locals("ended")
  BY <1>1, <1>3 DEF Locals
<1>4. CASE \E place, outcome : loop' = [loop EXCEPT !.at = place, !.outcome = outcome]
  BY <1>1, <1>4 DEF LoopType
<1>5. CASE \E place, backoff : loop' = [loop EXCEPT !.at = place, !.backoff = backoff]
  BY <1>1, <1>5 DEF LoopType
<1>6. CASE \E place, outcome, backoff :
              loop' = [loop EXCEPT !.at = place, !.outcome = outcome, !.backoff = backoff]
  BY <1>1, <1>6 DEF LoopType
<1>7. HostNext \/ TaskNext => loop' = loop
  BY DEF HostNext, TaskNext, NetworkChanged, SendStop, CancelToken, DropSender, CtrlC,
         MetricsTaskEnds, run_tun_reader, run_tun_writer, TunTaskPanics, TunTaskEnds,
         TunTaskJoinable, taskFrame
<1>8. SupervisorNext => loop' = loop \/ Go("top")
  BY DEF SupervisorNext, SpawnTun, SpawnTunFails, WorkerPanics, RunClient, HostReturns,
         ResolveTunChannel, Close, Finish, ObserveTunExit
<1>9. \A err : ConnectFailed(err) => loop' = Locals("ended") \/ \E f : schedule_reconnect(f)
  BY DEF ConnectFailed, Return
<1>10. LoopNext => \/ loop' = loop \/ loop' = Locals("ended")
                   \/ \E place : Go(place) \/ \E f : schedule_reconnect(f)
                   \/ \E outcome : EndSession(outcome)
                   \/ Authenticate /\ loop' = [loop EXCEPT !.at = "session", !.backoff = ReconnectMin]
  <2>1. Connect \/ Authenticate => <1>10!2
    BY <1>9 DEF Connect, Authenticate
  <2>2. ConnectCommand \/ BackoffEnds \/ BackoffCommand \/ LeaveOnCancel \/ LeaveOnTunFault => <1>10!2
    BY DEF ConnectCommand, BackoffEnds, BackoffCommand, LeaveOnCancel, LeaveOnTunFault, Return
  <2>3. SwitchTransport \/ SessionSignalled \/ SessionEnds \/ SessionCommand \/ SessionReturns => <1>10!2
    BY DEF SwitchTransport, SessionSignalled, SessionEnds, SessionCommand, SessionReturns, Return
  <2>4. \A t \in TunTask : SessionLosesTun(t) => <1>10!2
    BY DEF SessionLosesTun
  <2> QED BY <2>1, <2>2, <2>3, <2>4 DEF LoopNext
<1>11. (\E place : Go(place)) \/ (\E outcome : EndSession(outcome)) =>
          \E place, outcome : loop' = [loop EXCEPT !.at = place, !.outcome = outcome]
  BY DEF Go, EndSession
<1>12. (\E f : schedule_reconnect(f)) =>
          \E place, outcome, backoff :
              loop' = [loop EXCEPT !.at = place, !.outcome = outcome, !.backoff = backoff]
  BY DEF schedule_reconnect
<1> QED BY <1>2, <1>3, <1>4, <1>5, <1>6, <1>7, <1>8, <1>10, <1>11, <1>12 DEF Next

\* The client never reconnects in a tight loop, however attempts and sessions end, and
\* its first wait after a connection that got through is a short one (schedule_reconnect,
\* ReconnectBackoff::next_delay, handle_session_exit).
THEOREM ReconnectsArePacedProved == Spec => ReconnectsArePaced
<1>1. Inv /\ Inv' /\ [Next]_vars => [BackoffStartsOver' /\ NoHotLoop]_vars
  <2> SUFFICES ASSUME Inv, Inv', Next
               PROVE  BackoffStartsOver' /\ NoHotLoop
    OBVIOUS
  <2>1. BackoffStartsOver'
    BY DEF Inv, PaceIsKept
  <2>2. CASE try_connect
    BY <2>2 DEF Inv, PaceIsKept, Logged, NoHotLoop, try_connect, LoopAt
  <2>3. CASE ~try_connect
    <3>1. loop'.attempt \in Nat /\ loop.attempt \in Nat /\ loop'.attempt <= loop.attempt
      BY <2>3, AttemptsCounted DEF Inv, Types, LoopType
    <3> QED BY <2>1, <3>1 DEF NoHotLoop
  <2> QED BY <2>1, <2>2, <2>3
<1> QED BY <1>1, RuntimeInvariant, PTL DEF Spec, ReconnectsArePaced
=============================================================================
