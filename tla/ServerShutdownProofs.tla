------------------------ MODULE ServerShutdownProofs ------------------------
(***************************************************************************)
(* Proofs about SessionRegistry and about ServerShutdown, which extends    *)
(* it, for every set of clients, addresses, prefixes, connections and      *)
(* workers and every number of sessions.                                   *)
(*                                                                         *)
(* RoutesAreOwned is not inductive: whether a cleanup removes the right    *)
(* routes depends on which sessions the manager still holds, and whether a *)
(* notice reaches a replaced session depends on who holds its sender.      *)
(* Inductive adds those facts.  The server implements SessionRegistry, so  *)
(* that what is proved there holds of it; a shutdown that returns by       *)
(* itself leaves nothing behind; and a worker's error is reported.         *)
(***************************************************************************)
EXTENDS ServerShutdown, FiniteSetTheorems, TLAPS

-----------------------------------------------------------------------------
(* The registry                                                            *)


\* Session ids are handed out in order, and a session has an owner once it exists.
IdsInOrder ==
    \A s \in Sid :
        /\ pc[s] = "Unborn" <=> s >= next_session_id
        /\ pc[s] # "Unborn" => owner[s] \in Client

\* A session id that was not handed out has no UDP-QSP session.
UnbornIsBare == \A s \in Sid : pc[s] = "Unborn" => udp_session[s] = NoPrefix

\* Which prefixes lead to a session, by the stage of its task.
CidStages ==
    \A p \in Prefix : cid_routes[p] # NoSession =>
        LET s == cid_routes[p]
        IN  /\ Current(s)
            /\ pc[s] = "Running" => udp_session[s] = p
            /\ pc[s] = "Inserting" => p \in {registering[s], udp_session[s]}

\* A handler between insert_cid and remove_cids_for_session_except still owns
\* the prefix it inserted, unless its session was replaced meanwhile.
InsertingOwnsPrefix ==
    \A s \in Sid : pc[s] = "Inserting" =>
        /\ registering[s] \in Prefix
        /\ Current(s) => cid_routes[registering[s]] = s

\* What the manager's table holds.
ManagedStages ==
    \A c \in Client : managed[c] # NoSession =>
        LET s == managed[c]
        IN  /\ owner[s] = c
            /\ pc[s] \in {"Running", "Inserting", "Closing", "Cleaned"}
            /\ pc[s] # "Cleaned" => sessions[c] = s

\* Who holds the sender of a session that is still listening.
SendersHeld ==
    \A s \in Sid :
        /\ s \in armed \cup shutdowns => pc[s] # "Unborn"
        /\ s \in armed => pc[s] # "Done"
        /\ s \in armed \cup shutdowns /\ pc[s] # "Done" => managed[owner[s]] = s
        /\ Listening(s) /\ signal[s] = "Pending" => s \in armed \cup shutdowns

\* The stages of a server shutdown.
ShutdownStages ==
    /\ accepting_sessions => shutdowns = {} /\ ~tasks_closed
    /\ ~accepting_sessions => armed = {}
    /\ tasks_closed => shutdowns = {}
    /\ drained => tasks_closed /\ \A s \in Sid : pc[s] \in {"Unborn", "Done"}

Inductive ==
    /\ TypeOK
    /\ IdsInOrder
    /\ UnbornIsBare
    /\ RoutesAreOwned
    /\ CurrentSessionIsReachable
    /\ CidStages
    /\ InsertingOwnsPrefix
    /\ ViewsAgree
    /\ ManagedStages
    /\ SendersHeld
    /\ ShutdownStages
    /\ ShutdownSignalAvailable

\* A takeover keeps the invariant: the routes of the replaced session go, and its
\* sender is used, under the same mutex that admits the new session.
LEMMA SpawnSessionStep ==
    ASSUME Inductive, NEW c0 \in Client, SpawnSession(c0)
    PROVE  Inductive'
<1>a. next_session_id \in Sid /\ armed' = (armed \ {managed[c0]}) \cup {next_session_id}
    BY DEF SpawnSession
<1>b. pc[next_session_id] = "Unborn" /\ udp_session[next_session_id] = NoPrefix
    BY <1>a, ModelAssumption DEF Inductive, TypeOK, IdsInOrder, UnbornIsBare, Sid
<1>c. \A s \in Sid : owner[s] # c0 => s # sessions[c0]
    BY DEF Inductive, RoutesAreOwned, Sid, NoSession
<1> USE ConfigAssumption, ModelAssumption DEF Inductive, TypeOK, Sid, NoSession,
    Stage,
    Signal, Live, Current, Listening, SpawnSession, register_session,
        CidRoutesWithout, TakeoverNotice, Notified, registryVars, managerVars,
        taskVars
<1>1. TypeOK'
  <2>1. next_session_id' \in 1..MaxSessions + 1 /\ sessions' \in [Client -> 0..MaxSessions]
    OBVIOUS
  <2>2. ip_routes' \in [Ip -> 0..MaxSessions] /\ cid_routes' \in [Prefix -> 0..MaxSessions]
    OBVIOUS
  <2>3. managed' \in [Client -> 0..MaxSessions]
    OBVIOUS
  <2>6. armed' \in SUBSET Sid
    BY <1>a
  <2>4. pc' \in [Sid -> Stage] /\ owner' \in [Sid -> Client \cup {NoClient}]
    OBVIOUS
  <2>5. signal' \in [Sid -> Signal]
    OBVIOUS
  <2> QED
    BY <2>1, <2>2, <2>3, <2>4, <2>5, <2>6
<1>2. IdsInOrder'
    BY DEF IdsInOrder
<1>3. UnbornIsBare'
    BY DEF UnbornIsBare
<1>4. RoutesAreOwned'
    BY DEF RoutesAreOwned, IdsInOrder, ViewsAgree
<1>5. CurrentSessionIsReachable'
  <2> SUFFICES ASSUME NEW c \in Client, sessions'[c] # NoSession
               PROVE  /\ ip_routes'[AssignedIp[c]] = sessions'[c]
                      /\ pc'[sessions'[c]] = "Running" /\ udp_session'[sessions'[c]] # NoPrefix
                            => cid_routes'[udp_session'[sessions'[c]]] = sessions'[c]
    BY DEF CurrentSessionIsReachable
  <2>1. CASE c = c0
    BY <1>b, <2>1
  <2>2. CASE c # c0
    <3>1. sessions'[c] = sessions[c]
      BY <2>2
    <3>4. sessions[c] # next_session_id
      BY <1>b, <2>2, <3>1 DEF RoutesAreOwned
    <3>2. ip_routes'[AssignedIp[c]] = ip_routes[AssignedIp[c]]
      BY <2>2 DEF RoutesAreOwned
    <3>3. sessions[c] # sessions[c0]
      BY <2>2, <3>1 DEF RoutesAreOwned
    <3> QED
      BY <2>2, <3>1, <3>2, <3>3, <3>4 DEF CurrentSessionIsReachable
  <2> QED
    BY <2>1, <2>2
<1>6. CidStages'
    BY DEF CidStages, IdsInOrder, RoutesAreOwned
<1>7. InsertingOwnsPrefix'
  <2> SUFFICES ASSUME NEW s \in Sid, pc'[s] = "Inserting"
               PROVE  /\ registering'[s] \in Prefix
                      /\ Current(s)' => cid_routes'[registering'[s]] = s
    BY DEF InsertingOwnsPrefix
  <2>1. s # next_session_id /\ pc[s] = "Inserting"
    BY <1>b
  <2>2. registering[s] \in Prefix /\ (Current(s) => cid_routes[registering[s]] = s)
    BY <2>1 DEF InsertingOwnsPrefix
  <2>3. ASSUME Current(s)' PROVE Current(s) /\ s # sessions[c0]
    <3>1. owner'[s] = owner[s] /\ sessions'[c0] = next_session_id
      BY <2>1
    <3>2. owner[s] # c0
      BY <2>1, <2>3, <3>1
    <3>3. sessions'[owner[s]] = sessions[owner[s]]
      BY <2>3, <3>1, <3>2
    <3>4. s # sessions[c0]
      BY <1>c, <3>2
    <3> QED
      BY <2>3, <3>1, <3>3, <3>4
  <2> QED
    BY <2>2, <2>3
<1>8. ViewsAgree'
    BY DEF ViewsAgree, IdsInOrder
<1>9. ManagedStages'
    BY DEF ManagedStages, IdsInOrder
<1>10. SendersHeld'
    BY DEF SendersHeld, ShutdownStages
<1>11. ShutdownStages'
    BY DEF ShutdownStages
<1>12. ShutdownSignalAvailable'
    BY DEF ShutdownSignalAvailable
<1> QED
    BY <1>1, <1>2, <1>3, <1>4, <1>5, <1>6, <1>7, <1>8, <1>9, <1>10, <1>11, <1>12

\* start_shutdown moves every sender out of the manager.
LEMMA StartShutdownStep ==
    ASSUME Inductive, StartShutdown
    PROVE  Inductive'
<1>a. \A s \in armed : managed[owner[s]] = s /\ owner[s] \in Client
    BY DEF Inductive, TypeOK, IdsInOrder, SendersHeld
<1>b. shutdowns' = armed /\ armed' = {}
    BY <1>a DEF StartShutdown
<1> USE ConfigAssumption, ModelAssumption DEF Inductive, TypeOK, Sid, NoSession,
    Stage,
    Signal, Live, Current, Listening, StartShutdown, registryVars, managerVars,
        taskVars
<1>0. (IdsInOrder /\ UnbornIsBare /\ RoutesAreOwned /\ CurrentSessionIsReachable
        /\ CidStages /\ InsertingOwnsPrefix /\ ViewsAgree /\ ManagedStages /\
        ShutdownSignalAvailable)'
    BY DEF IdsInOrder, UnbornIsBare, RoutesAreOwned, CurrentSessionIsReachable,
        CidStages, InsertingOwnsPrefix, ViewsAgree, ManagedStages,
        ShutdownSignalAvailable
<1>1. TypeOK'
    OBVIOUS
<1>10. SendersHeld'
    BY DEF SendersHeld, ShutdownStages
<1>11. ShutdownStages'
    BY <1>b DEF ShutdownStages
<1> QED
    BY <1>0, <1>1, <1>10, <1>11

\* A sender used after the mutex was released.
LEMMA SendServerRestartStep ==
    ASSUME Inductive, NEW s0 \in Sid, SendServerRestart(s0)
    PROVE  Inductive'
<1> USE ConfigAssumption, ModelAssumption DEF Inductive, TypeOK, Sid, NoSession,
    Stage,
    Signal, Live, Current, Listening, SendServerRestart, Notified, registryVars,
        managerVars, taskVars
<1>0. (IdsInOrder /\ UnbornIsBare /\ RoutesAreOwned /\ CurrentSessionIsReachable
        /\ CidStages /\ InsertingOwnsPrefix /\ ViewsAgree /\ ManagedStages)'
    BY DEF IdsInOrder, UnbornIsBare, RoutesAreOwned, CurrentSessionIsReachable,
        CidStages, InsertingOwnsPrefix, ViewsAgree, ManagedStages
<1>1. TypeOK'
    OBVIOUS
<1>10. SendersHeld'
    BY DEF SendersHeld
<1>11. ShutdownStages'
    BY DEF ShutdownStages
<1>12. ShutdownSignalAvailable'
    BY DEF ShutdownSignalAvailable
<1> QED
    BY <1>0, <1>1, <1>10, <1>11, <1>12

\* Closing the task tracker.
LEMMA CloseTasksStep ==
    ASSUME Inductive, CloseTasks
    PROVE  Inductive'
<1> USE ConfigAssumption, ModelAssumption DEF Inductive, TypeOK, Sid, NoSession,
    Stage,
    Signal, Live, Current, Listening, CloseTasks, registryVars, managerVars,
        taskVars
<1>0. (IdsInOrder /\ UnbornIsBare /\ RoutesAreOwned /\ CurrentSessionIsReachable
        /\ CidStages /\ InsertingOwnsPrefix /\ ViewsAgree /\ ManagedStages /\
        SendersHeld /\ ShutdownSignalAvailable)'
    BY DEF IdsInOrder, UnbornIsBare, RoutesAreOwned, CurrentSessionIsReachable,
        CidStages, InsertingOwnsPrefix, ViewsAgree, ManagedStages, SendersHeld,
        ShutdownSignalAvailable
<1>1. TypeOK'
    OBVIOUS
<1>11. ShutdownStages'
    BY DEF ShutdownStages
<1> QED
    BY <1>0, <1>1, <1>11

\* The return of wait_for_shutdown.
LEMMA WaitForShutdownStep ==
    ASSUME Inductive, WaitForShutdown
    PROVE  Inductive'
<1> USE ConfigAssumption, ModelAssumption DEF Inductive, TypeOK, Sid, NoSession,
    Stage,
    Signal, Live, Current, Listening, WaitForShutdown, registryVars, managerVars,
        taskVars
<1>0. (IdsInOrder /\ UnbornIsBare /\ RoutesAreOwned /\ CurrentSessionIsReachable
        /\ CidStages /\ InsertingOwnsPrefix /\ ViewsAgree /\ ManagedStages /\
        SendersHeld /\ ShutdownSignalAvailable)'
    BY DEF IdsInOrder, UnbornIsBare, RoutesAreOwned, CurrentSessionIsReachable,
        CidStages, InsertingOwnsPrefix, ViewsAgree, ManagedStages, SendersHeld,
        ShutdownSignalAvailable
<1>1. TypeOK'
    OBVIOUS
<1>11. ShutdownStages'
    BY DEF ShutdownStages
<1> QED
    BY <1>0, <1>1, <1>11

\* insert_cid keeps the invariant because it asks for the active session.
LEMMA InsertCidStep ==
    ASSUME Inductive, NEW s0 \in Sid, NEW p0 \in Prefix, InsertCid(s0, p0)
    PROVE  Inductive'
<1> USE ConfigAssumption, ModelAssumption DEF Inductive, TypeOK, Sid, NoSession,
    Stage,
    Signal, Live, Current, Listening, InsertCid, CidInsertable, registryVars,
        managerVars, taskVars
<1>0. (ShutdownSignalAvailable)'
    BY DEF ShutdownSignalAvailable
<1>1. TypeOK'
    OBVIOUS
<1>2. IdsInOrder'
    BY DEF IdsInOrder
<1>3. UnbornIsBare'
    BY DEF UnbornIsBare
<1>4. RoutesAreOwned'
    BY DEF RoutesAreOwned, IdsInOrder
<1>5. CurrentSessionIsReachable'
    BY DEF CurrentSessionIsReachable
<1>6. CidStages'
    BY DEF CidStages, IdsInOrder
<1>7. InsertingOwnsPrefix'
    BY DEF InsertingOwnsPrefix
<1>8. ViewsAgree'
    BY DEF ViewsAgree
<1>9. ManagedStages'
    BY DEF ManagedStages
<1>10. SendersHeld'
    BY DEF SendersHeld
<1>11. ShutdownStages'
    BY DEF ShutdownStages
<1> QED
    BY <1>0, <1>1, <1>2, <1>3, <1>4, <1>5, <1>6, <1>7, <1>8, <1>9, <1>10, <1>11

\* The second registry call of RegisterCid, which may come after a takeover.
LEMMA ReplaceUdpSessionStep ==
    ASSUME Inductive, NEW s0 \in Sid, ReplaceUdpSession(s0)
    PROVE  Inductive'
<1> USE ConfigAssumption, ModelAssumption DEF Inductive, TypeOK, Sid, NoSession,
    Stage,
    Signal, Live, Current, Listening, ReplaceUdpSession, CidRoutesKeeping,
        registryVars, managerVars, taskVars
<1>0. (ShutdownSignalAvailable)'
    BY DEF ShutdownSignalAvailable
<1>1. TypeOK'
    OBVIOUS
<1>2. IdsInOrder'
    BY DEF IdsInOrder
<1>3. UnbornIsBare'
    BY DEF UnbornIsBare
<1>4. RoutesAreOwned'
    BY DEF RoutesAreOwned
<1>5. CurrentSessionIsReachable'
    BY DEF CurrentSessionIsReachable, IdsInOrder, UnbornIsBare, RoutesAreOwned,
        InsertingOwnsPrefix
<1>6. CidStages'
    BY DEF CidStages
<1>7. InsertingOwnsPrefix'
    BY DEF InsertingOwnsPrefix
<1>8. ViewsAgree'
    BY DEF ViewsAgree
<1>9. ManagedStages'
    BY DEF ManagedStages
<1>10. SendersHeld'
    BY DEF SendersHeld
<1>11. ShutdownStages'
    BY DEF ShutdownStages
<1> QED
    BY <1>0, <1>1, <1>2, <1>3, <1>4, <1>5, <1>6, <1>7, <1>8, <1>9, <1>10, <1>11

\* The same call in a handler that then fails.
LEMMA UdpIoCreateFailsStep ==
    ASSUME Inductive, NEW s0 \in Sid, UdpIoCreateFails(s0)
    PROVE  Inductive'
<1> USE ConfigAssumption, ModelAssumption DEF Inductive, TypeOK, Sid, NoSession,
    Stage,
    Signal, Live, Current, Listening, UdpIoCreateFails, CidRoutesKeeping,
        registryVars, managerVars, taskVars
<1>0. (ShutdownSignalAvailable)'
    BY DEF ShutdownSignalAvailable
<1>1. TypeOK'
    OBVIOUS
<1>2. IdsInOrder'
    BY DEF IdsInOrder
<1>3. UnbornIsBare'
    BY DEF UnbornIsBare
<1>4. RoutesAreOwned'
    BY DEF RoutesAreOwned
<1>5. CurrentSessionIsReachable'
    BY DEF CurrentSessionIsReachable
<1>6. CidStages'
    BY DEF CidStages
<1>7. InsertingOwnsPrefix'
    BY DEF InsertingOwnsPrefix
<1>8. ViewsAgree'
    BY DEF ViewsAgree
<1>9. ManagedStages'
    BY DEF ManagedStages
<1>10. SendersHeld'
    BY DEF SendersHeld
<1>11. ShutdownStages'
    BY DEF ShutdownStages
<1> QED
    BY <1>0, <1>1, <1>2, <1>3, <1>4, <1>5, <1>6, <1>7, <1>8, <1>9, <1>10, <1>11

\* Retiring the UDP-QSP session of a task.
LEMMA RetireUdpTransportStep ==
    ASSUME Inductive, NEW s0 \in Sid, RetireUdpTransport(s0)
    PROVE  Inductive'
<1> USE ConfigAssumption, ModelAssumption DEF Inductive, TypeOK, Sid, NoSession,
    Stage,
    Signal, Live, Current, Listening, RetireUdpTransport, CidRoutesWithout,
        registryVars, managerVars, taskVars
<1>0. (IdsInOrder /\ ViewsAgree /\ ManagedStages /\ SendersHeld /\
        ShutdownStages /\ ShutdownSignalAvailable)'
    BY DEF IdsInOrder, ViewsAgree, ManagedStages, SendersHeld, ShutdownStages,
        ShutdownSignalAvailable
<1>1. TypeOK'
    OBVIOUS
<1>3. UnbornIsBare'
    BY DEF UnbornIsBare
<1>4. RoutesAreOwned'
    BY DEF RoutesAreOwned
<1>5. CurrentSessionIsReachable'
    BY DEF CurrentSessionIsReachable
<1>6. CidStages'
    BY DEF CidStages
<1>7. InsertingOwnsPrefix'
    BY DEF InsertingOwnsPrefix
<1> QED
    BY <1>0, <1>1, <1>3, <1>4, <1>5, <1>6, <1>7

\* A task that stops because it was told to.
LEMMA ObserveShutdownStep ==
    ASSUME Inductive, NEW s0 \in Sid, ObserveShutdown(s0)
    PROVE  Inductive'
<1> USE ConfigAssumption, ModelAssumption DEF Inductive, TypeOK, Sid, NoSession,
    Stage,
    Signal, Live, Current, Listening, ObserveShutdown, registryVars, managerVars,
        taskVars
<1>0. (ShutdownSignalAvailable)'
    BY DEF ShutdownSignalAvailable
<1>1. TypeOK'
    OBVIOUS
<1>2. IdsInOrder'
    BY DEF IdsInOrder
<1>3. UnbornIsBare'
    BY DEF UnbornIsBare
<1>4. RoutesAreOwned'
    BY DEF RoutesAreOwned
<1>5. CurrentSessionIsReachable'
    BY DEF CurrentSessionIsReachable
<1>6. CidStages'
    BY DEF CidStages
<1>7. InsertingOwnsPrefix'
    BY DEF InsertingOwnsPrefix
<1>8. ViewsAgree'
    BY DEF ViewsAgree
<1>9. ManagedStages'
    BY DEF ManagedStages
<1>10. SendersHeld'
    BY DEF SendersHeld
<1>11. ShutdownStages'
    BY DEF ShutdownStages
<1> QED
    BY <1>0, <1>1, <1>2, <1>3, <1>4, <1>5, <1>6, <1>7, <1>8, <1>9, <1>10, <1>11

\* A task that stops by itself.
LEMMA CompleteSessionStep ==
    ASSUME Inductive, NEW s0 \in Sid, CompleteSession(s0)
    PROVE  Inductive'
<1> USE ConfigAssumption, ModelAssumption DEF Inductive, TypeOK, Sid, NoSession,
    Stage,
    Signal, Live, Current, Listening, CompleteSession, registryVars, managerVars,
        taskVars
<1>0. (ShutdownSignalAvailable)'
    BY DEF ShutdownSignalAvailable
<1>1. TypeOK'
    OBVIOUS
<1>2. IdsInOrder'
    BY DEF IdsInOrder
<1>3. UnbornIsBare'
    BY DEF UnbornIsBare
<1>4. RoutesAreOwned'
    BY DEF RoutesAreOwned
<1>5. CurrentSessionIsReachable'
    BY DEF CurrentSessionIsReachable
<1>6. CidStages'
    BY DEF CidStages
<1>7. InsertingOwnsPrefix'
    BY DEF InsertingOwnsPrefix
<1>8. ViewsAgree'
    BY DEF ViewsAgree
<1>9. ManagedStages'
    BY DEF ManagedStages
<1>10. SendersHeld'
    BY DEF SendersHeld
<1>11. ShutdownStages'
    BY DEF ShutdownStages
<1> QED
    BY <1>0, <1>1, <1>2, <1>3, <1>4, <1>5, <1>6, <1>7, <1>8, <1>9, <1>10, <1>11

\* cleanup() of a session that may have been replaced long ago.
LEMMA CleanupStep ==
    ASSUME Inductive, NEW s0 \in Sid, Cleanup(s0)
    PROVE  Inductive'
<1> USE ConfigAssumption, ModelAssumption DEF Inductive, TypeOK, Sid, NoSession,
    Stage,
    Signal, Live, Current, Listening, Cleanup, remove_session, CidRoutesWithout,
        registryVars, managerVars, taskVars
<1>0. (ShutdownSignalAvailable)'
    BY DEF ShutdownSignalAvailable
<1>1. TypeOK'
    BY DEF IdsInOrder
<1>2. IdsInOrder'
    BY DEF IdsInOrder
<1>3. UnbornIsBare'
    BY DEF UnbornIsBare
<1>4. RoutesAreOwned'
    BY DEF RoutesAreOwned
<1>5. CurrentSessionIsReachable'
    BY DEF CurrentSessionIsReachable, IdsInOrder
<1>6. CidStages'
    BY DEF CidStages
<1>7. InsertingOwnsPrefix'
    BY DEF InsertingOwnsPrefix
<1>8. ViewsAgree'
    BY DEF ViewsAgree
<1>9. ManagedStages'
    BY DEF ManagedStages
<1>10. SendersHeld'
    BY DEF SendersHeld
<1>11. ShutdownStages'
    BY DEF ShutdownStages
<1> QED
    BY <1>0, <1>1, <1>2, <1>3, <1>4, <1>5, <1>6, <1>7, <1>8, <1>9, <1>10, <1>11

\* remove_session_if_current at the end of a task.
LEMMA FinishTaskStep ==
    ASSUME Inductive, NEW s0 \in Sid, FinishTask(s0)
    PROVE  Inductive'
<1> USE ConfigAssumption, ModelAssumption DEF Inductive, TypeOK, Sid, NoSession,
    Stage,
    Signal, Live, Current, Listening, FinishTask, RemovedIfCurrent, Notified,
        registryVars, managerVars, taskVars
<1>1. TypeOK'
    BY DEF IdsInOrder
<1>2. IdsInOrder'
    BY DEF IdsInOrder
<1>3. UnbornIsBare'
    BY DEF UnbornIsBare
<1>4. RoutesAreOwned'
    BY DEF RoutesAreOwned
<1>5. CurrentSessionIsReachable'
    BY DEF CurrentSessionIsReachable
<1>6. CidStages'
    BY DEF CidStages
<1>7. InsertingOwnsPrefix'
    BY DEF InsertingOwnsPrefix
<1>8. ViewsAgree'
  <2> SUFFICES ASSUME NEW c \in Client
               PROVE  \/ managed'[c] = sessions'[c]
                      \/ sessions'[c] = NoSession /\ pc'[managed'[c]] = "Cleaned"
    BY DEF ViewsAgree
  <2>1. CASE managed[c] = s0
    <3>1. owner[s0] = c
      BY <2>1 DEF ManagedStages
    <3>2. sessions[c] = NoSession
      BY <2>1 DEF ViewsAgree, RoutesAreOwned
    <3> QED
      BY <2>1, <3>1, <3>2
  <2>2. CASE managed[c] # s0
    <3>1. managed'[c] = managed[c]
      BY <2>2
    <3> QED
      BY <2>2, <3>1 DEF ViewsAgree
  <2> QED
    BY <2>1, <2>2
<1>9. ManagedStages'
    BY DEF ManagedStages
<1>10. SendersHeld'
    BY DEF SendersHeld
<1>11. ShutdownStages'
    BY DEF ShutdownStages
<1>12. ShutdownSignalAvailable'
    BY DEF ShutdownSignalAvailable
<1> QED
    BY <1>1, <1>2, <1>3, <1>4, <1>5, <1>6, <1>7, <1>8, <1>9, <1>10, <1>11, <1>12

----------------------------------------------------------------------------
\* The invariant holds of the empty tables.
LEMMA InitInductive == Init => Inductive
<1> SUFFICES ASSUME Init PROVE Inductive
    OBVIOUS
<1> USE ConfigAssumption, ModelAssumption DEF Init, Sid, NoSession
<1>1. TypeOK
  <2>1. next_session_id \in 1..MaxSessions + 1
    OBVIOUS
  <2>2. /\ sessions \in [Client -> 0..MaxSessions] /\ managed \in [Client -> 0..MaxSessions]
        /\ ip_routes \in [Ip -> 0..MaxSessions] /\ cid_routes \in [Prefix -> 0..MaxSessions]
    OBVIOUS
  <2>3. /\ pc \in [Sid -> Stage] /\ signal \in [Sid -> Signal]
        /\ owner \in [Sid -> Client \cup {NoClient}]
        /\ registering \in [Sid -> Prefix \cup {NoPrefix}]
        /\ udp_session \in [Sid -> Prefix \cup {NoPrefix}]
    BY DEF Stage, Signal
  <2>4. armed \in SUBSET Sid /\ shutdowns \in SUBSET Sid
    OBVIOUS
  <2>5. accepting_sessions \in BOOLEAN /\ tasks_closed \in BOOLEAN /\ drained \in BOOLEAN
    OBVIOUS
  <2> QED
    BY <2>1, <2>2, <2>3, <2>4, <2>5 DEF TypeOK
<1>2. IdsInOrder /\ UnbornIsBare
    BY DEF IdsInOrder, UnbornIsBare
<1>3. RoutesAreOwned /\ CurrentSessionIsReachable
    BY DEF RoutesAreOwned, CurrentSessionIsReachable
<1>4. CidStages /\ InsertingOwnsPrefix
    BY DEF CidStages, InsertingOwnsPrefix
<1>5. ViewsAgree /\ ManagedStages
    BY DEF ViewsAgree, ManagedStages
<1>6. SendersHeld /\ ShutdownStages /\ ShutdownSignalAvailable
    BY DEF SendersHeld, ShutdownStages, ShutdownSignalAvailable, Listening
<1> QED
    BY <1>1, <1>2, <1>3, <1>4, <1>5, <1>6 DEF Inductive

\* Every step of the manager and of a session task keeps the invariant.
LEMMA NextInductive == Inductive /\ [Next]_vars => Inductive'
<1> SUFFICES ASSUME Inductive, [Next]_vars
             PROVE  Inductive'
    OBVIOUS
<1>1. CASE UNCHANGED vars
    BY <1>1 DEF vars, registryVars, managerVars, taskVars, Inductive, TypeOK, IdsInOrder,
        UnbornIsBare, RoutesAreOwned, CurrentSessionIsReachable, CidStages,
        InsertingOwnsPrefix, ViewsAgree, ManagedStages, SendersHeld, ShutdownStages,
        ShutdownSignalAvailable, Live, Current, Listening
<1>2. CASE \E c \in Client : SpawnSession(c)
    BY <1>2, SpawnSessionStep
<1>3. CASE StartShutdown
    BY <1>3, StartShutdownStep
<1>4. CASE \E s \in Sid : SendServerRestart(s)
    BY <1>4, SendServerRestartStep
<1>5. CASE CloseTasks
    BY <1>5, CloseTasksStep
<1>6. CASE WaitForShutdown
    BY <1>6, WaitForShutdownStep
<1>7. CASE \E s \in Sid : SessionStep(s)
  <2>1. PICK s \in Sid : SessionStep(s)
    BY <1>7
  <2>2. CASE \E p \in Prefix : InsertCid(s, p)
    BY <2>2, InsertCidStep
  <2>3. CASE ReplaceUdpSession(s)
    BY <2>3, ReplaceUdpSessionStep
  <2>4. CASE UdpIoCreateFails(s)
    BY <2>4, UdpIoCreateFailsStep
  <2>5. CASE RetireUdpTransport(s)
    BY <2>5, RetireUdpTransportStep
  <2>6. CASE ObserveShutdown(s)
    BY <2>6, ObserveShutdownStep
  <2>7. CASE CompleteSession(s)
    BY <2>7, CompleteSessionStep
  <2>8. CASE Cleanup(s)
    BY <2>8, CleanupStep
  <2>9. CASE FinishTask(s)
    BY <2>9, FinishTaskStep
  <2> QED
    BY <2>1, <2>2, <2>3, <2>4, <2>5, <2>6, <2>7, <2>8, <2>9 DEF SessionStep
<1> QED
    BY <1>1, <1>2, <1>3, <1>4, <1>5, <1>6, <1>7 DEF Next

\* Inductive is an invariant of the session table.
LEMMA AlwaysInductive == Spec => []Inductive
    BY InitInductive, NextInductive, PTL DEF Spec

----------------------------------------------------------------------------
\* The tables and the tasks keep their types.
THEOREM TypeCorrect == Spec => []TypeOK
<1>1. Inductive => TypeOK
    BY DEF Inductive
<1> QED
    BY <1>1, AlwaysInductive, PTL

\* No interleaving of takeovers, registrations and cleanups leaves a client,
\* address or connection-id route to a session that was replaced or has ended.
THEOREM RoutesOwned == Spec => []RoutesAreOwned
<1>1. Inductive => RoutesAreOwned
    BY DEF Inductive
<1> QED
    BY <1>1, AlwaysInductive, PTL

\* The current session of a client is always reachable by its address and, while
\* it runs, by its connection id: a late cleanup takes nothing from a successor.
THEOREM SessionsReachable == Spec => []CurrentSessionIsReachable
<1>1. Inductive => CurrentSessionIsReachable
    BY DEF Inductive
<1> QED
    BY <1>1, AlwaysInductive, PTL

\* A session answers to the connection id of its UDP-QSP session and no other,
\* outside the RegisterCid handler.
THEOREM CidsAreUnique == Spec => []OneCidPerSession
<1>1. Inductive => OneCidPerSession
    BY DEF Inductive, CidStages, OneCidPerSession
<1> QED
    BY <1>1, AlwaysInductive, PTL

\* The registry and the manager agree on the active session of a client, but for
\* a session between its cleanup and remove_session_if_current.
THEOREM RegistryAndManagerAgree == Spec => []ViewsAgree
<1>1. Inductive => ViewsAgree
    BY DEF Inductive
<1> QED
    BY <1>1, AlwaysInductive, PTL

\* A session that was replaced and still serves traffic has been told to stop.
\* Its sender cannot have been lost: whoever holds the sender of a session that
\* has not been notified holds it for the client's managed session.
THEOREM TakeoverNotifies == Spec => []ReplacedIsNotified
<1>1. Inductive => ReplacedIsNotified
  <2> SUFFICES ASSUME Inductive, NEW s \in Sid, pc[s] \in {"Running", "Inserting"},
                      signal[s] = "Pending"
               PROVE  Current(s)
    BY DEF ReplacedIsNotified
  <2>1. owner[s] \in Client
    BY DEF Inductive, IdsInOrder
  <2>2. managed[owner[s]] = s
    BY DEF Inductive, SendersHeld, Listening
  <2> QED
    BY <2>1, <2>2 DEF Inductive, ManagedStages, Current, Sid, NoSession
<1> QED
    BY <1>1, AlwaysInductive, PTL

\* Once start_shutdown has returned, no session serves traffic unaware of it.
THEOREM ShutdownNotifies == Spec => []ShutdownIsNotified
<1>1. Inductive => ShutdownIsNotified
    BY DEF Inductive, ShutdownIsNotified, ShutdownStages, SendersHeld, Listening
<1> QED
    BY <1>1, AlwaysInductive, PTL

\* The sender of a listening session is never dropped unused.
THEOREM SignalAvailable == Spec => []ShutdownSignalAvailable
<1>1. Inductive => ShutdownSignalAvailable
    BY DEF Inductive
<1> QED
    BY <1>1, AlwaysInductive, PTL

\* When every session task has ended, no table names one.
LEMMA InductiveDrained == Inductive => DrainedIsEmpty
<1> SUFFICES ASSUME Inductive, drained PROVE DrainedIsEmpty
  BY DEF DrainedIsEmpty
<1> USE DEF Inductive, TypeOK, Sid, NoSession
<1>1. \A s \in Sid : pc[s] \in {"Unborn", "Done"}
  BY DEF ShutdownStages
<1>2. \A c \in Client : sessions[c] = NoSession /\ managed[c] = NoSession
  <2> TAKE c \in Client
  <2>1. sessions[c] \in 0..MaxSessions /\ managed[c] \in 0..MaxSessions
    OBVIOUS
  <2>2. ASSUME sessions[c] # NoSession PROVE FALSE
    <3>1. sessions[c] \in Sid
      BY <2>1, <2>2, ModelAssumption
    <3> QED
      BY <1>1, <2>2, <3>1 DEF RoutesAreOwned, Live
  <2>3. ASSUME managed[c] # NoSession PROVE FALSE
    <3>1. managed[c] \in Sid
      BY <2>1, <2>3, ModelAssumption
    <3> QED
      BY <1>1, <2>3, <3>1 DEF ManagedStages
  <2> QED
    BY <2>2, <2>3
<1>3. \A i \in Ip : ip_routes[i] = NoSession
  BY <1>2 DEF RoutesAreOwned, Current
<1>4. \A p \in Prefix : cid_routes[p] = NoSession
  BY <1>2 DEF RoutesAreOwned, Current
<1> QED
  BY <1>1, <1>2, <1>3, <1>4 DEF DrainedIsEmpty

\* When wait_for_shutdown returns, no table holds anything.
THEOREM DrainEmpties == Spec => []DrainedIsEmpty
BY InductiveDrained, AlwaysInductive, PTL

\* A current session loses a connection id only by a step of its own or by a
\* takeover, never by another session's registration, retirement or cleanup.
THEOREM CidsNotStolen == Spec => RoutesAreNotStolen
<1>1. Inductive /\ [Next]_vars => [CidsAreKept]_vars
  <2> SUFFICES ASSUME Inductive, Next, NEW s \in Sid, Current(s), Current(s)',
                      pc'[s] = pc[s], udp_session'[s] = udp_session[s],
                      NEW p \in Prefix, cid_routes[p] = s
               PROVE  cid_routes'[p] = s
    BY DEF CidsAreKept
  <2> USE DEF registryVars, managerVars, taskVars, CidRoutesWithout, CidRoutesKeeping
  <2>1. ASSUME NEW c \in Client, SpawnSession(c) PROVE cid_routes'[p] = s
    <3>1. pc[next_session_id] = "Unborn" /\ next_session_id \in Sid
      BY <2>1, ModelAssumption DEF SpawnSession, Inductive, TypeOK, IdsInOrder, Sid
    <3>2. s # next_session_id
      BY <2>1, <3>1 DEF SpawnSession, Inductive, TypeOK
    <3>3. s # sessions[c]
      <4>1. owner'[s] = owner[s] /\ owner[s] \in Client
        BY <2>1, <3>2 DEF SpawnSession, Inductive, TypeOK, Current
      <4>2. sessions'[owner[s]] = s /\ sessions'[c] = next_session_id
        BY <2>1, <4>1 DEF SpawnSession, register_session, Inductive, TypeOK, Current
      <4>3. owner[s] # c
        BY <3>2, <4>2
      <4> QED
        BY <4>3 DEF Inductive, RoutesAreOwned, Sid, NoSession
    <3> QED
      BY <2>1, <3>3 DEF SpawnSession, register_session
  <2>2. ASSUME StartShutdown \/ CloseTasks \/ WaitForShutdown
                   \/ \E t \in Sid : SendServerRestart(t)
        PROVE  cid_routes'[p] = s
    BY <2>2 DEF StartShutdown, CloseTasks, WaitForShutdown, SendServerRestart
  <2>3. ASSUME NEW t \in Sid, SessionStep(t) PROVE cid_routes'[p] = s
    <3>1. CASE \E q \in Prefix : InsertCid(t, q)
      BY <3>1 DEF InsertCid, CidInsertable, Inductive, TypeOK, Sid, NoSession
    <3>2. CASE ReplaceUdpSession(t) \/ UdpIoCreateFails(t)
      BY <3>2 DEF ReplaceUdpSession, UdpIoCreateFails, Inductive, TypeOK
    <3>3. CASE RetireUdpTransport(t)
      BY <3>3, ModelAssumption DEF RetireUdpTransport, Inductive, TypeOK
    <3>4. CASE ObserveShutdown(t) \/ CompleteSession(t) \/ FinishTask(t)
      BY <3>4 DEF ObserveShutdown, CompleteSession, FinishTask
    <3>5. CASE Cleanup(t)
      BY <3>5 DEF Cleanup, remove_session, Inductive, TypeOK
    <3> QED
      BY <2>3, <3>1, <3>2, <3>3, <3>4, <3>5 DEF SessionStep
  <2> QED
    BY <2>1, <2>2, <2>3 DEF Next
<1> QED
    BY <1>1, AlwaysInductive, PTL DEF Spec, RoutesAreNotStolen

-----------------------------------------------------------------------------
(* The server that holds it                                                *)

\* Every step of the server is a step of SessionRegistry or leaves it alone.
LEMMA ServerStepIsRegistryStep == [ServerNext]_serverVars => [Next]_vars
<1> SUFFICES ASSUME [ServerNext]_serverVars PROVE [Next]_vars
  OBVIOUS
<1>1. CASE UNCHANGED serverVars
  BY <1>1 DEF serverVars
<1>2. CASE CtrlC
  BY <1>2 DEF CtrlC
<1>3. CASE \E w \in Worker : WorkerStops(w) \/ WorkerFails(w)
  BY <1>3 DEF WorkerStops, WorkerFails
<1>4. CASE SupervisionStep
  <2>1. CASE StopSessions
    BY <2>1 DEF StopSessions, Next
  <2>2. CASE \E s \in Sid : NotifySession(s)
    BY <2>2 DEF NotifySession, Next
  <2>3. CASE CloseSessions
    BY <2>3 DEF CloseSessions, Next
  <2>4. CASE SessionsEnded
    BY <2>4 DEF SessionsEnded, Next
  <2>5. CASE \/ \E w \in Worker : TriggerWorkerFailed(w)
             \/ TriggerCancelled \/ Cancel \/ CloseGate \/ CloseAuthTasks
             \/ JoinWorker \/ WorkersJoined \/ AuthTasksEnded
    BY <2>5 DEF TriggerWorkerFailed, TriggerCancelled, Cancel, CloseGate,
        CloseAuthTasks, JoinWorker, WorkersJoined, AuthTasksEnded
  <2> QED BY <1>4, <2>1, <2>2, <2>3, <2>4, <2>5 DEF SupervisionStep
<1>5. CASE TimeOut
  BY <1>5 DEF TimeOut
<1>6. CASE \E c \in Conn : AuthStep(c)
  <2> PICK c \in Conn : AuthStep(c)
    BY <1>6
  <2>1. CASE \E client \in Client : create_session(c, client)
    BY <2>1 DEF create_session, Next
  <2>2. CASE \/ Claim(c) \/ Reserve(c) \/ CheckGate(c) \/ SpawnAuth(c)
             \/ acquire_auth_permit(c) \/ AuthEnds(c) \/ CancelAuth(c) \/ SendAuthOk(c)
    BY <2>2 DEF Claim, Reserve, CheckGate, SpawnAuth, acquire_auth_permit,
        AuthEnds, CancelAuth, SendAuthOk
  <2> QED BY <2>1, <2>2 DEF AuthStep
<1>7. CASE \E s \in Sid : SessionStep(s) /\ UNCHANGED <<supervisionVars, authVars>>
  BY <1>7 DEF Next
<1> QED BY <1>1, <1>2, <1>3, <1>4, <1>5, <1>6, <1>7 DEF ServerNext

\* Supervision and authentication use the session manager as SessionRegistry says
\* it is used.
THEOREM ServerImplementsRegistry == ServerSpec => RegistrySpec
<1>1. ServerInit => Init
  BY DEF ServerInit
<1> QED BY <1>1, ServerStepIsRegistryStep, PTL DEF ServerSpec, RegistrySpec, Spec

-----------------------------------------------------------------------------
(* The inductive invariant.                                                *)

\* The connections that hold a permit.
Inflight == { c \in Conn : conn[c] \in {"Authenticating", "Authenticated"} }

\* Every permit is free or held by a connection.
PermitsCounted == permits + Cardinality(Inflight) = MaxAuthInflight

\* The stages of supervision::run, and what each has closed or waited for.
StagesInOrder ==
    /\ sup \in {"AuthClosing", "Joining", "AuthWaiting", "SessionWaiting", "Returned"} =>
           ~accepting_auth
    /\ \A i \in 1..joined : worker[WorkerOrder[i]] # "running"
    /\ sup \in {"AuthWaiting", "SessionWaiting", "Returned"} => joined = Len(WorkerOrder)
    /\ sup \in {"SessionWaiting", "Returned"} =>
           \A c \in Conn : conn[c] \in {"Classifying", "Claimed", "Reserved", "Ended"}
    /\ sup = "Returned" => drained

\* The result is an error exactly when a worker whose result was looked at failed;
\* without the signal the select ended with a worker's branch.
ResultTracked ==
    /\ sup = "Supervising" /\ cancel => ctrl_c
    /\ sup # "Supervising" /\ ~ctrl_c => trigger # NoWorker
    /\ trigger # NoWorker => worker[trigger] # "running"
    /\ sup \notin {"Joining", "AuthWaiting", "SessionWaiting", "Returned", "TimedOut"} =>
           joined = 0
    /\ sup \in {"Joining", "AuthWaiting", "SessionWaiting", "Returned"}
          /\ trigger # NoWorker =>
           (result = "Err" <=> \/ worker[trigger] = "failed"
                              \/ \E i \in 1..joined : worker[WorkerOrder[i]] = "failed")
    /\ sup # "TimedOut" => result \in {"Ok", "Err"}

ServerInductive ==
    /\ Inductive
    /\ ServerTypeOK
    /\ PermitsCounted
    /\ StagesInOrder
    /\ ResultTracked

\* Inflight is a finite set.
LEMMA InflightFinite ==
    ServerTypeOK => IsFiniteSet(Inflight) /\ Cardinality(Inflight) \in Nat
<1>1. IsFiniteSet(Conn) /\ Inflight \subseteq Conn
  BY ServerAssumption DEF Inflight
<1>2. IsFiniteSet(Inflight)
  BY <1>1, FS_Subset
<1> QED BY <1>2, FS_CardinalityType

\* What a worker's position says of it.
LEMMA WorkersByPosition ==
    /\ \A i \in 1..Len(WorkerOrder) : WorkerOrder[i] \in Worker
    /\ \A w \in Worker : \E i \in 1..Len(WorkerOrder) : w = WorkerOrder[i]
    /\ NoWorker \notin Worker
BY ServerAssumption DEF Worker, NoWorker

\* The initial states satisfy the invariant.
LEMMA ServerInitInductive == ServerInit => ServerInductive
<1> SUFFICES ASSUME ServerInit PROVE ServerInductive
  OBVIOUS
<1>1. Inductive
  BY InitInductive DEF ServerInit
<1>2. TypeOK
  BY <1>1 DEF Inductive
<1>3. ServerTypeOK
  <2>1. joined \in 0..Len(WorkerOrder) /\ permits \in 0..MaxAuthInflight
    BY ServerAssumption DEF ServerInit
  <2>2. /\ worker \in [Worker -> {"running", "ok", "failed"}]
        /\ conn \in [Conn -> ConnStage]
    BY DEF ServerInit, ConnStage
  <2>3. /\ cancel \in BOOLEAN /\ ctrl_c \in BOOLEAN
        /\ accepting_auth \in BOOLEAN /\ auth_closed \in BOOLEAN
    BY DEF ServerInit
  <2>4. sup \in SupStage /\ trigger \in Worker \cup {NoWorker} /\ result \in Result
    BY DEF ServerInit, SupStage, Result
  <2> QED BY <1>2, <2>1, <2>2, <2>3, <2>4 DEF ServerTypeOK
<1>4. PermitsCounted
  <2>1. Inflight = {}
    BY DEF ServerInit, Inflight
  <2> QED BY <2>1, FS_EmptySet, ServerAssumption DEF ServerInit, PermitsCounted
<1>5. StagesInOrder /\ ResultTracked
  BY DEF ServerInit, StagesInOrder, ResultTracked
<1> QED BY <1>1, <1>3, <1>4, <1>5 DEF ServerInductive

\* drained is never reset.
LEMMA DrainedStays == [Next]_vars /\ drained => drained'
BY DEF Next, vars, registryVars, managerVars, taskVars, SpawnSession, StartShutdown,
    SendServerRestart, CloseTasks, WaitForShutdown, SessionStep, InsertCid,
    ReplaceUdpSession, UdpIoCreateFails, RetireUdpTransport, ObserveShutdown,
    CompleteSession, Cleanup, FinishTask

\* A step that leaves supervision and authentication alone.
LEMMA FrameStep ==
    ASSUME ServerInductive, Inductive', drained => drained',
           UNCHANGED <<supervisionVars, authVars>>
    PROVE  ServerInductive'
<1> USE DEF supervisionVars, authVars
<1>1. TypeOK'
  BY DEF Inductive
<1>2. ServerTypeOK'
  BY <1>1 DEF ServerInductive, ServerTypeOK
<1>3. PermitsCounted'
  BY DEF ServerInductive, PermitsCounted, Inflight
<1>4. StagesInOrder'
  BY DEF ServerInductive, StagesInOrder
<1>5. ResultTracked'
  BY DEF ServerInductive, ResultTracked
<1> QED BY <1>2, <1>3, <1>4, <1>5 DEF ServerInductive

\* The signal and the ends of workers.
LEMMA WorkerStep ==
    ASSUME ServerInductive, Inductive', drained => drained',
           CtrlC \/ \E w \in Worker : WorkerStops(w) \/ WorkerFails(w)
    PROVE  ServerInductive'
<1>1. TypeOK'
  BY DEF Inductive
<1>2. ServerTypeOK'
  BY <1>1 DEF ServerInductive, ServerTypeOK, CtrlC, WorkerStops, WorkerFails, authVars
<1>3. PermitsCounted'
  BY DEF ServerInductive, PermitsCounted, Inflight, CtrlC, WorkerStops, WorkerFails, authVars
<1>4. StagesInOrder' /\ ResultTracked'
  <2>1. CASE CtrlC
    BY <2>1 DEF ServerInductive, StagesInOrder, ResultTracked, CtrlC, authVars
  <2>2. CASE \E w \in Worker : WorkerStops(w) \/ WorkerFails(w)
    <3> PICK w \in Worker : WorkerStops(w) \/ WorkerFails(w)
      BY <2>2
    <3>1. /\ worker[w] = "running" /\ worker \in [Worker -> {"running", "ok", "failed"}]
          /\ \E to \in {"ok", "failed"} : worker' = [worker EXCEPT ![w] = to]
          /\ UNCHANGED <<cancel, ctrl_c, sup, trigger, joined, result, authVars>>
      BY DEF ServerInductive, ServerTypeOK, WorkerStops, WorkerFails
    <3>2. \A v \in Worker : worker[v] # "running" =>
             worker'[v] = worker[v]
      BY <3>1
    <3>3. \A i \in 1..joined : /\ WorkerOrder[i] \in Worker
                              /\ worker[WorkerOrder[i]] # "running"
      <4>1. joined \in 0..Len(WorkerOrder) /\ Len(WorkerOrder) \in Nat
        BY ServerAssumption DEF ServerInductive, ServerTypeOK
      <4>2. \A i \in 1..joined : i \in 1..Len(WorkerOrder)
        BY <4>1
      <4>3. \A i \in 1..joined : worker[WorkerOrder[i]] # "running"
        BY DEF ServerInductive, StagesInOrder
      <4> QED BY <4>2, <4>3, WorkersByPosition
    <3>4. trigger # NoWorker => trigger \in Worker /\ worker[trigger] # "running"
      BY DEF ServerInductive, ServerTypeOK, ResultTracked
    <3>5. \A i \in 1..joined : worker'[WorkerOrder[i]] = worker[WorkerOrder[i]]
      BY <3>2, <3>3
    <3>6. trigger # NoWorker => worker'[trigger] = worker[trigger]
      BY <3>2, <3>4
    <3>7. StagesInOrder'
      BY <3>1, <3>5 DEF ServerInductive, StagesInOrder, authVars
    <3>8. ResultTracked'
      BY <3>1, <3>5, <3>6 DEF ServerInductive, ResultTracked
    <3> QED BY <3>7, <3>8
  <2> QED BY <2>1, <2>2
<1> QED BY <1>2, <1>3, <1>4 DEF ServerInductive
\* The steps of supervision::run before the first worker is joined.
LEMMA ClosingStep ==
    ASSUME ServerInductive, Inductive', drained => drained',
           \/ \E w \in Worker : TriggerWorkerFailed(w)
           \/ TriggerCancelled \/ Cancel \/ StopSessions
           \/ CloseSessions \/ CloseGate \/ CloseAuthTasks
    PROVE  ServerInductive'
<1> USE DEF TriggerWorkerFailed, TriggerCancelled, Cancel, StopSessions, CloseSessions,
        CloseGate, CloseAuthTasks, At, authVars
<1>1. TypeOK'
  BY DEF Inductive
<1>a. UNCHANGED <<worker, joined, conn, permits>>
  OBVIOUS
<1>b. accepting_auth' \in BOOLEAN /\ auth_closed' \in BOOLEAN /\ cancel' \in BOOLEAN
  BY DEF ServerInductive, ServerTypeOK
<1>c. sup' \in SupStage /\ trigger' \in Worker \cup {NoWorker} /\ result' \in Result
  BY DEF ServerInductive, ServerTypeOK, SupStage, Result, classify_task_result
<1>2. ServerTypeOK'
  BY <1>1, <1>a, <1>b, <1>c DEF ServerInductive, ServerTypeOK
<1>3. PermitsCounted'
  BY <1>a DEF ServerInductive, PermitsCounted, Inflight
<1>4. StagesInOrder'
  <2>1. CASE CloseAuthTasks
    <3>1. ~accepting_auth'
      BY <2>1 DEF ServerInductive, StagesInOrder
    <3> QED BY <2>1, <3>1 DEF ServerInductive, StagesInOrder
  <2> QED BY <2>1 DEF ServerInductive, StagesInOrder
<1>5. ResultTracked'
  <2> USE DEF ServerInductive, ResultTracked
  <2>1. CASE \E w \in Worker : TriggerWorkerFailed(w)
    BY <2>1, WorkersByPosition
  <2>2. CASE CloseAuthTasks
    BY <2>2, WorkersByPosition DEF ServerTypeOK, classify_task_result
  <2>3. CASE TriggerCancelled \/ Cancel \/ StopSessions \/ CloseSessions \/ CloseGate
    BY <2>3
  <2> QED BY <2>1, <2>2, <2>3
<1> QED BY <1>2, <1>3, <1>4, <1>5 DEF ServerInductive

\* A worker is joined.
LEMMA JoinStep ==
    ASSUME ServerInductive, Inductive', drained => drained', JoinWorker
    PROVE  ServerInductive'
<1> DEFINE w0 == WorkerOrder[joined + 1]
<1> USE DEF JoinWorker, authVars
<1>0. /\ joined \in Nat /\ joined < Len(WorkerOrder) /\ joined' = joined + 1
      /\ Len(WorkerOrder) \in Nat /\ sup = "Joining"
  BY ServerAssumption DEF ServerInductive, ServerTypeOK
<1>1. TypeOK'
  BY DEF Inductive
<1>2. w0 \in Worker /\ worker[w0] # "running"
  BY <1>0, WorkersByPosition
<1>3. \A i \in 1..joined' : i \in 1..joined \/ i = joined + 1
  BY <1>0
<1>a. result \in {"Ok", "Err"} /\ trigger \in Worker \cup {NoWorker}
  BY <1>0 DEF ServerInductive, ServerTypeOK, ResultTracked
<1>4. result' = IF trigger \in {NoWorker, w0} THEN result
                ELSE IF result = "Ok" THEN (IF worker[w0] = "failed" THEN "Err" ELSE "Ok")
                ELSE result
  BY DEF merge_task_result, classify_task_result
<1> HIDE DEF w0
<1>5. ServerTypeOK'
  <2>1. joined' \in 0..Len(WorkerOrder) /\ result' \in Result
    BY <1>0, <1>a, <1>4 DEF Result
  <2> QED BY <1>1, <2>1 DEF ServerInductive, ServerTypeOK
<1>6. PermitsCounted'
  BY DEF ServerInductive, PermitsCounted, Inflight
<1>7. StagesInOrder'
  <2>1. \A i \in 1..joined' : worker'[WorkerOrder[i]] # "running"
    BY <1>2, <1>3 DEF ServerInductive, StagesInOrder, w0
  <2> QED BY <1>0, <2>1 DEF ServerInductive, StagesInOrder
<1>8. ResultTracked'
  <2>1. (\E i \in 1..joined' : worker'[WorkerOrder[i]] = "failed")
          <=> \/ \E i \in 1..joined : worker[WorkerOrder[i]] = "failed"
              \/ worker[w0] = "failed"
    <3>1. 1..joined' = (1..joined) \cup {joined + 1}
      BY <1>0
    <3> QED BY <3>1 DEF w0
  <2>2. trigger # NoWorker =>
           (result = "Err" <=> \/ worker[trigger] = "failed"
                              \/ \E i \in 1..joined : worker[WorkerOrder[i]] = "failed")
    BY <1>0 DEF ServerInductive, ResultTracked
  <2>3. trigger # NoWorker =>
           (result' = "Err" <=> \/ worker[trigger] = "failed"
                               \/ \E i \in 1..joined' : worker'[WorkerOrder[i]] = "failed")
    BY <1>a, <1>4, <2>1, <2>2
  <2>4. result' \in {"Ok", "Err"}
    BY <1>a, <1>4
  <2> QED BY <1>0, <2>3, <2>4 DEF ServerInductive, ResultTracked
<1> QED BY <1>5, <1>6, <1>7, <1>8 DEF ServerInductive

\* The waits of supervision::run and its time limit.
LEMMA WaitingStep ==
    ASSUME ServerInductive, Inductive', drained => drained',
           WorkersJoined \/ AuthTasksEnded \/ SessionsEnded \/ TimeOut
    PROVE  ServerInductive'
<1> USE DEF WorkersJoined, AuthTasksEnded, SessionsEnded, TimeOut, At, authVars
<1>1. TypeOK'
  BY DEF Inductive
<1>2. ServerTypeOK'
  <2>1. sup' \in SupStage /\ result' \in Result
    BY DEF ServerInductive, ServerTypeOK, SupStage, Result
  <2> QED BY <1>1, <2>1 DEF ServerInductive, ServerTypeOK
<1>3. PermitsCounted'
  BY DEF ServerInductive, PermitsCounted, Inflight
<1>4. StagesInOrder'
  <2> USE DEF ServerInductive, StagesInOrder
  <2>1. CASE AuthTasksEnded
    <3>1. \A c \in Conn : conn[c] \in ConnStage /\ ~HoldsToken(c)
      BY <2>1 DEF ServerTypeOK
    <3>2. \A c \in Conn : conn[c] \in {"Classifying", "Claimed", "Reserved", "Ended"}
      BY <3>1 DEF ConnStage, HoldsToken
    <3> QED BY <2>1, <3>2
  <2>2. CASE SessionsEnded
    BY <2>2 DEF WaitForShutdown
  <2>3. CASE WorkersJoined \/ TimeOut
    BY <2>3
  <2> QED BY <2>1, <2>2, <2>3
<1>5. ResultTracked'
  BY DEF ServerInductive, ResultTracked
<1> QED BY <1>2, <1>3, <1>4, <1>5 DEF ServerInductive

\* A step of a claimed connection: the gate is what keeps it from a task once it
\* is shut, and the permit follows the task.
LEMMA ConnectionStep ==
    ASSUME ServerInductive, Inductive', drained => drained',
           NEW c0 \in Conn, AuthStep(c0)
    PROVE  ServerInductive'
<1> USE DEF ConnStep
<1>a. /\ UNCHANGED <<supervisionVars, accepting_auth, auth_closed>>
      /\ conn \in [Conn -> ConnStage] /\ permits \in 0..MaxAuthInflight
      /\ MaxAuthInflight \in Nat
  BY ServerAssumption DEF ServerInductive, ServerTypeOK, AuthStep, Claim, Reserve, CheckGate,
     SpawnAuth, acquire_auth_permit, AuthEnds, CancelAuth, SendAuthOk, create_session
<1>b. \/ /\ c0 \notin Inflight /\ c0 \notin Inflight' /\ permits' = permits
      \/ /\ c0 \in Inflight /\ c0 \in Inflight' /\ permits' = permits
      \/ /\ c0 \notin Inflight /\ c0 \in Inflight' /\ permits' = permits - 1
      \/ /\ c0 \in Inflight /\ c0 \notin Inflight' /\ permits' = permits + 1
  BY <1>a DEF Inflight, AuthStep, Claim, Reserve, CheckGate,
     SpawnAuth, acquire_auth_permit, AuthEnds, CancelAuth, SendAuthOk, create_session
<1>c. \E to \in ConnStage : conn' = [conn EXCEPT ![c0] = to]
  BY DEF ConnStage, AuthStep, Claim, Reserve, CheckGate,
     SpawnAuth, acquire_auth_permit, AuthEnds, CancelAuth, SendAuthOk, create_session
<1>d. \A c \in Conn : c # c0 => conn'[c] = conn[c]
  BY <1>a, <1>c
<1>e. /\ conn[c0] \in {"Classifying", "Claimed", "Reserved", "Ended"} /\ ~accepting_auth
         => conn'[c0] \in {"Classifying", "Claimed", "Reserved", "Ended"}
  BY <1>a DEF AuthStep, Claim, Reserve, CheckGate,
     SpawnAuth, acquire_auth_permit, AuthEnds, CancelAuth, SendAuthOk, create_session
<1>f. PermitsCounted'
  <2>1. IsFiniteSet(Inflight) /\ Cardinality(Inflight) \in Nat
    BY InflightFinite DEF ServerInductive
  <2>2. permits + Cardinality(Inflight) = MaxAuthInflight
    BY DEF ServerInductive, PermitsCounted
  <2>3. \A c \in Conn : c # c0 => (c \in Inflight' <=> c \in Inflight)
    BY <1>d DEF Inflight
  <2>4. Inflight \subseteq Conn /\ Inflight' \subseteq Conn
    BY DEF Inflight
  <2>5. CASE (c0 \in Inflight <=> c0 \in Inflight') /\ permits' = permits
    <3>1. Inflight' = Inflight
      BY <2>3, <2>4, <2>5
    <3> QED BY <2>2, <2>5, <3>1 DEF PermitsCounted
  <2>6. CASE c0 \notin Inflight /\ c0 \in Inflight' /\ permits' = permits - 1
    <3>1. Inflight' = Inflight \cup {c0}
      BY <2>3, <2>4, <2>6
    <3>2. Cardinality(Inflight') = Cardinality(Inflight) + 1
      BY <2>1, <2>6, <3>1, FS_AddElement
    <3> QED BY <1>a, <2>1, <2>2, <2>6, <3>2 DEF PermitsCounted
  <2>7. CASE c0 \in Inflight /\ c0 \notin Inflight' /\ permits' = permits + 1
    <3>1. Inflight' = Inflight \ {c0}
      BY <2>3, <2>4, <2>7
    <3>2. Cardinality(Inflight') = Cardinality(Inflight) - 1
      BY <2>1, <2>7, <3>1, FS_RemoveElement
    <3> QED BY <1>a, <2>1, <2>2, <2>7, <3>2 DEF PermitsCounted
  <2> QED BY <1>b, <2>5, <2>6, <2>7
<1>g. ServerTypeOK'
  <2>1. conn' \in [Conn -> ConnStage]
    BY <1>a, <1>c
  <2>2. IsFiniteSet(Inflight') /\ Cardinality(Inflight') \in Nat
    <3>1. IsFiniteSet(Conn) /\ Inflight' \subseteq Conn
      BY ServerAssumption DEF Inflight
    <3>2. IsFiniteSet(Inflight')
      BY <3>1, FS_Subset
    <3> QED BY <3>2, FS_CardinalityType
  <2>3. permits' \in Int
    BY <1>a, <1>b
  <2>4. permits' \in Nat
    BY <1>a, <1>b DEF AuthStep, Claim, Reserve, CheckGate,
     SpawnAuth, acquire_auth_permit, AuthEnds, CancelAuth, SendAuthOk, create_session
  <2>5. permits' \in 0..MaxAuthInflight
    BY <1>a, <1>f, <2>2, <2>3, <2>4 DEF PermitsCounted
  <2>6. TypeOK'
    BY DEF Inductive
  <2> QED BY <1>a, <2>1, <2>5, <2>6 DEF ServerInductive, ServerTypeOK, supervisionVars
<1>h. StagesInOrder'
  <2>1. sup \in {"SessionWaiting", "Returned"} =>
           \A c \in Conn : conn'[c] \in {"Classifying", "Claimed", "Reserved", "Ended"}
    BY <1>d, <1>e DEF ServerInductive, StagesInOrder
  <2> QED BY <1>a, <2>1 DEF ServerInductive, StagesInOrder, supervisionVars
<1>i. ResultTracked'
  BY <1>a DEF ServerInductive, ResultTracked, supervisionVars
<1> QED BY <1>f, <1>g, <1>h, <1>i DEF ServerInductive

\* Every step keeps the invariant.
LEMMA ServerNextInductive ==
    ServerInductive /\ [ServerNext]_serverVars => ServerInductive'
<1> SUFFICES ASSUME ServerInductive, [ServerNext]_serverVars PROVE ServerInductive'
  OBVIOUS
<1>1. [Next]_vars
  BY ServerStepIsRegistryStep
<1>2. Inductive'
  BY <1>1, NextInductive DEF ServerInductive
<1>3. drained => drained'
  BY <1>1, DrainedStays
<1>4. CASE UNCHANGED serverVars
  BY <1>2, <1>3, <1>4, FrameStep DEF serverVars
<1>5. CASE CtrlC \/ \E w \in Worker : WorkerStops(w) \/ WorkerFails(w)
  BY <1>2, <1>3, <1>5, WorkerStep
<1>6. CASE SupervisionStep
  <2>1. CASE \/ \E w \in Worker : TriggerWorkerFailed(w)
             \/ TriggerCancelled \/ Cancel \/ StopSessions
             \/ CloseSessions \/ CloseGate \/ CloseAuthTasks
    BY <1>2, <1>3, <2>1, ClosingStep
  <2>2. CASE \E s \in Sid : NotifySession(s)
    BY <1>2, <1>3, <2>2, FrameStep DEF NotifySession
  <2>3. CASE JoinWorker
    BY <1>2, <1>3, <2>3, JoinStep
  <2>4. CASE WorkersJoined \/ AuthTasksEnded \/ SessionsEnded
    BY <1>2, <1>3, <2>4, WaitingStep
  <2> QED BY <1>6, <2>1, <2>2, <2>3, <2>4 DEF SupervisionStep
<1>7. CASE TimeOut
  BY <1>2, <1>3, <1>7, WaitingStep
<1>8. CASE \E c \in Conn : AuthStep(c)
  BY <1>2, <1>3, <1>8, ConnectionStep
<1>9. CASE \E s \in Sid : SessionStep(s) /\ UNCHANGED <<supervisionVars, authVars>>
  BY <1>2, <1>3, <1>9, FrameStep
<1> QED BY <1>4, <1>5, <1>6, <1>7, <1>8, <1>9 DEF ServerNext

LEMMA AlwaysServerInductive == ServerSpec => []ServerInductive
BY ServerInitInductive, ServerNextInductive, PTL DEF ServerSpec

\* The server's state keeps its types; auth_inflight stays within its size.
THEOREM ServerTypeCorrect == ServerSpec => []ServerTypeOK
<1>1. ServerInductive => ServerTypeOK
  BY DEF ServerInductive
<1> QED BY <1>1, AlwaysServerInductive, PTL

\* A graceful shutdown that ends by itself leaves no worker, no authentication
\* task, no permit taken, no session and no route.
THEOREM ReturnsClean == ServerSpec => []CleanReturn
<1>1. ServerInductive => CleanReturn
  <2> SUFFICES ASSUME ServerInductive, sup = "Returned" PROVE CleanReturn
    BY DEF CleanReturn
  <2>1. \A w \in Worker : worker[w] # "running"
    <3>1. joined = Len(WorkerOrder)
      BY DEF ServerInductive, StagesInOrder
    <3>2. \A i \in 1..Len(WorkerOrder) : worker[WorkerOrder[i]] # "running"
      BY <3>1 DEF ServerInductive, StagesInOrder
    <3> QED BY <3>2, WorkersByPosition
  <2>2. \A c \in Conn : conn[c] \in {"Classifying", "Claimed", "Reserved", "Ended"}
    BY DEF ServerInductive, StagesInOrder
  <2>3. permits = MaxAuthInflight
    <3>1. Inflight = {}
      BY <2>2 DEF Inflight
    <3> QED BY <3>1, FS_EmptySet, ServerAssumption
            DEF ServerInductive, ServerTypeOK, PermitsCounted
  <2>4. drained /\ Inductive
    BY DEF ServerInductive, StagesInOrder
  <2>5. \A s \in Sid : pc[s] \in {"Unborn", "Done"}
    BY <2>4 DEF Inductive, ShutdownStages
  <2>6. DrainedIsEmpty
    BY <2>4, InductiveDrained
  <2> QED BY <2>1, <2>2, <2>3, <2>4, <2>5, <2>6 DEF CleanReturn
<1> QED BY <1>1, AlwaysServerInductive, PTL

\* Without the signal, the result is an error exactly when a worker failed.
THEOREM ErrorsReported == ServerSpec => []ErrorIsReported
<1>1. ServerInductive => ErrorIsReported
  <2> SUFFICES ASSUME ServerInductive, sup = "Returned", ~ctrl_c
               PROVE  result = "Err" <=> \E w \in Worker : worker[w] = "failed"
    BY DEF ErrorIsReported
  <2>1. trigger # NoWorker /\ joined = Len(WorkerOrder) /\ trigger \in Worker
    BY DEF ServerInductive, ServerTypeOK, ResultTracked, StagesInOrder
  <2>2. result = "Err" <=> \/ worker[trigger] = "failed"
                           \/ \E i \in 1..Len(WorkerOrder) : worker[WorkerOrder[i]] = "failed"
    BY <2>1 DEF ServerInductive, ResultTracked
  <2> QED BY <2>1, <2>2, WorkersByPosition
<1> QED BY <1>1, AlwaysServerInductive, PTL

=============================================================================
