-------------------------- MODULE TransportSwitch --------------------------
(***************************************************************************)
(* One authenticated connection: how the client session and the server     *)
(* session register a UDP-QSP transport, validate it, switch their         *)
(* preferred transport to it and fall back to TCP.                         *)
(*                                                                         *)
(* TCP carries the control messages in order, in each direction, until the *)
(* connection dies; what was still in flight is then lost.  UDP loses,     *)
(* delays and reorders: a datagram that was sent may arrive late, or never,*)
(* and a probe that is retransmitted may arrive several times.  Timers     *)
(* have no clock: an armed timer may expire at any moment.                 *)
(*                                                                         *)
(* The two sessions are records, and a handler is a function from the      *)
(* record before it to the record after it.                                *)
(***************************************************************************)
EXTENDS Naturals, Sequences

CONSTANTS
    EnableUpgrade,       \* config.enable_upgrade of the client
    RequireUdp,          \* what config.require_udp of the client may be
    CollidingCids,       \* discovered connection ids whose prefix another session owns
    RejectsAutoCipher,   \* whether the server may disallow the suite of the client's `auto`
    MAX_STALE_UPGRADE_IDS,
    MaxCids,             \* bound on QUIC discoveries that succeed
    MaxKeys,             \* bound on REGISTER_CID messages, each with fresh keys
    MaxRetries           \* bound on upgrade attempts after a cooldown

ASSUME SwitchAssumption ==
    /\ EnableUpgrade \in BOOLEAN /\ RequireUdp \subseteq BOOLEAN
    /\ TRUE \in RequireUdp => EnableUpgrade    \* ClientConfig::validate: RequireUdpNeedsUpgrade
    /\ CollidingCids \subseteq Nat /\ RejectsAutoCipher \subseteq BOOLEAN
    /\ MAX_STALE_UPGRADE_IDS \in Nat \ {0}
    /\ MaxCids \in Nat /\ MaxKeys \in Nat /\ MaxRetries \in Nat

VARIABLES
    client,     \* ClientSession of slt-client
    server,     \* ClientSessionBase of slt-server
    tcp_up,     \* the TCP connection delivers
    to_server,  \* TCP messages in flight to the server, oldest first
    to_client,  \* TCP messages in flight to the client, oldest first
    datagrams,  \* UDP-QSP packets that were sent, each under the keys of a registration
    used        \* how many connection ids, keys, upgrade ids, fallback ids were drawn

vars == <<client, server, tcp_up, to_server, to_client, datagrams, used>>

None == 0
Cid == 1..MaxCids
Key == 1..MaxKeys
UpgradeId == 1..(MaxKeys + MaxRetries)

\* Every FALLBACK_TO_TCP ends a transport, of the client or of the server, or
\* an upgrade attempt: the other bounds limit their number.
FallbackId == 1..(3 * MaxKeys + MaxRetries)

\* What is left of a session that ended, and what it ended with.
Exit == {"Closed", "ProtocolError", "UdpUpgradeRequired"}

----------------------------------------------------------------------------
(* State.                                                                  *)

\* `registration` is the keys of the REGISTER_CID in flight, `transport` the
\* keys of UdpState::Active, `retained` those of retained_udp_transport, and
\* `authenticated` says that last_authenticated_udp_activity is set.
ClientRecord ==
    [require_udp : BOOLEAN,
     run : {"Running"} \cup Exit,
     tcp_alive : BOOLEAN,
     active_transport : {"Tcp", "UdpQsp"},
     udp_state : {"Disabled", "NeedDiscovery", "Pending", "Active"},
     discovery_task : BOOLEAN,
     cid : Cid \cup {None},
     registration : Key \cup {None},
     transport : Key \cup {None},
     retained : Key \cup {None},
     authenticated : BOOLEAN,
     cipher_policy_auto : BOOLEAN,
     upgrade : {"Disabled", "Idle", "Upgrading", "AwaitingSwitchOk", "TcpOnlyBlockedUdp"},
     upgrade_id : UpgradeId \cup {None},
     probe_acked : BOOLEAN,
     ready_sent : BOOLEAN,
     pending_tcp_fallback : FallbackId \cup {None},
     last_peer_fallback_id : FallbackId \cup {None}]

\* `peer_known` says that a packet was authenticated under udp_session, so that
\* the placeholder peer was replaced.
ServerRecord ==
    [rejects_auto_cipher : BOOLEAN,
     run : {"Running"} \cup Exit,
     tcp_alive : BOOLEAN,
     active_transport : {"Tcp", "UdpQsp"},
     udp_session : Key \cup {None},
     peer_known : BOOLEAN,
     authenticated : BOOLEAN,
     upgrade_id : UpgradeId \cup {None},
     probe_seen : BOOLEAN,
     ready_seen : BOOLEAN,
     switch_to_udp_sent : BOOLEAN,
     stale_upgrade_ids : Seq(UpgradeId),
     pending_tcp_fallback : FallbackId \cup {None},
     last_peer_fallback_id : FallbackId \cup {None}]

Messages ==
    [type : {"RegisterCid"}, cid : Cid, key : Key, auto : BOOLEAN]
        \cup [type : {"RegisterOk"}, cid : Cid]
        \cup [type : {"RegisterFail"}, code : {"InvalidCid", "InvalidCipher"}]
        \cup [type : {"UdpReady", "SwitchToUdp", "SwitchAck", "SwitchOk"}, id : UpgradeId]
        \cup [type : {"FallbackToTcp", "FallbackOk"}, id : FallbackId]

\* Ping stands for all traffic that is not part of the upgrade.
Datagrams ==
    [to : {"server", "client"}, type : {"UpgradeProbe", "UpgradeProbeAck", "Ping"},
     key : Key, id : UpgradeId \cup {None}]

TypeOK ==
    /\ client \in ClientRecord
    /\ server \in ServerRecord
    /\ Len(server.stale_upgrade_ids) <= MAX_STALE_UPGRADE_IDS
    /\ tcp_up \in BOOLEAN
    /\ to_server \in Seq(Messages)
    /\ to_client \in Seq(Messages)
    /\ datagrams \subseteq Datagrams
    /\ used \in [cid : 0..MaxCids, key : 0..MaxKeys,
                 upgrade : 0..(MaxKeys + MaxRetries), retry : 0..MaxRetries,
                 fallback : 0..(3 * MaxKeys + MaxRetries)]

NewClient(require_udp) ==
    [require_udp |-> require_udp,
     run |-> "Running", tcp_alive |-> TRUE, active_transport |-> "Tcp",
     udp_state |-> IF EnableUpgrade \/ require_udp THEN "NeedDiscovery" ELSE "Disabled",
     discovery_task |-> FALSE, cid |-> None, registration |-> None, transport |-> None,
     retained |-> None, authenticated |-> FALSE, cipher_policy_auto |-> TRUE,
     upgrade |-> IF EnableUpgrade \/ require_udp THEN "Idle" ELSE "Disabled",
     upgrade_id |-> None, probe_acked |-> FALSE, ready_sent |-> FALSE,
     pending_tcp_fallback |-> None, last_peer_fallback_id |-> None]

NewServer(rejects_auto_cipher) ==
    [rejects_auto_cipher |-> rejects_auto_cipher,
     run |-> "Running", tcp_alive |-> TRUE, active_transport |-> "Tcp",
     udp_session |-> None, peer_known |-> FALSE,
     authenticated |-> FALSE, upgrade_id |-> None, probe_seen |-> FALSE,
     ready_seen |-> FALSE, switch_to_udp_sent |-> FALSE, stale_upgrade_ids |-> <<>>,
     pending_tcp_fallback |-> None, last_peer_fallback_id |-> None]

Init ==
    /\ \E require_udp \in RequireUdp : client = NewClient(require_udp)
    /\ \E rejects \in RejectsAutoCipher : server = NewServer(rejects)
    /\ tcp_up = TRUE
    /\ to_server = <<>>
    /\ to_client = <<>>
    /\ datagrams = {}
    /\ used = [cid |-> 0, key |-> 0, upgrade |-> 0, retry |-> 0, fallback |-> 0]

----------------------------------------------------------------------------
(* The network.                                                            *)

\* Writing to a TCP connection that has died goes nowhere.
Written(queue, msg) == IF tcp_up THEN Append(queue, msg) ELSE queue

Msg(type, id) == [type |-> type, id |-> id]
Datagram(to, type, key, id) == [to |-> to, type |-> type, key |-> key, id |-> id]

\* The message of the given type that the client, or the server, reads next.
ClientReads(type) == client.run = "Running" /\ client.tcp_alive /\ to_client # <<>> /\ Head(to_client).type = type
ServerReads(type) == server.run = "Running" /\ server.tcp_alive /\ to_server # <<>> /\ Head(to_server).type = type

TcpDies ==
    /\ tcp_up
    /\ tcp_up' = FALSE
    /\ UNCHANGED <<client, server, to_server, to_client, datagrams, used>>

----------------------------------------------------------------------------
(* The client: state transitions.                                          *)

\* The client session ends: its state is dropped and its socket closed.
ClientEnds(exit) ==
    /\ client' = [NewClient(client.require_udp) EXCEPT !.run = exit]
    /\ tcp_up' = FALSE
    /\ to_client' = <<>>
    /\ UNCHANGED <<server, to_server, datagrams, used>>

WithoutAttempt(c, state) ==
    [c EXCEPT !.upgrade = state, !.upgrade_id = None, !.probe_acked = FALSE, !.ready_sent = FALSE]

\* The transport kept for receiving: one kept earlier, or the one in use.
Retained(c, keep) ==
    IF ~keep THEN None
    ELSE IF c.retained = None /\ c.udp_state = "Active" THEN c.transport
    ELSE c.retained

\* Every retry of the UDP transport starts from here, with or without the
\* transport that was in use kept for receiving.
schedule_discovery(c, keep) ==
    IF EnableUpgrade \/ c.require_udp
    THEN [WithoutAttempt(c, "Idle") EXCEPT
             !.udp_state = "NeedDiscovery", !.cid = None, !.registration = None, !.transport = None,
             !.retained = Retained(c, keep),
             !.authenticated = keep /\ c.authenticated]
    ELSE [WithoutAttempt(c, "Disabled") EXCEPT
             !.udp_state = "Disabled", !.cid = None, !.registration = None, !.transport = None,
             !.retained = None, !.authenticated = FALSE]

schedule_registration_retry(c) == [c EXCEPT !.registration = None]

\* The transport that the client reads UDP-QSP packets from.
ReceiveTransport(c) == IF c.udp_state = "Active" THEN c.transport ELSE c.retained

\* start_udp_upgrade_attempt, with the next upgrade id.
StartsAttempt(c) == c.upgrade # "Disabled" /\ c.udp_state = "Active" /\ c.active_transport = "Tcp"

start_udp_upgrade_attempt(c) ==
    IF StartsAttempt(c)
    THEN [WithoutAttempt(c, "Upgrading") EXCEPT !.upgrade_id = used.upgrade + 1]
    ELSE IF c.upgrade # "Disabled" /\ c.udp_state # "Active" THEN WithoutAttempt(c, "Idle")
    ELSE c

\* request_tcp_fallback, in a step that otherwise leaves the client as c: the
\* request itself is sent unless an earlier one is unanswered.
ClientRequestsFallback(c) ==
    LET send == client.pending_tcp_fallback = None
        id == used.fallback + 1
    IN  /\ client' = [c EXCEPT !.active_transport = "Tcp",
                               !.pending_tcp_fallback = IF send THEN id ELSE @]
        /\ to_server' = IF send THEN Written(to_server, Msg("FallbackToTcp", id)) ELSE to_server
        /\ used' = IF send THEN [used EXCEPT !.fallback = id] ELSE used
        /\ UNCHANGED <<server, tcp_up, to_client, datagrams>>

ClientOnly(c) ==
    /\ client' = c
    /\ UNCHANGED <<server, tcp_up, to_server, to_client, datagrams, used>>

----------------------------------------------------------------------------
(* The client: discovery and registration.                                 *)

\* UdpReconnectTick in NeedDiscovery.
SpawnQuicDiscovery ==
    /\ client.run = "Running" /\ client.udp_state = "NeedDiscovery" /\ ~client.discovery_task
    /\ ClientOnly([client EXCEPT !.discovery_task = TRUE])

DiscoverySucceeds ==
    /\ client.run = "Running" /\ client.discovery_task
    /\ used.cid + 1 \in Cid
    /\ client' = [client EXCEPT !.discovery_task = FALSE, !.udp_state = "Pending",
                                !.cid = used.cid + 1, !.registration = None]
    /\ used' = [used EXCEPT !.cid = @ + 1]
    /\ UNCHANGED <<server, tcp_up, to_server, to_client, datagrams>>

DiscoveryFails ==
    /\ client.run = "Running" /\ client.discovery_task
    /\ IF client.require_udp
       THEN ClientEnds("UdpUpgradeRequired")
       ELSE ClientOnly(schedule_discovery([client EXCEPT !.discovery_task = FALSE], TRUE))

\* UdpReconnectTick in Pending: fresh keys for the discovered connection id.
attempt_udp_registration ==
    /\ client.run = "Running" /\ client.udp_state = "Pending" /\ client.registration = None
    /\ used.key + 1 \in Key
    /\ client' = [client EXCEPT !.registration = used.key + 1]
    /\ used' = [used EXCEPT !.key = @ + 1]
    /\ to_server' = Written(to_server,
                            [type |-> "RegisterCid", cid |-> client.cid, key |-> used.key + 1,
                             auto |-> client.cipher_policy_auto])
    /\ UNCHANGED <<server, tcp_up, to_client, datagrams>>

handle_registration_timeout ==
    /\ client.run = "Running" /\ client.udp_state = "Pending" /\ client.registration # None
    /\ IF client.require_udp
       THEN ClientEnds("UdpUpgradeRequired")
       ELSE ClientOnly(schedule_registration_retry(client))

\* The state after a REGISTER_OK for the connection id in use: the keys are those
\* of the registration in flight, which the message does not name.
Registered(c) ==
    start_udp_upgrade_attempt(
        [c EXCEPT !.udp_state = "Active", !.transport = c.registration, !.registration = None,
                  !.cid = None, !.retained = None, !.authenticated = FALSE])

handle_register_ok ==
    /\ ClientReads("RegisterOk")
    /\ LET expected == client.udp_state = "Pending" /\ client.registration # None
       IN  \/ /\ ~expected
              /\ UNCHANGED <<client, used>>
              /\ to_client' = Tail(to_client)
              /\ UNCHANGED <<server, tcp_up, to_server, datagrams>>
           \/ /\ expected /\ Head(to_client).cid # client.cid
              /\ ClientEnds("ProtocolError")
           \/ /\ expected /\ Head(to_client).cid = client.cid
              /\ client' = Registered(client)
              /\ used' = [used EXCEPT !.upgrade = @ + 1]
              /\ to_client' = Tail(to_client)
              /\ UNCHANGED <<server, tcp_up, to_server, datagrams>>

handle_register_fail ==
    /\ ClientReads("RegisterFail")
    /\ LET expected == client.udp_state = "Pending" /\ client.registration # None
           flip == Head(to_client).code = "InvalidCipher" /\ client.cipher_policy_auto
       IN  IF expected /\ client.require_udp /\ ~flip
           THEN ClientEnds("UdpUpgradeRequired")
           ELSE /\ client' = IF ~expected THEN client
                             ELSE schedule_registration_retry(
                                      [client EXCEPT !.cipher_policy_auto = @ /\ ~flip])
                /\ to_client' = Tail(to_client)
                /\ UNCHANGED <<server, tcp_up, to_server, datagrams, used>>

----------------------------------------------------------------------------
(* The client: the upgrade handshake.                                      *)

\* UdpUpgradeTick while probing: a probe under the keys of the transport.
send_upgrade_probe ==
    /\ client.run = "Running" /\ client.upgrade = "Upgrading" /\ ~client.probe_acked
    /\ datagrams' = datagrams \cup
           {Datagram("server", "UpgradeProbe", ReceiveTransport(client), client.upgrade_id)}
    /\ UNCHANGED <<client, server, tcp_up, to_server, to_client, used>>

\* Mutants: a server that may have switched is not told, or the policy is not asked.
handle_udp_upgrade_timeout_silent ==
    /\ client.run = "Running" /\ client.upgrade \in {"Upgrading", "AwaitingSwitchOk"}
    /\ ClientOnly(WithoutAttempt(client, "TcpOnlyBlockedUdp"))
handle_udp_upgrade_timeout_retries ==
    /\ client.run = "Running" /\ client.upgrade \in {"Upgrading", "AwaitingSwitchOk"}
    /\ ClientRequestsFallback(WithoutAttempt(client, "Idle"))

\* The deadline of an attempt, or MAX_UPGRADE_PROBES probes without an answer.
handle_udp_upgrade_timeout ==
    /\ client.run = "Running" /\ client.upgrade \in {"Upgrading", "AwaitingSwitchOk"}
    /\ \/ client.require_udp /\ ClientEnds("UdpUpgradeRequired")
       \/ /\ ~client.require_udp /\ client.upgrade = "Upgrading"
          /\ ClientOnly(WithoutAttempt(client, "TcpOnlyBlockedUdp"))
       \/ /\ ~client.require_udp /\ client.upgrade = "AwaitingSwitchOk"
          /\ ClientRequestsFallback(WithoutAttempt(client, "TcpOnlyBlockedUdp"))

\* UdpUpgradeTick after the cooldown.
RetryUpgrade ==
    /\ client.run = "Running" /\ client.upgrade = "TcpOnlyBlockedUdp"
    /\ used.retry < MaxRetries
    /\ client' = start_udp_upgrade_attempt(client)
    /\ used' = IF StartsAttempt(client)
               THEN [used EXCEPT !.upgrade = @ + 1, !.retry = @ + 1] ELSE used
    /\ UNCHANGED <<server, tcp_up, to_server, to_client, datagrams>>

\* A probe acknowledgement for the current attempt is answered by UDP_READY, once.
handle_upgrade_probe_ack(d) ==
    LET matches == client.upgrade = "Upgrading" /\ d.id = client.upgrade_id
    IN  /\ client' = [client EXCEPT !.probe_acked = @ \/ matches,
                                    !.ready_sent = @ \/ matches,
                                    !.authenticated = TRUE]
        /\ to_server' = IF matches /\ ~client.ready_sent
                        THEN Written(to_server, Msg("UdpReady", d.id)) ELSE to_server
        /\ UNCHANGED <<server, tcp_up, to_client, datagrams, used>>

\* A datagram reaches the client when it was sealed with the keys of the transport
\* that the client reads.  A PING is answered with a PONG; what traffic is sent
\* back matters to nothing here, the failure to send it is ClientUdpError.
ClientReadsUdp(d) ==
    /\ client.run = "Running" /\ d.to = "client" /\ d.key = ReceiveTransport(client)
    /\ \/ d.type = "UpgradeProbeAck" /\ handle_upgrade_probe_ack(d)
       \/ d.type = "Ping" /\ ClientOnly([client EXCEPT !.authenticated = TRUE])

\* Mutant: the client switches when it acknowledges.
handle_switch_to_udp_early ==
    /\ ClientReads("SwitchToUdp")
    /\ LET id == Head(to_client).id
           accepted == /\ client.upgrade = "Upgrading" /\ client.upgrade_id = id
                       /\ client.probe_acked /\ client.ready_sent
       IN  /\ client' = IF accepted
                        THEN [WithoutAttempt(client, "Idle") EXCEPT !.active_transport = "UdpQsp"]
                        ELSE client
           /\ to_server' = IF accepted THEN Written(to_server, Msg("SwitchAck", id)) ELSE to_server
    /\ to_client' = Tail(to_client)
    /\ UNCHANGED <<server, tcp_up, datagrams, used>>

handle_switch_to_udp ==
    /\ ClientReads("SwitchToUdp")
    /\ LET id == Head(to_client).id
           accepted == /\ client.upgrade = "Upgrading" /\ client.upgrade_id = id
                       /\ client.probe_acked /\ client.ready_sent
       IN  /\ client' = IF accepted
                        THEN [WithoutAttempt(client, "AwaitingSwitchOk") EXCEPT !.upgrade_id = id]
                        ELSE client
           /\ to_server' = IF accepted THEN Written(to_server, Msg("SwitchAck", id)) ELSE to_server
    /\ to_client' = Tail(to_client)
    /\ UNCHANGED <<server, tcp_up, datagrams, used>>

handle_switch_ok ==
    /\ ClientReads("SwitchOk")
    /\ client' = IF client.upgrade = "AwaitingSwitchOk" /\ client.upgrade_id = Head(to_client).id
                 THEN [WithoutAttempt(client, "Idle") EXCEPT
                          !.active_transport = "UdpQsp", !.pending_tcp_fallback = None]
                 ELSE client
    /\ to_client' = Tail(to_client)
    /\ UNCHANGED <<server, tcp_up, to_server, datagrams, used>>

----------------------------------------------------------------------------
(* The client: fallback, path failures and the end of the session.         *)

handle_fallback_to_tcp ==
    /\ ClientReads("FallbackToTcp")
    /\ LET id == Head(to_client).id
           duplicate == client.last_peer_fallback_id = id
       IN  /\ client' = IF duplicate THEN client
                        ELSE [schedule_discovery([client EXCEPT !.active_transport = "Tcp"], TRUE)
                                 EXCEPT !.last_peer_fallback_id = id]
           /\ to_server' = Written(to_server, Msg("FallbackOk", id))
    /\ to_client' = Tail(to_client)
    /\ UNCHANGED <<server, tcp_up, datagrams, used>>

handle_fallback_ok ==
    /\ ClientReads("FallbackOk")
    /\ client' = IF client.pending_tcp_fallback = Head(to_client).id
                 THEN [client EXCEPT !.pending_tcp_fallback = None] ELSE client
    /\ to_client' = Tail(to_client)
    /\ UNCHANGED <<server, tcp_up, to_server, datagrams, used>>

\* Mutant: the server is not told.
UdpLivenessTimeoutSilent ==
    /\ client.run = "Running" /\ client.active_transport = "UdpQsp"
    /\ client.tcp_alive /\ client.authenticated
    /\ ClientOnly(schedule_discovery([client EXCEPT !.active_transport = "Tcp"], TRUE))

UdpLivenessTimeout ==
    /\ client.run = "Running" /\ client.active_transport = "UdpQsp"
    /\ client.tcp_alive /\ client.authenticated
    /\ ClientRequestsFallback(schedule_discovery(client, TRUE))

\* PingTick or a TUN packet on the preferred UDP-QSP transport.
ClientSendsUdp ==
    /\ client.run = "Running" /\ client.active_transport = "UdpQsp"
    /\ datagrams' = datagrams \cup {Datagram("server", "Ping", client.transport, None)}
    /\ UNCHANGED <<client, server, tcp_up, to_server, to_client, used>>

\* Mutant: a client that does not prefer UDP-QSP yet does not tell the server.
handle_udp_error_before_switch ==
    /\ client.run = "Running" /\ client.udp_state = "Active" /\ client.tcp_alive
    /\ IF client.active_transport = "Tcp" THEN ClientOnly(schedule_discovery(client, FALSE))
       ELSE ClientRequestsFallback(schedule_discovery(client, FALSE))

\* handle_udp_error: a UDP-QSP packet cannot be sent (data, PING, PONG or probe),
\* or the socket fails.
handle_udp_error ==
    /\ client.run = "Running" /\ ReceiveTransport(client) # None
    /\ \/ /\ client.udp_state \in {"NeedDiscovery", "Pending"} /\ client.retained # None
          /\ ClientOnly([client EXCEPT !.retained = None, !.authenticated = FALSE])
       \/ /\ client.udp_state = "Active" /\ ~client.tcp_alive
          /\ ClientEnds("Closed")
       \/ /\ client.udp_state = "Active" /\ client.tcp_alive
          /\ ClientRequestsFallback(schedule_discovery(client, FALSE))

\* A network change for which the UDP-QSP path cannot be refreshed; a refresh that
\* succeeds changes nothing here.
handle_network_changed ==
    /\ client.run = "Running"
    /\ IF client.active_transport = "UdpQsp" /\ client.udp_state = "Active" /\ client.tcp_alive
       THEN ClientRequestsFallback(schedule_discovery(client, FALSE))
       ELSE ClientEnds("Closed")

\* TcpRead(0).
ClientTcpEof ==
    /\ client.run = "Running" /\ client.tcp_alive /\ ~tcp_up
    /\ IF client.active_transport = "UdpQsp"
       THEN /\ client' = [client EXCEPT !.tcp_alive = FALSE]
            /\ to_client' = <<>>
            /\ UNCHANGED <<server, tcp_up, to_server, datagrams, used>>
       ELSE ClientEnds("Closed")

\* Shutdown, CLOSE, idle timeout, TUN fault, a TCP read or write that fails, or, with
\* require_udp, a registration that cannot be prepared (handle_registration_setup_failure).
ClientExits == client.run = "Running" /\ ClientEnds("Closed")

----------------------------------------------------------------------------
(* The server: state transitions.                                          *)

ServerEnds(exit) ==
    /\ server' = [NewServer(server.rejects_auto_cipher) EXCEPT !.run = exit]
    /\ tcp_up' = FALSE
    /\ to_server' = <<>>
    /\ UNCHANGED <<client, to_client, datagrams, used>>

reset_udp_upgrade_attempt_preserving_history(s) ==
    [s EXCEPT !.upgrade_id = None, !.probe_seen = FALSE, !.ready_seen = FALSE,
              !.switch_to_udp_sent = FALSE]

reset_udp_upgrade_state(s) ==
    [reset_udp_upgrade_attempt_preserving_history(s) EXCEPT !.stale_upgrade_ids = <<>>]

\* retire_udp_transport also removes the connection id from the registry: no
\* packet reaches the session without udp_session.
retire_udp_transport(s) ==
    [reset_udp_upgrade_state(s) EXCEPT
        !.udp_session = None, !.peer_known = FALSE, !.authenticated = FALSE]

IsStale(s, id) == \E i \in DOMAIN s.stale_upgrade_ids : s.stale_upgrade_ids[i] = id

remember_stale_upgrade_id(s, id) ==
    [s EXCEPT !.stale_upgrade_ids =
        IF IsStale(s, id) THEN @
        ELSE IF Len(@) >= MAX_STALE_UPGRADE_IDS THEN Append(Tail(@), id)
        ELSE Append(@, id)]

\* maybe_send_switch_to_udp, for the server as the handler left it.
SwitchDue(s) == s.probe_seen /\ s.ready_seen /\ ~s.switch_to_udp_sent /\ s.upgrade_id # None

maybe_send_switch_to_udp(s) ==
    /\ server' = IF SwitchDue(s) THEN [s EXCEPT !.switch_to_udp_sent = TRUE] ELSE s
    /\ to_client' = IF SwitchDue(s) THEN Written(to_client, Msg("SwitchToUdp", s.upgrade_id))
                    ELSE to_client

\* send_tcp_fallback_request, after the transition to s.
send_tcp_fallback_request(s) ==
    LET send == s.pending_tcp_fallback = None
        id == used.fallback + 1
    IN  /\ server' = IF send THEN [s EXCEPT !.pending_tcp_fallback = id] ELSE s
        /\ to_client' = IF send THEN Written(to_client, Msg("FallbackToTcp", id)) ELSE to_client
        /\ used' = IF send THEN [used EXCEPT !.fallback = id] ELSE used

RetiredToTcp(s) == [retire_udp_transport(s) EXCEPT !.active_transport = "Tcp"]

\* A UDP-QSP packet cannot be sent or flushed and recovery is not RetireOnly;
\* `left` is the session that the handler leaves if TCP lives.
ServerUdpSendFails(s, left) ==
    IF s.tcp_alive
    THEN /\ send_tcp_fallback_request(left)
         /\ UNCHANGED <<client, tcp_up, to_server, datagrams>>
    ELSE ServerEnds("Closed")

----------------------------------------------------------------------------
(* The server: handlers.                                                   *)

\* Why the server answers REGISTER_FAIL.  The suite is checked before the prefix.
RegisterFailCodes(msg) ==
    IF server.rejects_auto_cipher /\ msg.auto THEN {"InvalidCipher"}
    ELSE IF msg.cid \in CollidingCids THEN {"InvalidCid"}
    ELSE {}

\* Mutant: a repeated registration keeps the keys of the first.
RegisteringOnce(s, key) ==
    [reset_udp_upgrade_state(s) EXCEPT
        !.udp_session = IF @ = None THEN key ELSE @, !.peer_known = FALSE, !.authenticated = FALSE]

\* handle_register_cid, in a session that prefers TCP.
Registering(s, key) ==
    [reset_udp_upgrade_state(s) EXCEPT
        !.udp_session = key, !.peer_known = FALSE, !.authenticated = FALSE]

handle_register_cid ==
    /\ ServerReads("RegisterCid")
    /\ LET msg == Head(to_server)
       IN  IF server.active_transport = "UdpQsp"
           THEN ServerEnds("ProtocolError")
           ELSE /\ \/ /\ \E code \in RegisterFailCodes(msg) :
                          to_client' = Written(to_client, [type |-> "RegisterFail", code |-> code])
                      /\ UNCHANGED server
                   \/ /\ RegisterFailCodes(msg) = {}
                      /\ server' = Registering(server, msg.key)
                      /\ to_client' = Written(to_client, [type |-> "RegisterOk", cid |-> msg.cid])
                /\ to_server' = Tail(to_server)
                /\ UNCHANGED <<client, tcp_up, datagrams, used>>

handle_udp_ready ==
    /\ ServerReads("UdpReady")
    /\ LET id == Head(to_server).id
       IN  IF server.upgrade_id \in {None, id}
           THEN maybe_send_switch_to_udp([server EXCEPT !.upgrade_id = id, !.ready_seen = TRUE])
           ELSE UNCHANGED <<server, to_client>>
    /\ to_server' = Tail(to_server)
    /\ UNCHANGED <<client, tcp_up, datagrams, used>>

handle_switch_ack ==
    /\ ServerReads("SwitchAck")
    /\ LET id == Head(to_server).id
           committed == server.upgrade_id = id /\ server.switch_to_udp_sent
       IN  /\ server' = IF committed
                        THEN reset_udp_upgrade_attempt_preserving_history(
                                 remember_stale_upgrade_id(
                                     [server EXCEPT !.active_transport = "UdpQsp"], id))
                        ELSE server
           /\ to_client' = IF committed THEN Written(to_client, Msg("SwitchOk", id)) ELSE to_client
    /\ to_server' = Tail(to_server)
    /\ UNCHANGED <<client, tcp_up, datagrams, used>>

ServerHandlesFallbackToTcp ==
    /\ ServerReads("FallbackToTcp")
    /\ LET id == Head(to_server).id
       IN  /\ server' = IF server.last_peer_fallback_id = id THEN server
                        ELSE [reset_udp_upgrade_state(server) EXCEPT
                                 !.active_transport = "Tcp", !.last_peer_fallback_id = id]
           /\ to_client' = Written(to_client, Msg("FallbackOk", id))
    /\ to_server' = Tail(to_server)
    /\ UNCHANGED <<client, tcp_up, datagrams, used>>

ServerHandlesFallbackOk ==
    /\ ServerReads("FallbackOk")
    /\ server' = IF server.pending_tcp_fallback = Head(to_server).id
                 THEN [server EXCEPT !.pending_tcp_fallback = None] ELSE server
    /\ to_server' = Tail(to_server)
    /\ UNCHANGED <<client, tcp_up, to_client, datagrams, used>>

\* Mutant: the new id is remembered in place of the old one.
SupersededSwapped(s, id) ==
    IF s.upgrade_id \in {None, id} THEN [s EXCEPT !.upgrade_id = id]
    ELSE [reset_udp_upgrade_attempt_preserving_history(
              remember_stale_upgrade_id(s, id)) EXCEPT !.upgrade_id = id]

\* The attempt that a probe leaves in progress (note_upgrade_id): a probe with
\* another id supersedes it, unless that id was itself superseded.
Superseded(s, id) ==
    IF s.upgrade_id \in {None, id} THEN [s EXCEPT !.upgrade_id = id]
    ELSE [reset_udp_upgrade_attempt_preserving_history(
              remember_stale_upgrade_id(s, s.upgrade_id)) EXCEPT !.upgrade_id = id]

Heard(s) == [s EXCEPT !.authenticated = TRUE]

\* handle_udp_claim for a probe; the acknowledgement may fail, and then the
\* transport is retired without a word to the client (RetireOnly).
handle_upgrade_probe(d) ==
    LET s == [server EXCEPT !.peer_known = TRUE]
        probed == [Superseded(s, d.id) EXCEPT !.probe_seen = TRUE]
    IN  \/ /\ IsStale(s, d.id)
           /\ server' = Heard(s)
           /\ UNCHANGED <<client, tcp_up, to_server, to_client, datagrams, used>>
        \/ /\ ~IsStale(s, d.id)
           /\ datagrams' = datagrams \cup {Datagram("client", "UpgradeProbeAck", d.key, d.id)}
           /\ maybe_send_switch_to_udp(Heard(probed))
           /\ UNCHANGED <<client, tcp_up, to_server, used>>
        \/ /\ ~IsStale(s, d.id) /\ s.tcp_alive
           /\ server' = Heard(RetiredToTcp(probed))
           /\ UNCHANGED <<client, tcp_up, to_server, to_client, datagrams, used>>
        \/ /\ ~IsStale(s, d.id) /\ ~s.tcp_alive
           /\ ServerEnds("Closed")

\* handle_udp_claim for other traffic: a PING is answered, and the PONG may fail.
ServerHandlesPing ==
    \/ /\ server' = Heard([server EXCEPT !.peer_known = TRUE])
       /\ UNCHANGED <<client, tcp_up, to_server, to_client, datagrams, used>>
    \/ LET s == [server EXCEPT !.peer_known = TRUE]
       IN  ServerUdpSendFails(s, Heard(RetiredToTcp(s)))

\* The registry routes a datagram to the session by its connection id, and only
\* the keys of udp_session open it.
handle_udp_claim(d) ==
    /\ server.run = "Running" /\ d.to = "server" /\ d.key = server.udp_session
    /\ \/ d.type = "UpgradeProbe" /\ handle_upgrade_probe(d)
       \/ d.type = "Ping" /\ ServerHandlesPing

\* A ping tick or a TUN packet on the preferred UDP-QSP transport.
ServerSendsUdp ==
    /\ server.run = "Running" /\ server.active_transport = "UdpQsp"
    /\ \/ /\ datagrams' = datagrams \cup {Datagram("client", "Ping", server.udp_session, None)}
          /\ UNCHANGED <<client, server, tcp_up, to_server, to_client, used>>
       \/ ServerUdpSendFails(server, RetiredToTcp(server))

handle_udp_liveness_timeout ==
    /\ server.run = "Running" /\ server.active_transport = "UdpQsp"
    /\ server.tcp_alive /\ server.authenticated
    /\ send_tcp_fallback_request(RetiredToTcp(server))
    /\ UNCHANGED <<client, tcp_up, to_server, datagrams>>

\* handle_tcp_read_result with n = 0.
ServerTcpEof ==
    /\ server.run = "Running" /\ server.tcp_alive /\ ~tcp_up
    /\ IF server.active_transport = "UdpQsp"
       THEN /\ server' = [server EXCEPT !.tcp_alive = FALSE]
            /\ to_server' = <<>>
            /\ UNCHANGED <<client, tcp_up, to_client, datagrams, used>>
       ELSE ServerEnds("Closed")

\* A managed shutdown or a protocol error of the peer: the session ends with a
\* CLOSE, over TCP or UDP-QSP, that may or may not get through.
send_close_best_effort == server.run = "Running" /\ ServerEnds("Closed")

\* CLOSE from the peer, idle timeout, I/O failure.
ServerExits == server.run = "Running" /\ ServerEnds("Closed")

----------------------------------------------------------------------------
ClientTcpHandler ==
    \/ handle_register_ok
    \/ handle_register_fail
    \/ handle_switch_to_udp
    \/ handle_switch_ok
    \/ handle_fallback_to_tcp
    \/ handle_fallback_ok

ClientTimer ==
    \/ SpawnQuicDiscovery
    \/ attempt_udp_registration
    \/ handle_registration_timeout
    \/ send_upgrade_probe
    \/ handle_udp_upgrade_timeout
    \/ RetryUpgrade
    \/ UdpLivenessTimeout
    \/ ClientSendsUdp

ServerTcpHandler ==
    \/ handle_register_cid
    \/ handle_udp_ready
    \/ handle_switch_ack
    \/ ServerHandlesFallbackToTcp
    \/ ServerHandlesFallbackOk

Next ==
    \/ TcpDies
    \/ ClientTcpHandler
    \/ ClientTimer
    \/ DiscoverySucceeds
    \/ DiscoveryFails
    \/ handle_udp_error
    \/ handle_network_changed
    \/ ClientTcpEof
    \/ ClientExits
    \/ ServerTcpHandler
    \/ ServerSendsUdp
    \/ handle_udp_liveness_timeout
    \/ ServerTcpEof
    \/ send_close_best_effort
    \/ ServerExits
    \/ \E d \in datagrams : ClientReadsUdp(d) \/ handle_udp_claim(d)

Spec == Init /\ [][Next]_vars

\* Fairness: TCP delivers while it lives and the session tasks read it; an end of
\* stream is noticed; the liveness timer of the client expires once nothing more
\* can be authenticated under its keys, because the server has left them.
\* Nothing is assumed about UDP, about discovery or about failures.
FairSpec ==
    /\ Spec
    /\ WF_vars(ClientTcpHandler)
    /\ WF_vars(ServerTcpHandler)
    /\ WF_vars(ClientTcpEof)
    /\ WF_vars(ServerTcpEof)
    /\ WF_vars(UdpLivenessTimeout /\ server.udp_session # client.transport)

\* The timers of discovery and registration expire, a discovery ends within its
\* timeout and an upgrade attempt within its deadline.
TimersExpire ==
    /\ WF_vars(SpawnQuicDiscovery)
    /\ WF_vars(DiscoverySucceeds \/ DiscoveryFails)
    /\ WF_vars(attempt_udp_registration)
    /\ WF_vars(handle_registration_timeout)
    /\ WF_vars(handle_udp_upgrade_timeout)

----------------------------------------------------------------------------
(* Properties.                                                             *)

BothRun == client.run = "Running" /\ server.run = "Running"
InFlight(queue, type) == \E i \in DOMAIN queue : queue[i].type = type

\* A session prefers UDP-QSP only with a transport to send on, with its liveness
\* timer armed and with no unanswered fallback request: otherwise packets vanish
\* in queue_udp_message, the path is never declared dead, or the request that a
\* failure calls for is suppressed as a repetition.
UdpPreferenceIsBacked ==
    /\ client.active_transport = "UdpQsp" =>
           /\ client.udp_state = "Active" /\ client.authenticated
           /\ client.pending_tcp_fallback = None
    /\ server.active_transport = "UdpQsp" =>
           /\ server.udp_session # None /\ server.peer_known /\ server.authenticated
           /\ server.pending_tcp_fallback = None

\* docs/protocol/connection-flow.md 2.5: SWITCH_OK establishes that both peers
\* observed the commit.  While TCP lives the two sessions differ in what they
\* prefer only as long as a message that settles it is on its way, or the server
\* has retired the transport after a probe acknowledgement that it could not send.
SwitchIsAgreed ==
    BothRun /\ tcp_up =>
        /\ client.active_transport = "UdpQsp" /\ server.active_transport = "Tcp" =>
               InFlight(to_client, "FallbackToTcp") \/ server.udp_session = None
        /\ client.active_transport = "Tcp" /\ server.active_transport = "UdpQsp" =>
               InFlight(to_client, "SwitchOk") \/ InFlight(to_server, "FallbackToTcp")

\* docs/protocol/connection-flow.md 2.5, make before break: what the server sends
\* on UDP-QSP can be opened by the client, on the transport in use or the one it
\* retained, unless the client lost it and its fallback request is on its way.
ReceivePathIsKept ==
    BothRun /\ tcp_up /\ server.active_transport = "UdpQsp" =>
        \/ ReceiveTransport(client) = server.udp_session
        \/ InFlight(to_server, "FallbackToTcp")

\* REGISTER_OK names the connection id and not the keys.  However registrations
\* are retried and answered late, the two sessions hold the same keys once TCP
\* is quiet.
KeysAgree ==
    BothRun /\ tcp_up /\ to_server = <<>> /\ to_client = <<>>
        /\ client.udp_state = "Active" /\ server.udp_session # None
        => client.transport = server.udp_session

\* An upgrade attempt runs only over an active transport of a session that
\* prefers TCP; its timer would otherwise be due again at once, forever
\* (start_udp_upgrade_attempt returns without re-arming it).
AttemptHasTransport ==
    client.upgrade \in {"Upgrading", "AwaitingSwitchOk", "TcpOnlyBlockedUdp"} =>
        client.udp_state = "Active" /\ client.active_transport = "Tcp"

\* No client of this repository makes the server terminate a session for
\* REGISTER_CID on a session that prefers UDP-QSP (handle_tcp_message).
ServerSeesNoViolation == server.run # "ProtocolError"

\* The server never works on an attempt that it remembers as superseded or
\* committed, whatever delayed probes arrive (note_upgrade_id).
StaleAttemptStaysStale ==
    server.upgrade_id # None => ~IsStale(server, server.upgrade_id)

\* docs/protocol/connection-flow.md 4.3: the client keeps a UDP transport able to
\* receive while it discovers and registers a replacement, through any number of
\* failed discoveries.  It gives one up only when the transport itself fails.
ReceivePathSurvives ==
    /\ client.run = "Running" /\ client'.run = "Running"
    /\ ReceiveTransport(client) # None /\ ReceiveTransport(client') = None
    => handle_udp_error \/ handle_network_changed

\* require_udp: a registration is repeated only to change the cipher policy, once
\* in a connection; any other refusal or silence is the end of the session
\* (handle_register_fail, handle_registration_timeout).
RegistrationIsNotRepeated ==
    client.require_udp /\ client.run = "Running" =>
        used.key <= used.cid + (IF client.cipher_policy_auto THEN 0 ELSE 1)

\* require_udp: a client on TCP comes to prefer UDP-QSP or ends, whatever is lost;
\* it never stays on TCP, provided that its timers expire.
RequiredUdpIsDecided ==
    TimersExpire =>
        ((client.require_udp /\ client.run = "Running" /\ client.active_transport = "Tcp")
            ~> (client.run # "Running" \/ client.active_transport = "UdpQsp"))

\* Two sessions that differ in their preferred transport agree again, or one of
\* them ends, with no help from UDP.
PreferencesConverge ==
    (BothRun /\ client.active_transport # server.active_transport)
        ~> (~BothRun \/ client.active_transport = server.active_transport)

\* A fallback request is answered while TCP lives.
FallbackIsAnswered ==
    (client.pending_tcp_fallback # None) ~> (client.pending_tcp_fallback = None \/ ~tcp_up)

\* What a session believes of its UDP side is backed by what it owns: its preferred
\* transport and its attempt have a transport, and no attempt is a superseded one.
UdpStateIsBacked ==
    TypeOK /\ UdpPreferenceIsBacked /\ AttemptHasTransport /\ StaleAttemptStaysStale

\* docs/protocol/connection-flow.md, make before break: in every state the client can
\* open what the server sends, and no step but a failure takes a receive path away.
MakeBeforeBreak == [][ReceivePathIsKept' /\ ReceivePathSurvives]_vars

\* Every exchange over TCP comes to its end: preferences converge and a fallback
\* request is answered.
SwitchesSettle == PreferencesConverge /\ FallbackIsAnswered

\* With require_udp a connection is decided for UDP or ends, and gets there without
\* repeating registrations.
RequiredUdpIsReached == []RegistrationIsNotRepeated /\ RequiredUdpIsDecided
============================================================================
