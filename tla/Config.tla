------------------------------- MODULE Config -------------------------------
(***************************************************************************)
(* The configuration of a server and of its clients: what a file may say,   *)
(* what loading it refuses, and what the running programs derive from it.   *)
(*                                                                         *)
(* A configuration is a record of sections, as in the TOML file; the        *)
(* scalars at the top level of the file form the section "limits" (server)  *)
(* or "mode" (client).  Durations are counted in ticks, so that an interval *)
(* below a millisecond exists.  An address is a number of AddrBits bits.    *)
(***************************************************************************)
EXTENDS Naturals, Sequences

CONSTANTS
    AddrBits,        \* bits of an address (32)
    TicksPerMilli,   \* resolution of durations
    MAX_TIMEOUT,     \* in ticks (1 hour)
    MAX_TUN_MTU,     \* 1406
    ETHERNET_IP_MTU, \* 1500
    WrapperOverhead, \* bytes around a packet on the wire: UDP-QSP and outer IPv6/UDP
    U64,             \* number of values of a u64 (2^64), which counts milliseconds
    LAST_INSTANT     \* ticks from now to the last Instant; Instant + Duration panics beyond

ASSUME ConfigAssumption ==
    /\ AddrBits \in Nat \ {0} /\ TicksPerMilli \in Nat \ {0}
    /\ MAX_TIMEOUT \in Nat \ {0}
    /\ MAX_TUN_MTU + WrapperOverhead <= ETHERNET_IP_MTU
    /\ MAX_TIMEOUT < U64 * TicksPerMilli /\ U64 * TicksPerMilli <= LAST_INSTANT

MIN_INTERVAL == TicksPerMilli

\* A validator returns the name of a ConfigError, or "Ok".
Check(error, occurs) == IF occurs THEN error ELSE "Ok"

\* The `?` chains of the validators: the first error ends the validation.
FirstOf(results) ==
    LET errors == SelectSeq(results, LAMBDA r : r # "Ok")
    IN  IF errors = <<>> THEN "Ok" ELSE Head(errors)

----------------------------------------------------------------------------
(* Durations.                                                               *)

\* Mutant: only zero is refused, as for the timeouts.
validate_interval_nonzero(value) == IF value = 0 THEN "IntervalTooSmall" ELSE "Ok"

validate_interval(value) == IF value < MIN_INTERVAL THEN "IntervalTooSmall" ELSE "Ok"

validate_timeout(value) ==
    FirstOf(<<Check("ZeroTimeout", value = 0), Check("TimeoutTooLarge", value > MAX_TIMEOUT)>>)

validate_ping_interval(ping_min, ping_max) ==
    FirstOf(<<validate_interval(ping_min), validate_interval(ping_max),
              Check("InvalidPingInterval", ping_min > ping_max)>>)

\* Timeouts of the two programs, in the order in which they are checked.
ServerTimeouts ==
    <<"auth_timeout", "tcp_write_timeout", "udp_liveness_timeout", "idle_timeout",
      "metrics_interval", "tcp_classification_timeout">>
ClientTimeouts ==
    <<"auth_timeout", "tcp_write_timeout", "register_timeout", "quic_discovery_timeout",
      "udp_liveness_timeout", "idle_timeout", "metrics_interval">>

validate_timeouts(timing, fields) ==
    FirstOf([i \in DOMAIN fields |-> validate_timeout(timing[fields[i]])])

ServerTimingConfig_validate(timing) ==
    FirstOf(<<validate_ping_interval(timing.ping_min, timing.ping_max),
              validate_timeouts(timing, ServerTimeouts)>>)

ClientTimingConfig_validate(timing) ==
    FirstOf(<<validate_ping_interval(timing.ping_min, timing.ping_max),
              validate_interval(timing.reconnect_min), validate_interval(timing.reconnect_max),
              Check("InvalidReconnectInterval",
                             timing.reconnect_min > timing.reconnect_max),
              validate_timeouts(timing, ClientTimeouts)>>)

----------------------------------------------------------------------------
(* The overlay network.                                                     *)

\* addr & mask(prefix), up to a shift: a prefix beyond the address is all of it.
ipv4_network_bits(addr, prefix) ==
    IF prefix >= AddrBits THEN addr ELSE addr \div 2^(AddrBits - prefix)

contains_ipv4(tun, addr) ==
    ipv4_network_bits(addr, tun.tun_prefix) = ipv4_network_bits(tun.tun_ipv4, tun.tun_prefix)

TunConfig_validate(tun) ==
    FirstOf(<<Check("EmptyTunName", tun.tun_name = ""),
              Check("InvalidTunMtu", tun.tun_mtu = 0 \/ tun.tun_mtu > MAX_TUN_MTU),
              Check("InvalidTunPrefix", tun.tun_prefix = 0 \/ tun.tun_prefix > AddrBits)>>)

----------------------------------------------------------------------------
(* Server.                                                                  *)

\* Every endpoint by its port.
ServerNetworkConfig_validate(network) ==
    Check("ZeroPort", \E field \in DOMAIN network : network[field] = 0)

ServerUdpQspConfig_validate(udp_qsp) ==
    Check("EmptyUdpQspAllowedCiphers", udp_qsp.allowed_ciphers = {})

\* Client number i of the list, against the TUN section and the clients before it.
ServerClient_check(config, i) ==
    LET client == config.clients[i]
        before == {config.clients[j] : j \in 1..(i - 1)}
    IN  FirstOf(
            <<Check("ClientUsesTunAddress", client.assigned_ipv4 = config.tun.tun_ipv4),
              Check("ClientOutsideTunSubnet", ~contains_ipv4(config.tun, client.assigned_ipv4)),
              Check("DuplicateClientId", \E c \in before : c.client_id = client.client_id),
              Check("DuplicateAssignedIpv4",
                \E c \in before : c.assigned_ipv4 = client.assigned_ipv4)>>)

ServerConfig_validate(config) ==
    FirstOf(<<ServerNetworkConfig_validate(config.network),
              TunConfig_validate(config.tun),
              FirstOf([i \in DOMAIN config.clients |-> ServerClient_check(config, i)]),
              ServerTimingConfig_validate(config.timing),
              ServerUdpQspConfig_validate(config.transport),
              FirstOf(<<Check("ZeroSessionQueueSize", config.limits.session_queue_size = 0),
                        Check("ZeroMaxAuthInflight", config.limits.max_auth_inflight = 0),
                        Check("ZeroTcpConnectionCap", config.limits.tcp_connection_cap = 0),
                        Check("ZeroUdpNatMaxEntries", config.limits.udp_nat_max_entries = 0)>>)>>)

\* What ServerConfig::from_toml_str makes of a file; {} is a text that does not parse.
ServerConfig_loads(text) == {config \in text : ServerConfig_validate(config) = "Ok"}

----------------------------------------------------------------------------
(* Client.                                                                  *)

ClientNetworkConfig_validate(network) ==
    FirstOf(<<Check("EmptyHostname", network.hostname = ""), Check("ZeroPort", network.port = 0)>>)

ClientConfig_validate(config) ==
    FirstOf(<<ClientNetworkConfig_validate(config.network),
              TunConfig_validate(config.tun),
              Check("ClientTunIpMismatch",
                             config.tun.tun_ipv4 # config.identity.assigned_ipv4),
              ClientTimingConfig_validate(config.timing),
              Check("RequireUdpNeedsUpgrade",
                             config.mode.require_udp /\ ~config.mode.enable_upgrade)>>)

ClientConfig_loads(text) == {config \in text : ClientConfig_validate(config) = "Ok"}

----------------------------------------------------------------------------
(* Defaults.                                                                *)

Milliseconds(n) == n * TicksPerMilli
Seconds(n) == Milliseconds(1000 * n)

\* defaults.rs, the durations.
DEFAULT ==
    [ping_min |-> Seconds(10), ping_max |-> Seconds(30), auth_timeout |-> Seconds(10),
     tcp_write_timeout |-> Seconds(10), idle_timeout |-> Seconds(300),
     udp_liveness_timeout |-> Seconds(90), metrics_interval |-> Seconds(300),
     tcp_classification_timeout |-> Seconds(60), register_timeout |-> Seconds(10),
     quic_discovery_timeout |-> Seconds(15), reconnect_min |-> Milliseconds(200),
     reconnect_max |-> Seconds(5)]

ServerTimingConfig_default ==
    [f \in {"ping_min", "ping_max"} \cup {ServerTimeouts[i] : i \in DOMAIN ServerTimeouts}
        |-> DEFAULT[f]]
ClientTimingConfig_default ==
    [f \in {"ping_min", "ping_max", "reconnect_min", "reconnect_max"}
            \cup {ClientTimeouts[i] : i \in DOMAIN ClientTimeouts} |-> DEFAULT[f]]

\* Mutant: the TUN section is copied with the address of the server.
build_client_config_tun(config, client_id, privkey, assigned_ipv4, hostname, cert_pem) ==
    [network |-> [hostname |-> hostname, port |-> config.network.listen_tcp],
     tls |-> [tls_ca |-> cert_pem],
     identity |-> [client_id |-> client_id, shared_secret |-> config.server_secret,
                   assigned_ipv4 |-> assigned_ipv4, privkey_ed25519 |-> privkey],
     tun |-> config.tun,
     transport |-> [cipher |-> "Auto"],
     mode |-> [enable_upgrade |-> TRUE, require_udp |-> FALSE],
     timing |-> ClientTimingConfig_default]

build_client_config(config, client_id, privkey, assigned_ipv4, hostname, cert_pem) ==
    [network |-> [hostname |-> hostname, port |-> config.network.listen_tcp],
     tls |-> [tls_ca |-> cert_pem],
     identity |-> [client_id |-> client_id, shared_secret |-> config.server_secret,
                   assigned_ipv4 |-> assigned_ipv4, privkey_ed25519 |-> privkey],
     tun |-> [config.tun EXCEPT !.tun_ipv4 = assigned_ipv4],
     transport |-> [cipher |-> "Auto"],
     mode |-> [enable_upgrade |-> TRUE, require_udp |-> FALSE],
     timing |-> ClientTimingConfig_default]

----------------------------------------------------------------------------
(* What the running programs do with the numbers.                           *)

Millis(ticks) == ticks \div TicksPerMilli

\* u64::try_from(..).unwrap_or(u64::MAX), and the cast `as u64`.
saturating_millis(ticks) == IF Millis(ticks) < U64 THEN Millis(ticks) ELSE U64 - 1
truncated_millis(ticks) == Millis(ticks) % U64

\* schedule_next_ping of the server: the delay is ping_min plus a jitter of at
\* most `max - min`, a subtraction that panics below zero, as does an addition
\* beyond the last Instant.
ServerPingDelay(timing) ==
    [least |-> timing.ping_min,
     most |-> timing.ping_min
                + Milliseconds(truncated_millis(timing.ping_max - timing.ping_min))]
ServerPingPanics(timing) ==
    timing.ping_max < timing.ping_min \/ ServerPingDelay(timing).most > LAST_INSTANT

\* schedule_next_ping of the client counts whole milliseconds from the start.
ClientPingDelay(timing) ==
    LET min_ms == saturating_millis(timing.ping_min)
        max_ms == saturating_millis(timing.ping_max)
    IN  [least |-> Milliseconds(min_ms),
         most |-> Milliseconds(IF max_ms > min_ms THEN max_ms ELSE min_ms)]

\* ReconnectBackoff::next_delay: the delay, from `current`, which then doubles.
next_delay(current) ==
    LET cap == saturating_millis(current)
        half == cap \div 2
    IN  [least |-> Milliseconds(cap - half), most |-> Milliseconds(cap - half + half)]

=============================================================================
