---------------------------- MODULE MCDeployment ----------------------------
(* A small instance of Deployment for TLC: addresses of 3 bits, the server   *)
(* at 1 in the subnet 0..3; durations in half milliseconds.                  *)
EXTENDS Deployment

MCNewServer ==
    [network |-> [listen_tcp |-> 443, listen_udp |-> 443, nginx_tcp_upstream |-> 8080,
                  nginx_udp_upstream |-> 8080],
     tun |-> [tun_name |-> "tun0", tun_mtu |-> 1186, tun_ipv4 |-> 1, tun_prefix |-> 1],
     transport |-> [allowed_ciphers |-> {"Aes128Gcm", "ChaCha20Poly1305"}],
     limits |-> [udp_nat_max_entries |-> 1024, session_queue_size |-> 1024,
                 max_auth_inflight |-> 128, tcp_connection_cap |-> 512]]

Changes(part, field, values) == {[part |-> part, new |-> [f \in {field} |-> v]] : v \in values}

\* Two intervals that no Instant can reach, from one edit.
LongPings == {[part |-> "timing",
               new |-> [ping_min |-> LAST_INSTANT + 1, ping_max |-> 2 * LAST_INSTANT + 1]]}
PingEdits ==
    LongPings \cup Changes("timing", "ping_min", {1, Seconds(31)})
        \cup Changes("timing", "ping_max", {Seconds(10) + 1, MAX_TIMEOUT + 1})
TunEdits == Changes("tun", "tun_mtu", {1406, 1407})

\* Edits that the clients notice.
SharedEdits ==
    Changes("tun", "tun_mtu", {1406}) \cup Changes("tun", "tun_prefix", {2})
        \cup Changes("tun", "tun_ipv4", {2}) \cup Changes("network", "listen_tcp", {8443})
MCEdits ==
    SharedEdits \cup PingEdits \cup TunEdits
        \cup Changes("timing", "idle_timeout", {MAX_TIMEOUT + 1})
        \cup Changes("tun", "tun_prefix", {4})
        \cup Changes("transport", "allowed_ciphers", {{}})
        \cup Changes("limits", "udp_nat_max_entries", {0})

MCClientEdits ==
    PingEdits \cup TunEdits
        \cup Changes("timing", "reconnect_min", {1, 3, Seconds(6)})
        \cup Changes("timing", "reconnect_max", {Milliseconds(200), 2 * LAST_INSTANT + 1})

Lone == {"remove_client", "init", "generate_certs"}

MCHabit ==
    [careful |-> [alone |-> Lone, addresses |-> {2, 3}, domains |-> {"vpn.example"},
                  edits |-> {}, clientEdits |-> {}, commands |-> 5, mishaps |-> 2, serials |-> 2],
     inventive |-> [alone |-> Lone, addresses |-> {3},
                    domains |-> {"vpn.example", "*.example", ""},
                    edits |-> SharedEdits, clientEdits |-> {},
                    commands |-> 4, mishaps |-> 1, serials |-> 2],
     tuning |-> [alone |-> Lone, addresses |-> 1..4, domains |-> {"vpn.example"},
                 edits |-> MCEdits, clientEdits |-> MCClientEdits,
                 commands |-> 2, mishaps |-> 2, serials |-> 1],
     hasty |-> [alone |-> {}, addresses |-> {2, 3}, domains |-> {"vpn.example"},
                edits |-> {}, clientEdits |-> {}, commands |-> 5, mishaps |-> 1, serials |-> 1],
     hurried |-> [alone |-> {}, addresses |-> {2}, domains |-> {"vpn.example"},
                edits |-> {}, clientEdits |-> {}, commands |-> 3, mishaps |-> 1, serials |-> 2]]

=============================================================================
