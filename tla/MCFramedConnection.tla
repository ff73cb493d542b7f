------------------------- MODULE MCFramedConnection -------------------------
(***************************************************************************)
(* Fields of one or two bytes, an allowlist of two clients, one of them    *)
(* disabled, and what an end that does not run this code may write.        *)
(***************************************************************************)
EXTENDS FramedConnection, TLC

MCWidth ==
    [length |-> 1, u64 |-> 1, client_id |-> 1, ipv4 |-> 1, mtu |-> 1, challenge |-> 1,
     signature |-> 5, dcid |-> 2, secret |-> 1]

\* Client <<1>> is enabled, client <<2>> is not.
MCAllowlist ==
    (<<1>> :> [enabled |-> TRUE, assigned_ipv4 |-> <<10>>, key |-> 1])
        @@ (<<2>> :> [enabled |-> FALSE, assigned_ipv4 |-> <<20>>, key |-> 2])

MCClient(id, ip, key, mtu, server_mtu) ==
    [client_id |-> <<id>>, assigned_ipv4 |-> <<ip>>, key |-> key, tun_mtu |-> mtu,
     server_mtu |-> server_mtu]

\* Right, with an MTU below and one above the largest control message; then
\* unknown, disabled, with another's address, key and MTU.
MCConfigs ==
    {MCClient(1, 10, 1, 2, 2), MCClient(1, 10, 1, 15, 15), MCClient(3, 10, 1, 2, 2),
     MCClient(2, 20, 2, 2, 2), MCClient(1, 20, 1, 2, 2), MCClient(1, 10, 2, 2, 2),
     MCClient(1, 10, 1, 15, 2)}

MCForeignConfigs == {MCClient(1, 10, 1, 2, 2)}

\* A ClientHello with `rest` after the session id.
MCHello(random_suffix, rest) ==
    <<<<1>>, <<6 + Len(rest)>>, <<3>>, <<10>>, random_suffix, <<32>>, <<0>>, <<0>>>> \o rest
MCOwnHello == MCHello(<<11>>, <<<<7>>>>)
MCSealed == client_hello_session_id_callback(MCOwnHello, 1)
MCFlight(message, sizes, tail) == [message |-> message, sizes |-> sizes, tail |-> tail]

\* Of another implementation with the secret: in several records, one of them
\* empty, with more behind it or in the same record, and too long; sealed with
\* another secret; parts changed after it was sealed; not sealed, not a ClientHello,
\* not TLS, cut off.
MCForeignHellos ==
    {MCFlight(MCSealed, sizes, <<>>) :
        sizes \in {<<9>>, <<1, 8>>, <<2, 7>>, <<6, 3>>, <<8, 1>>, <<0, 9>>, <<3, 3, 3>>,
                   <<7>>, <<9, 0>>}}
    \cup {MCFlight(MCSealed, <<9>>, <<<<20>>, <<1>>, <<1>>>>),
          MCFlight(MCSealed, <<5>>, <<<<21>>, <<1>>>>),
          MCFlight(client_hello_session_id_callback(MCHello(<<11>>, <<>>), 1), <<8>>, <<>>),
          MCFlight(client_hello_session_id_callback(MCHello(<<11>>, <<>>), 1) \o <<<<7>>>>,
                   <<9>>, <<>>),
          MCFlight(client_hello_session_id_callback(
                        MCHello(<<11>>, <<<<7>>, <<7>>, <<7>>, <<7>>>>), 1), <<12>>, <<>>)}
    \cup {MCFlight(message, <<9>>, <<>>) :
            message \in {client_hello_session_id_callback(MCOwnHello, 2), MCOwnHello,
                         [MCSealed EXCEPT ![9] = <<8>>], [MCSealed EXCEPT ![5] = <<12>>],
                         [MCSealed EXCEPT ![8] = <<8>>], [MCSealed EXCEPT ![6] = <<31>>],
                         [MCSealed EXCEPT ![2] = <<3>>], [MCSealed EXCEPT ![2] = <<6>>],
                         [MCSealed EXCEPT ![1] = <<2>>]}}
    \cup {MCFlight(MCSealed, <<>>, <<<<71>>, <<69>>, <<84>>>>)}

MCFrame(ty, payload) == encode_frame([ty |-> ty, payload |-> payload])
MCAuth(key, challenge_byte) ==
    MCFrame("Auth", <<1, 10, 2, challenge_byte>> \o <<key, 1, 10, 2, challenge_byte>>)

MCForeignFrames ==
    {MCFrame(ty, encode_payload(ty, SampleValue(ty))) :
        ty \in DOMAIN MessageType \ {"Auth", "AuthOk", "AuthFail", "Data", "Close"}}
    \cup {MCAuth(1, 7), MCAuth(2, 7), MCAuth(1, 8)}
    \cup {MCFrame("AuthOk", <<>>), MCFrame("AuthFail", <<3>>), MCFrame("Close", <<0>>),
          MCFrame("Close", <<3>>), MCFrame("Data", <<0, 0>>), MCFrame("Data", <<0, 0, 0>>)}
    \* of another version: an unknown type or code, a length too large, a field more
    \cup {<<99, 0>>, <<7, 200, 0>>, MCFrame("Close", <<9>>), MCFrame("Ping", <<1, 1>>),
          MCFrame("AuthOk", <<1>>), MCFrame("UpgradeProbe", <<1>>)}

=============================================================================
