-------------------------- MODULE FramedConnection --------------------------
(***************************************************************************)
(* One TCP connection between a client and the server: the ClientHello by  *)
(* which the server tells a VPN client from other HTTPS traffic, the       *)
(* framed TcpChannel at both ends of the TLS connection, the               *)
(* authentication exchange over it, and the read loops of the two sessions *)
(* that take the channel over.                                             *)
(*                                                                         *)
(* TLS delivers a byte stream: a read returns any number of the bytes that *)
(* were written, so a message may arrive in pieces and several may arrive  *)
(* at once.  An end that does not run this code (another version, a port   *)
(* scanner) writes frames of its own choice and reads nothing.  What the   *)
(* session handlers do with a message of the upgrade protocol is the       *)
(* subject of TransportSwitch; here a session may send any message that    *)
(* its code sends.                                                         *)
(***************************************************************************)
EXTENDS Wire, ClientHello

CONSTANTS
    Allowlist,          \* ServerConfig.clients: client_id -> entry
    Configs,            \* what the client, and the MTU of the server, may be configured to
    ForeignConfigs,     \* the same, where one end does not run this code
    AUTH_MAX_FRAME,     \* frame limit of the client while it authenticates
    KeyUpdateInterval,  \* outbound messages per TLS key update
    PacketSizes,        \* sizes of the packets that the TUN device delivers
    ServerSecret,       \* server_secret of both configurations
    OwnHello,           \* the ClientHello of a client before the callback
    ForeignHellos,      \* the first flights of clients that do not run this code
    ForeignFrames,      \* what an end that does not run this code may write
    MaxSends            \* bound on the messages that are not answers, in a behaviour

ASSUME WireAssumption ==
    /\ KeyUpdateInterval \in Nat \ {0} /\ MaxSends \in Nat
    /\ \A f \in DOMAIN Width : Width[f] \in Nat \ {0}
    \* registration.rs: "verify this value still exceeds all control payloads";
    \* the lengths of the code are 118 and 124.
    /\ AUTH_PAYLOAD_LEN <= MAX_CONTROL_FRAME_LEN
    /\ MAX_CONTROL_FRAME_LEN <= AUTH_MAX_FRAME
    \* A ClientHello of BoringSSL is one record, well below 8 KiB.
    /\ client_hello_layout(OwnHello) /\ Len(OwnHello) > SESSION_ID
    /\ TLS_RECORD_HEADER_LEN + Len(OwnHello) <= MAX_TCP_CLIENT_HELLO_WIRE_LEN
    /\ \A c \in Configs \cup ForeignConfigs : Fits(c.tun_mtu, Width.mtu)

\* The fields have the widths of the wire format, and a number fits the field that
\* carries it: an MTU is a u16, the length of a frame a u32.  The ideal signature
\* (see Sign) is as long as the key and what is signed with it.
ASSUME FieldAssumption ==
    /\ DOMAIN Width = {"length", "u64", "client_id", "ipv4", "mtu", "challenge", "signature",
                       "dcid", "secret"}
    /\ Width.dcid \in Byte
    /\ Width.signature = 1 + Width.client_id + Width.ipv4 + Width.mtu + Width.challenge
    /\ AUTH_MAX_FRAME \in Nat /\ Fits(MAX_CONTROL_FRAME_LEN, Width.length)
    /\ PacketSizes \subseteq Nat /\ ForeignFrames \subseteq Seq(Byte)
    /\ MAX_TCP_CLIENT_HELLO_WIRE_LEN \in Nat
    /\ \A c \in Configs \cup ForeignConfigs :
          /\ c.client_id \in [1..Width.client_id -> Byte] /\ c.key \in Byte
          /\ c.assigned_ipv4 \in [1..Width.ipv4 -> Byte]
          /\ c.tun_mtu \in Nat /\ Fits(c.tun_mtu, Width.length)
          /\ c.server_mtu \in Nat /\ Fits(c.server_mtu, Width.length)

VARIABLES
    hello,    \* the first flight of the client, until the handshake is over
    ends,     \* the two ends
    stream,   \* plaintext on its way to an end
    fin,      \* an end will read EOF after what is in its stream
    broken,   \* the network has failed: reads and writes fail
    config,   \* the configuration of the two ends
    sends     \* how many messages were sent unprompted

vars == <<hello, ends, stream, fin, broken, config, sends>>

Peer(e) == IF e = "Client" THEN "Server" ELSE "Client"

\* The server peeks at the first flight, then is in its TLS handshake; the client
\* is Connected before it sends AUTH; an end waits for bytes or drains its buffer
\* in the authentication phase, and the same in the session.  A Foreign end does not run this code.
Pc == {"Peek", "Tls", "Connected", "AuthRead", "AuthDrain", "Read", "Drain", "Done", "Foreign"}
AuthPc == {"Tls", "Connected", "AuthRead", "AuthDrain"}
SessionPc == {"Read", "Drain"}

\* How an end ended: an outcome of the authentication, an AuthError or a
\* ConnectError, or the end of the session.
Result == {"None", "Completed", "Rejected", "AuthProtocolError", "AuthDisconnected",
           "Timeout", "ConnectionClosed", "Connection", "TlsHandshake", "Frame", "Violation",
           "Closed", "RemoteClose", "Panic", "Passed", "Dropped"}

\* A first flight is a handshake message, the sizes of the records that carry it
\* (or a part of it), and what follows them.  `peeked` is how much of it the
\* classifier has seen, `tokens` are the session ids that the client put into it.
Flight(message, sizes, tail) ==
    [message |-> message, sizes |-> sizes, tail |-> tail, peeked |-> 0,
     tokens |-> <<session_id(message)>>]
FirstFlight ==
    LET message == client_hello_session_id_callback(OwnHello, ServerSecret)
    IN  Flight(message, <<Len(message)>>, <<>>)
NoFlight == [message |-> <<>>, sizes |-> <<>>, tail |-> <<>>, peeked |-> 0, tokens |-> <<>>]

\* The cells of the message before the `k`-th record.
Carried(sizes) ==
    LET before[k \in 1..Len(sizes) + 1] ==
            IF k = 1 THEN 0 ELSE before[k - 1] + sizes[k - 1]
    IN  before

\* How many cells of the first flight are before its `k`-th record.
RecordStart(h, k) == Carried(h.sizes)[k] + (k - 1) * TLS_RECORD_HEADER_LEN

\* The first flight as it is on the wire, cell by cell.
FlightCells(h) ==
    LET last == Len(h.sizes)
        tail == RecordStart(h, last + 1)
        record(p) == CHOOSE k \in 1..last : RecordStart(h, k) < p /\ p <= RecordStart(h, k + 1)
        cell(p, k) ==
            IF p = RecordStart(h, k) + 1 THEN TLS_HANDSHAKE_CONTENT_TYPE
            ELSE IF p = RecordStart(h, k) + 2 THEN <<h.sizes[k]>>
            ELSE h.message[p - k * TLS_RECORD_HEADER_LEN]
    IN  [p \in 1..tail + Len(h.tail) |->
            IF p <= tail THEN cell(p, record(p)) ELSE h.tail[p - tail]]

\* A flight of tuples, each field with the cells it should have.  Every stream is a
\* part of one: the handshake records at its beginning carry `message`, and what
\* follows the last of them is not such a record.
IsTuple(s) == Len(s) \in Nat /\ s = [i \in 1..Len(s) |-> s[i]]
IsMessage(s) == IsTuple(s) /\ (Len(s) >= HANDSHAKE_HEADER_LEN => s[2][1] \in Nat)
IsFlight(f) ==
    /\ IsMessage(f.message) /\ f.sizes \in Seq(Nat) /\ IsTuple(f.tail)
    /\ Carried(f.sizes)[Len(f.sizes) + 1] <= Len(f.message)
    /\ f.tail # <<>> => f.tail[1] # TLS_HANDSHAKE_CONTENT_TYPE

ASSUME FlightAssumption ==
    IsMessage(OwnHello) /\ \A f \in ForeignHellos : IsFlight(f)

\* `sent` and `popped` are histories: the messages an end has written, and
\* those that it took out of its buffer.  `authenticated` says that a session
\* has started.
End ==
    [pc : Pc, read_buf : Seq(Byte), result : Result,
     until_update : 1..KeyUpdateInterval, updates : Nat,
     authenticated : BOOLEAN, sent : Seq(Message), popped : Seq(Message)]

TypeOK ==
    /\ hello.peeked \in 0..MAX_TCP_CLIENT_HELLO_WIRE_LEN /\ Len(hello.tokens) \in 0..2
    /\ ends \in [Endpoint -> End]
    /\ stream \in [Endpoint -> Seq(Byte)]
    /\ fin \in [Endpoint -> BOOLEAN]
    /\ broken \in BOOLEAN
    /\ config \in Configs \cup ForeignConfigs
    /\ sends \in 0..MaxSends

NewEnd(pc) ==
    [pc |-> pc, read_buf |-> <<>>, result |-> "None", until_update |-> KeyUpdateInterval,
     updates |-> 0, authenticated |-> FALSE, sent |-> <<>>, popped |-> <<>>]

NewEnds(client, server) ==
    [e \in Endpoint |-> NewEnd(IF e = "Client" THEN client ELSE server)]

\* At least one end runs this code.
Init ==
    /\ \/ /\ config \in Configs /\ ends = NewEnds("Connected", "Peek")
          /\ hello = FirstFlight
       \/ /\ config \in ForeignConfigs /\ ends = NewEnds("Connected", "Foreign")
          /\ hello = NoFlight
       \/ /\ config \in ForeignConfigs /\ ends = NewEnds("Foreign", "Peek")
          /\ hello \in {Flight(f.message, f.sizes, f.tail) : f \in ForeignHellos}
    /\ stream = [e \in Endpoint |-> <<>>]
    /\ fin = [e \in Endpoint |-> FALSE]
    /\ broken = FALSE
    /\ sends = 0

----------------------------------------------------------------------------
(* The channel.                                                             *)

\* IntervalKeyUpdater::maybe_request_key_update, before every message.
maybe_request_key_update(end) ==
    IF end.until_update > 1
    THEN [end EXCEPT !.until_update = @ - 1]
    ELSE [end EXCEPT !.until_update = KeyUpdateInterval, !.updates = @ + 1]

write_message(end, m) ==
    [maybe_request_key_update(end) EXCEPT !.sent = Append(@, m)]

\* End `e` becomes `end`, and `bytes` are on their way to its peer.  An end that
\* is done drops the channel, which the other end reads as EOF.
Step(e, end, bytes) ==
    LET p == Peer(e)
    IN  /\ ends' = [ends EXCEPT ![e] = end]
        /\ stream' = [stream EXCEPT ![p] = IF ends[p].pc \in {"Done", "Foreign"}
                                           THEN <<>> ELSE @ \o bytes]
        /\ fin' = [fin EXCEPT ![p] = @ \/ end.pc = "Done"]

Quiet(e, end) == Step(e, end, <<>>)
Finished(end, result) == [end EXCEPT !.pc = "Done", !.result = result, !.read_buf = <<>>]
Finish(e, end, result) == Quiet(e, Finished(end, result))

\* A write fails, or runs into its timeout, with any part of the frame written.
WriteFails(e, end, m, result) ==
    \E n \in 0..(IF broken THEN 0 ELSE Len(encode_frame(m)) - 1) :
        Step(e, Finished(end, result), SubSeq(encode_frame(m), 1, n))

\* An end that cannot write is done; after its last message it is done anyway.
Write(e, end, m) ==
    \/ ~broken /\ Step(e, write_message(end, m), encode_frame(m))
    \/ WriteFails(e, end, m, "Connection")

\* Best effort: a failure to write the CLOSE changes nothing else.
Close(code) == [ty |-> "Close", payload |-> <<code>>]
FinishWithClose(e, end, result, code) ==
    \/ ~broken /\ Step(e, write_message(Finished(end, result), Close(code)),
                       encode_frame(Close(code)))
    \/ WriteFails(e, end, Close(code), result)

\* read_more: any part of what has arrived; EOF and errors end the loop.
Reading(e) == ends[e].pc \in {"AuthRead", "Read"}
read_more(e) ==
    /\ Reading(e)
    /\ \E n \in 1..Len(stream[e]) :
        /\ ends' = [ends EXCEPT ![e].read_buf = @ \o SubSeq(stream[e], 1, n),
                                ![e].pc = IF @ = "Read" THEN "Drain" ELSE "AuthDrain"]
        /\ stream' = [stream EXCEPT ![e] = SubSeq(@, n + 1, Len(@))]
    /\ UNCHANGED <<hello, fin, broken, config, sends>>

ReadEof(e) ==
    /\ Reading(e) /\ stream[e] = <<>> /\ fin[e]
    /\ LET result == IF ends[e].pc = "Read" THEN "Closed"
                     ELSE IF e = "Client" THEN "AuthDisconnected" ELSE "ConnectionClosed"
       IN  Finish(e, ends[e], result)
    /\ UNCHANGED <<hello, broken, config, sends>>

ReadFails(e) ==
    /\ Reading(e) /\ broken
    /\ Finish(e, ends[e], "Connection")
    /\ UNCHANGED <<hello, broken, config, sends>>

\* The two sessions parse with the limits of their own MTU, and so does the
\* authentication handler of the server; the client authenticates with a limit
\* of its own.
limits(e) ==
    IF e = "Server" THEN from_mtu(config.server_mtu)
    ELSE IF ends[e].pc \in AuthPc
         THEN [max_frame_len |-> AUTH_MAX_FRAME, max_data_len |-> AUTH_MAX_FRAME]
         ELSE from_mtu(config.tun_mtu)

Popped(e) == pop_message_buf(ends[e].read_buf, limits(e))

\* The end after it has taken message `m` out of its buffer.
Taken(e, m) == [ends[e] EXCEPT !.read_buf = Popped(e).rest, !.popped = Append(@, m)]

----------------------------------------------------------------------------
(* The first flight.                                                        *)

\* The loop of classify_stream_inner peeks at what has arrived, which is all that
\* an earlier peek returned and perhaps more.
classify_stream ==
    /\ ends["Server"].pc = "Peek" /\ ~broken
    /\ \E n \in 1..MAX_TCP_CLIENT_HELLO_WIRE_LEN :
        /\ hello.peeked <= n /\ n <= Len(FlightCells(hello))
        /\ hello' = [hello EXCEPT !.peeked = n]
        /\ LET verdict == classify_tcp_client_hello(SubSeq(FlightCells(hello), 1, n), ServerSecret)
               end == ends["Server"]
           IN  CASE verdict = "Claim" -> Quiet("Server", [end EXCEPT !.pc = "Tls"])
                 [] verdict = "Pass" -> Finish("Server", end, "Passed")
                 [] OTHER -> Quiet("Server", end)
    /\ UNCHANGED <<broken, config, sends>>

\* The classification times out, the stream ends before its first byte, or the
\* peek fails.
ClassificationFails ==
    /\ ends["Server"].pc = "Peek"
    /\ Finish("Server", ends["Server"], "Dropped")
    /\ UNCHANGED <<hello, broken, config, sends>>

\* The server asks for another key share: the client runs the callback on its
\* second ClientHello, which differs from the first in what follows the session id.
HelloRetryRequest ==
    /\ ends["Server"].pc = "Tls" /\ ends["Client"].pc = "Connected" /\ Len(hello.tokens) = 1
    /\ LET second == [hello.message EXCEPT ![Len(hello.message)] = <<0>>]
       IN  hello' = [hello EXCEPT !.tokens = Append(@,
                        session_id(client_hello_session_id_callback(second, ServerSecret)))]
    /\ UNCHANGED <<ends, stream, fin, broken, config, sends>>

\* The connection was closed, or handed to nginx, whose certificate and answers
\* are those of a Foreign end.
ConnectFails ==
    /\ ends["Client"].pc = "Connected" /\ fin["Client"]
    /\ Finish("Client", ends["Client"], "TlsHandshake")
    /\ UNCHANGED <<hello, broken, config, sends>>

----------------------------------------------------------------------------
(* Authentication, shared parts.                                            *)

\* Both peers export the challenge from the TLS session they share.
challenge == [i \in 1..Width.challenge |-> 7]

auth_signature_context(client_id, assigned_ipv4, tun_mtu, chal) ==
    client_id \o assigned_ipv4 \o to_be_bytes(tun_mtu, Width.mtu) \o chal

\* An ideal Ed25519 signature: it names the key and what was signed.
Sign(key, context) == <<key>> \o context
verify_strict(key, context, signature) == signature = Sign(key, context)

build_auth_payload(c, chal) ==
    [client_id |-> c.client_id, assigned_ipv4 |-> c.assigned_ipv4, tun_mtu |-> c.tun_mtu,
     challenge |-> chal,
     signature |-> Sign(c.key, auth_signature_context(c.client_id, c.assigned_ipv4,
                                                      c.tun_mtu, chal))]

\* Mutant: the MTU of the client is not compared.
verify_auth_payload_any_mtu(v) ==
    LET entry == Allowlist[v.client_id]
        context == auth_signature_context(v.client_id, v.assigned_ipv4, v.tun_mtu, challenge)
    IN  IF v.client_id \notin DOMAIN Allowlist THEN "UnknownClient"
        ELSE IF ~entry.enabled THEN "Disabled"
        ELSE IF entry.assigned_ipv4 # v.assigned_ipv4 THEN "IpMismatch"
        ELSE IF v.challenge # challenge THEN "ChallengeInvalid"
        ELSE IF ~verify_strict(entry.key, context, v.signature) THEN "BadSignature"
        ELSE "Accepted"

\* The code of AUTH_FAIL, or "Accepted".
verify_auth_payload(v) ==
    LET entry == Allowlist[v.client_id]
        context == auth_signature_context(v.client_id, v.assigned_ipv4, v.tun_mtu, challenge)
    IN  IF v.client_id \notin DOMAIN Allowlist THEN "UnknownClient"
        ELSE IF ~entry.enabled THEN "Disabled"
        ELSE IF entry.assigned_ipv4 # v.assigned_ipv4 THEN "IpMismatch"
        ELSE IF v.tun_mtu # config.server_mtu THEN "MtuMismatch"
        ELSE IF v.challenge # challenge THEN "ChallengeInvalid"
        ELSE IF ~verify_strict(entry.key, context, v.signature) THEN "BadSignature"
        ELSE "Accepted"

\* Mutant: the session waits for bytes before it looks at the buffer.
SessionStart_waits(end) == [end EXCEPT !.authenticated = TRUE, !.pc = "Read"]

\* A session starts with what the authentication left in the buffer: the loop
\* drains it before it waits for more.
SessionStart(end) ==
    [end EXCEPT !.authenticated = TRUE, !.pc = IF end.read_buf = <<>> THEN "Read" ELSE "Drain"]

Pong(m) == [ty |-> "Pong", payload |-> m.payload]

----------------------------------------------------------------------------
(* Authentication, client.                                                  *)

send_auth ==
    /\ ends["Client"].pc = "Connected" /\ ends["Server"].pc # "Peek" /\ ~fin["Client"]
    /\ Write("Client", [ends["Client"] EXCEPT !.pc = "AuthRead"],
            [ty |-> "Auth",
             payload |-> encode_payload("Auth", build_auth_payload(config, challenge))])
    /\ UNCHANGED <<hello, broken, config, sends>>

\* A frame that does not decode, or a message that is not admissible, ends
\* the attempt without a CLOSE.
ClientAuthMessage(m) ==
    LET end == Taken("Client", m)
        valid == validate_message(m, [sender |-> "Server", phase |-> "Authentication",
                                      transport |-> "Tcp"])
        end_as(result) == Finish("Client", end, result)
    IN  IF ~valid.ok THEN end_as("Violation")
        ELSE CASE m.ty = "AuthOk" -> Quiet("Client", SessionStart(end))
               [] m.ty = "AuthFail" -> end_as("Rejected")
               [] m.ty = "Ping" -> Write("Client", end, Pong(m))
               [] m.ty = "Pong" -> Quiet("Client", end)
               [] m.ty = "Close" -> end_as(IF m.payload[1] = CloseCode.ProtocolError
                                           THEN "AuthProtocolError" ELSE "AuthDisconnected")
               [] OTHER -> end_as("Panic")

ClientAuthDrains ==
    /\ ends["Client"].pc = "AuthDrain"
    /\ LET decoded == Popped("Client").decoded
       IN  IF ~decoded.ok THEN Finish("Client", ends["Client"], "Frame")
           ELSE IF decoded.value = None
                THEN Quiet("Client", [ends["Client"] EXCEPT !.pc = "AuthRead"])
                ELSE ClientAuthMessage(Unwrap(decoded.value))
    /\ UNCHANGED <<hello, broken, config, sends>>

----------------------------------------------------------------------------
(* Authentication, server.                                                  *)

tls_handshake ==
    /\ ends["Server"].pc = "Tls"
    /\ \/ ~broken /\ Quiet("Server", [ends["Server"] EXCEPT !.pc = "AuthRead"])
       \/ Finish("Server", ends["Server"], "TlsHandshake")
    /\ hello' = NoFlight
    /\ UNCHANGED <<broken, config, sends>>

\* AUTH_OK is written before the session is created: creating it can still
\* fail, when the server shuts down.
handle_auth(end, m) ==
    LET verdict == verify_auth_payload(AuthPayload_decode(m.payload).value)
        auth_ok == [ty |-> "AuthOk", payload |-> <<>>]
        auth_fail == [ty |-> "AuthFail", payload |-> <<AuthFailCode[verdict]>>]
    IN  IF verdict = "Accepted"
        THEN \/ Write("Server", SessionStart(end), auth_ok)
             \/ Write("Server", Finished(end, "Connection"), auth_ok)
        ELSE Write("Server", Finished(end, "Rejected"), auth_fail)

\* requires_protocol_close: a message that is not admissible, or that does not
\* decode, is answered with CLOSE(ProtocolError).
ServerAuthMessage(m) ==
    LET end == Taken("Server", m)
        valid == validate_message(m, [sender |-> "Client", phase |-> "Authentication",
                                      transport |-> "Tcp"])
    IN  IF ~valid.ok THEN FinishWithClose("Server", end, "Violation", CloseCode.ProtocolError)
        ELSE CASE m.ty = "Auth" -> handle_auth(end, m)
               [] m.ty = "Ping" -> Write("Server", end, Pong(m))
               [] m.ty = "Pong" -> Quiet("Server", end)
               [] m.ty = "Close" -> Finish("Server", end, "Completed")
               [] OTHER -> Finish("Server", end, "Panic")

run_auth_loop ==
    /\ ends["Server"].pc = "AuthDrain"
    /\ LET decoded == Popped("Server").decoded
       IN  IF ~decoded.ok
           THEN FinishWithClose("Server", ends["Server"], "Frame", CloseCode.ProtocolError)
           ELSE IF decoded.value = None
                THEN Quiet("Server", [ends["Server"] EXCEPT !.pc = "AuthRead"])
                ELSE ServerAuthMessage(Unwrap(decoded.value))
    /\ UNCHANGED <<hello, broken, config, sends>>

\* auth_timeout covers the handshake, every read and every write of the phase.
AuthTimeout(e) ==
    /\ ends[e].pc \in AuthPc \ {"AuthDrain"}
    /\ Finish(e, ends[e], "Timeout")
    /\ UNCHANGED <<hello, broken, config, sends>>

----------------------------------------------------------------------------
(* Sessions.                                                                *)

\* The arms of the two session handlers; the rest is unreachable!().
SessionArms(e) ==
    Symmetric \cup
        IF e = "Client" THEN {"RegisterOk", "RegisterFail", "SwitchToUdp", "SwitchOk"}
                        ELSE {"RegisterCid", "UdpReady", "SwitchAck"}

handle_tcp_message(e, m) ==
    LET end == Taken(e, m)
        valid == validate_message(m, [sender |-> Peer(e), phase |-> "Established",
                                      transport |-> "Tcp"])
    IN  IF ~valid.ok THEN FinishWithClose(e, end, "Violation", CloseCode.ProtocolError)
        ELSE CASE m.ty = "Ping" -> Write(e, end, Pong(m))
               [] m.ty = "Close" -> Finish(e, end, "RemoteClose")
               [] m.ty \in SessionArms(e) \ {"Ping", "Close"} -> Quiet(e, end)
               [] OTHER -> Finish(e, end, "Panic")

handle_tcp_read(e) ==
    /\ ends[e].pc = "Drain"
    /\ LET decoded == Popped(e).decoded
       IN  IF ~decoded.ok THEN FinishWithClose(e, ends[e], "Frame", CloseCode.ProtocolError)
           ELSE IF decoded.value = None THEN Quiet(e, [ends[e] EXCEPT !.pc = "Read"])
                ELSE handle_tcp_message(e, Unwrap(decoded.value))
    /\ UNCHANGED <<hello, broken, config, sends>>

\* What the session code of an end sends over TCP, PONG and CLOSE apart.
SessionTypes(e) ==
    IF e = "Client"
    THEN {"RegisterCid", "Ping", "UdpReady", "SwitchAck", "FallbackToTcp", "FallbackOk"}
    ELSE {"RegisterOk", "RegisterFail", "Ping", "SwitchToUdp", "SwitchOk", "FallbackToTcp",
          "FallbackOk"}

Zeros(n) == [i \in 1..n |-> 0]
SampleValue(ty) ==
    CASE ty = "RegisterCid" ->
            [client_to_server_cid |-> Zeros(Width.dcid), server_to_client_cid |-> <<5>>,
             cipher |-> CipherSuite.ChaCha20Poly1305, secret_tx |-> Zeros(Width.secret),
             secret_rx |-> Zeros(Width.secret), pn_start |-> 1, pn_start_rx |-> 2, key_phase |-> 1]
      [] ty = "RegisterOk" -> [client_to_server_cid |-> Zeros(Width.dcid)]
      [] ty = "RegisterFail" -> RegisterFailCode.InvalidKeys
      [] OTHER -> [nonce |-> 1, upgrade_id |-> 2, fallback_id |-> 3]

SessionSends(e) ==
    /\ ends[e].pc = "Read" /\ sends < MaxSends
    /\ \E ty \in SessionTypes(e) :
            Write(e, ends[e], [ty |-> ty, payload |-> encode_payload(ty, SampleValue(ty))])
    /\ sends' = sends + 1
    /\ UNCHANGED <<hello, broken, config>>

\* A packet of the TUN device that is empty or larger than the MTU is dropped.
handle_tun_packet(e) ==
    /\ ends[e].pc = "Read" /\ sends < MaxSends
    /\ \E size \in PacketSizes :
        /\ size # 0 /\ size <= limits(e).max_data_len
        /\ Write(e, ends[e], [ty |-> "Data", payload |-> Zeros(size)])
    /\ sends' = sends + 1
    /\ UNCHANGED <<hello, broken, config>>

\* Shutdown, idle timeout, takeover or a TUN failure.
SessionCloses(e) ==
    /\ ends[e].pc \in SessionPc
    /\ FinishWithClose(e, ends[e], "Closed", CloseCode.Normal)
    /\ UNCHANGED <<hello, broken, config, sends>>

\* Mutant: the server forgets that the write was interrupted.
send_after_interrupted_close(part, close) == part \o close

\* tcp_write_interrupted: a part of a frame may have gone out, so no other frame
\* is written behind it, not even the CLOSE.
send_after_interrupted(part, close) == part

\* The event loop of the server is dropped while it waits for a write of a
\* packet.  The client keeps no such note: its write of a frame, which fits one
\* TLS record, is all or nothing, and its CLOSE then fails or goes out whole, as
\* in SessionCloses.
CancelledWriting ==
    /\ ends["Server"].pc = "Read" /\ sends < MaxSends /\ ~broken
    /\ \E size \in PacketSizes :
        /\ size # 0 /\ size <= limits("Server").max_data_len
        /\ LET frame == encode_frame([ty |-> "Data", payload |-> Zeros(size)])
           IN  \E n \in 1..(Len(frame) - 1) :
                Step("Server", Finished(ends["Server"], "Closed"),
                     send_after_interrupted(SubSeq(frame, 1, n),
                                            encode_frame(Close(CloseCode.Normal))))
    /\ sends' = sends + 1
    /\ UNCHANGED <<hello, broken, config>>

----------------------------------------------------------------------------
(* The environment.                                                         *)

\* What a foreign client writes before the server has taken the handshake to its
\* end waits in the stream as it would afterwards.
ForeignWrites(e) ==
    /\ ends[e].pc = "Foreign" /\ sends < MaxSends /\ ends[Peer(e)].pc # "Done"
    /\ hello = NoFlight
    /\ \E bytes \in ForeignFrames : stream' = [stream EXCEPT ![Peer(e)] = @ \o bytes]
    /\ sends' = sends + 1
    /\ UNCHANGED <<hello, ends, fin, broken, config>>

ForeignLeaves(e) ==
    /\ ends[e].pc = "Foreign" /\ ~fin[Peer(e)]
    /\ fin' = [fin EXCEPT ![Peer(e)] = TRUE]
    /\ sends' = MaxSends
    /\ UNCHANGED <<hello, ends, stream, broken, config>>

\* What was in flight is lost.
NetworkFails ==
    /\ ~broken
    /\ broken' = TRUE
    /\ stream' = [e \in Endpoint |-> <<>>]
    /\ fin' = [e \in Endpoint |-> TRUE]
    /\ sends' = MaxSends
    /\ UNCHANGED <<hello, ends, config>>

EndStep(e) ==
    \/ read_more(e) \/ ReadEof(e) \/ ReadFails(e) \/ AuthTimeout(e)
    \/ handle_tcp_read(e) \/ SessionSends(e) \/ handle_tun_packet(e) \/ SessionCloses(e)
    \/ ForeignWrites(e) \/ ForeignLeaves(e)

Next ==
    \/ \E e \in Endpoint : EndStep(e)
    \/ classify_stream \/ ClassificationFails \/ HelloRetryRequest \/ ConnectFails
    \/ send_auth \/ ClientAuthDrains \/ tls_handshake \/ run_auth_loop
    \/ CancelledWriting \/ NetworkFails

Spec == Init /\ [][Next]_vars

----------------------------------------------------------------------------
(* Properties.                                                              *)

RunsCode(e) == ends[e].pc # "Foreign"

\* A first flight that the server is meant to claim: it begins with a ClientHello, as
\* long as its header says, that is sealed with the secret of the server and ends
\* within the bytes that the classifier looks at.
Genuine(h) ==
    LET len == HANDSHAKE_HEADER_LEN + h.message[2][1]
    IN  /\ Len(h.message) >= HANDSHAKE_HEADER_LEN /\ len <= Len(h.message)
        /\ verify_legacy_session_id(SubSeq(h.message, 1, len), ServerSecret)
        /\ \E k \in 1..Len(h.sizes) :
            /\ Carried(h.sizes)[k + 1] >= len
            /\ k * TLS_RECORD_HEADER_LEN + len <= MAX_TCP_CLIENT_HELLO_WIRE_LEN

\* classify_tcp_client_hello, "no mutable suffix can reach the VPN TLS acceptor
\* unchecked": only a genuine flight is claimed, however it is cut into records
\* and into peeks.
OnlyGenuineIsClaimed ==
    ends["Server"].pc = "Tls" => Genuine(hello)

\* ... and a genuine one is never passed to nginx, whatever part of it was peeked
\* first.
GenuineIsNotPassed ==
    ends["Server"].result = "Passed" => ~Genuine(hello)

\* fill_legacy_session_id, "TLS 1.3 requires ClientHello2 to retain ClientHello1's
\* legacy session ID".
TokenIsRetained ==
    \A i, j \in DOMAIN hello.tokens : hello.tokens[i] = hello.tokens[j]

\* transport/tcp.rs, refinement: whatever the reads return, whatever write is
\* cut short and whichever phase takes the channel over, the messages that
\* try_pop_message yields are those the other end wrote, whole and in order.
Pipe == INSTANCE MessagePipe WITH
    Side <- Endpoint,
    written <- [e \in Endpoint |-> ends[e].sent],
    taken <- [e \in Endpoint |-> IF RunsCode(e) THEN ends[Peer(e)].popped ELSE <<>>]

ImplementsPipe == Pipe!Spec

\* TcpChannel::read_more, "growth stays bounded by max_frame_len": an end that
\* asks for more bytes holds less than one frame of the largest size allowed.
BufferIsBounded ==
    \A e \in Endpoint :
        Reading(e) => Len(ends[e].read_buf) < HEADER_LEN + limits(e).max_frame_len

\* run_event_loop, run_inner and the two authentication loops: an end never
\* waits for bytes while a complete message, or the header of a frame it must
\* refuse, lies in its buffer; in particular what came with the last message of
\* the authentication is handled before the session waits.
NothingWaitsInTheBuffer ==
    \A e \in Endpoint : Reading(e) => Popped(e).decoded = Ok(None)

\* The two programs agree on the protocol: if both ends run them, neither
\* refuses a frame or a message of the other.  A client whose MTU differs from
\* the server's, and would send packets that the server refuses, is turned away.
EndsUnderstandEachOther ==
    (\A e \in Endpoint : RunsCode(e)) =>
        \A e \in Endpoint : ends[e].result \notin {"Frame", "Violation", "AuthProtocolError"}

\* handle_auth_message and handle_tcp_message, both sides: validate_message
\* leaves nothing that the match arms declare unreachable.
NoUnreachableArm == \A e \in Endpoint : ends[e].result # "Panic"

\* verify_auth_payload and handle_auth: a session exists only for an AUTH that
\* was signed with the key of an enabled client of the allowlist, for its
\* address, for this connection and for the MTU of the server.
GoodAuth(m) ==
    /\ m.ty = "Auth"
    /\ \E id \in DOMAIN Allowlist :
        /\ Allowlist[id].enabled
        /\ m.payload = encode_payload("Auth", build_auth_payload(
                [client_id |-> id, assigned_ipv4 |-> Allowlist[id].assigned_ipv4,
                 key |-> Allowlist[id].key, tun_mtu |-> config.server_mtu], challenge))

SessionsAreAuthenticated ==
    /\ ends["Server"].authenticated =>
            \E i \in DOMAIN ends["Server"].popped : GoodAuth(ends["Server"].popped[i])
    /\ ends["Client"].authenticated /\ RunsCode("Server") =>
            GoodAuth(ends["Client"].sent[1])

\* PayloadError and the decoders: a message that passed validation is the only
\* encoding of what was decoded from it, so no byte of it was ignored.
PayloadsAreCanonical ==
    \A e \in Endpoint : \A i \in DOMAIN ends[e].popped :
        LET m == ends[e].popped[i]
        IN  decode_payload(m).ok => encode_payload(m.ty, decode_payload(m).value) = m.payload

\* IntervalKeyUpdater: TLS keys are updated once in every KeyUpdateInterval
\* messages, over the authentication and the session.
KeysAreUpdated ==
    \A e \in Endpoint : ends[e].updates = Len(ends[e].sent) \div KeyUpdateInterval

\* The classifier and the token: what is claimed is genuine, what is genuine is not
\* passed on, and a retried handshake keeps its token.
ClaimsAreGenuine == OnlyGenuineIsClaimed /\ GenuineIsNotPassed /\ TokenIsRetained

\* The channel of an end between two reads: its buffer is bounded and drained, its
\* keys are updated in time.
ChannelIsSound == TypeOK /\ BufferIsBounded /\ NothingWaitsInTheBuffer /\ KeysAreUpdated

\* Two ends that talk have authenticated each other, accept each other's messages, and
\* take from a message all that its bytes say.
EndsAgree ==
    SessionsAreAuthenticated /\ EndsUnderstandEachOther /\ NoUnreachableArm /\ PayloadsAreCanonical
=============================================================================
