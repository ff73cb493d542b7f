-------------------------------- MODULE Wire --------------------------------
(***************************************************************************)
(* The wire format of the VPN protocol, as both peers use it: message      *)
(* types, frames, payload layouts, size limits, and which message is       *)
(* admissible from whom, when and on which transport.                      *)
(*                                                                         *)
(* A buffer is a sequence of bytes.  The lengths of the fields are a       *)
(* parameter, so that an instance may have connection ids and secrets of a *)
(* byte or two; which field follows which, and every check on them, is the *)
(* code's.                                                                 *)
(***************************************************************************)
EXTENDS Naturals, Sequences

CONSTANT
    Width   \* bytes of a frame length, u64, client_id, ipv4, mtu, challenge,
            \* signature, dcid (MAX_DCID_LEN) and traffic secret

Byte == 0..255

Ok(value) == [ok |-> TRUE, value |-> value]
Err(error) == [ok |-> FALSE, value |-> error]

\* n >> 8 * k, for every k up to w.
Shifted(n, w) ==
    LET value[k \in 0..w] == IF k = 0 THEN n ELSE value[k - 1] \div 256
    IN  value

\* A number of w bytes.
Fits(n, w) == Shifted(n, w)[w] = 0

\* uN::to_be_bytes and uN::from_be_bytes, N = 8 * w.
to_be_bytes(n, w) == [i \in 1..w |-> Shifted(n, w)[w - i] % 256]
from_be_bytes(bytes) ==
    LET value[i \in 0..Len(bytes)] ==
            IF i = 0 THEN 0 ELSE 256 * value[i - 1] + bytes[i]
    IN  value[Len(bytes)]

\* The `len` bytes after the first `offset` bytes: payload[offset..offset + len].
Slice(bytes, offset, len) == SubSeq(bytes, offset + 1, offset + len)

----------------------------------------------------------------------------
(* Message types and frames.                                               *)

MessageType ==
    [Auth |-> 1, AuthOk |-> 2, AuthFail |-> 3, RegisterCid |-> 4, RegisterOk |-> 5,
     RegisterFail |-> 6, Ping |-> 7, Pong |-> 8, Close |-> 9, Data |-> 10,
     UpgradeProbe |-> 11, UpgradeProbeAck |-> 12, UdpReady |-> 13, SwitchToUdp |-> 14,
     SwitchAck |-> 15, FallbackToTcp |-> 16, FallbackOk |-> 17, SwitchOk |-> 18]

HEADER_LEN == 1 + Width.length

Message == [ty : DOMAIN MessageType, payload : Seq(Byte)]

\* A payload is a control message or a packet of at most a u16 MTU: the
\* LengthOverflow of the code cannot happen.
encode_frame(message) ==
    <<MessageType[message.ty]>> \o to_be_bytes(Len(message.payload), Width.length)
        \o message.payload

\* Option: a frame that is not complete yet is None.
None == {}
Some(value) == {value}
Unwrap(option) == CHOOSE value \in option : TRUE

\* A header is judged as soon as it is complete: its type first, then its length.
decode_frame(buf, max_len) ==
    LET types == {ty \in DOMAIN MessageType : MessageType[ty] = buf[1]}
        len == from_be_bytes(Slice(buf, 1, Width.length))
    IN  IF Len(buf) < HEADER_LEN THEN Ok(None)
        ELSE IF types = {} THEN Err("UnknownType")
        ELSE IF len > max_len THEN Err("LengthTooLarge")
        ELSE IF Len(buf) < HEADER_LEN + len THEN Ok(None)
        ELSE Ok(Some([ty |-> Unwrap(types), payload |-> Slice(buf, HEADER_LEN, len)]))

----------------------------------------------------------------------------
(* Payloads.  A decoder returns the fields, or the first error it meets.    *)

u64 == Width.u64

decode_fixed(payload, len, fields) ==
    IF Len(payload) # len THEN Err("LengthMismatch") ELSE Ok(fields)

decode_code(payload, codes, error) ==
    IF Len(payload) # 1 THEN Err("LengthMismatch")
    ELSE IF payload[1] \notin codes THEN Err(error) ELSE Ok(payload[1])

AUTH_PAYLOAD_LEN ==
    Width.client_id + Width.ipv4 + Width.mtu + Width.challenge + Width.signature

AuthPayload_decode(p) ==
    LET ip == Width.client_id   mtu == ip + Width.ipv4
        challenge == mtu + Width.mtu   signature == challenge + Width.challenge
    IN  decode_fixed(p, AUTH_PAYLOAD_LEN,
            [client_id |-> Slice(p, 0, Width.client_id),
             assigned_ipv4 |-> Slice(p, ip, Width.ipv4),
             tun_mtu |-> from_be_bytes(Slice(p, mtu, Width.mtu)),
             challenge |-> Slice(p, challenge, Width.challenge),
             signature |-> Slice(p, signature, Width.signature)])

AuthPayload_encode(v) ==
    v.client_id \o v.assigned_ipv4 \o to_be_bytes(v.tun_mtu, Width.mtu)
        \o v.challenge \o v.signature

\* AuthFailCode, CloseCode, RegisterFailCode and CipherSuite.
AuthFailCode ==
    [Unknown |-> 0, UnknownClient |-> 1, Disabled |-> 2, BadSignature |-> 3,
     IpMismatch |-> 4, ChallengeInvalid |-> 5, MtuMismatch |-> 6]
CloseCode ==
    [Normal |-> 0, AuthTimeout |-> 1, IdleTimeout |-> 2, ProtocolError |-> 3,
     ServerRestart |-> 4]
RegisterFailCode ==
    [Unknown |-> 0, NotAuthenticated |-> 1, InvalidCipher |-> 2, InvalidCid |-> 3,
     InvalidKeys |-> 4]
CipherSuite == [Aes128Gcm |-> 1, ChaCha20Poly1305 |-> 2]

Codes(enum) == {enum[name] : name \in DOMAIN enum}

AuthOkPayload_decode(p) == decode_fixed(p, 0, <<>>)
AuthFailPayload_decode(p) == decode_code(p, Codes(AuthFailCode), "InvalidAuthFailCode")
ClosePayload_decode(p) == decode_code(p, Codes(CloseCode), "InvalidCloseCode")
RegisterFailPayload_decode(p) ==
    decode_code(p, Codes(RegisterFailCode), "InvalidRegisterFailCode")

PingPayload_decode(p) == decode_fixed(p, u64, [nonce |-> from_be_bytes(p)])
PongPayload_decode(p) == decode_fixed(p, u64, [nonce |-> from_be_bytes(p)])
FallbackToTcpPayload_decode(p) == decode_fixed(p, u64, [fallback_id |-> from_be_bytes(p)])
FallbackOkPayload_decode(p) == decode_fixed(p, u64, [fallback_id |-> from_be_bytes(p)])
UdpReadyPayload_decode(p) == decode_fixed(p, u64, [upgrade_id |-> from_be_bytes(p)])
SwitchToUdpPayload_decode(p) == decode_fixed(p, u64, [upgrade_id |-> from_be_bytes(p)])
SwitchAckPayload_decode(p) == decode_fixed(p, u64, [upgrade_id |-> from_be_bytes(p)])
SwitchOkPayload_decode(p) == decode_fixed(p, u64, [upgrade_id |-> from_be_bytes(p)])

UpgradeProbePayload_decode(p) ==
    decode_fixed(p, 2 * u64, [upgrade_id |-> from_be_bytes(Slice(p, 0, u64)),
                              nonce |-> from_be_bytes(Slice(p, u64, u64))])
UpgradeProbeAckPayload_decode(p) ==
    decode_fixed(p, 2 * u64, [upgrade_id |-> from_be_bytes(Slice(p, 0, u64)),
                              nonce |-> from_be_bytes(Slice(p, u64, u64))])

RegisterOkPayload_decode(p) ==
    IF p = <<>> THEN Err("LengthTooShort")
    ELSE IF p[1] # Width.dcid THEN Err("InvalidClientToServerCidLen")
    ELSE decode_fixed(p, 1 + Width.dcid, [client_to_server_cid |-> Tail(p)])

\* REGISTER_CID: two connection ids, each after its length, then the rest.
encoded_len_for(c2s_cid_len, s2c_cid_len) ==
    1 + c2s_cid_len + 1 + s2c_cid_len + 1 + 2 * Width.secret + 2 * u64 + 1

RegisterCid_fields(p, cipher_offset) ==
    LET s2c == Width.dcid + 2
        secrets == cipher_offset + 1
        numbers == secrets + 2 * Width.secret
    IN  [client_to_server_cid |-> Slice(p, 1, Width.dcid),
         server_to_client_cid |-> Slice(p, s2c, cipher_offset - s2c),
         cipher |-> p[cipher_offset + 1],
         secret_tx |-> Slice(p, secrets, Width.secret),
         secret_rx |-> Slice(p, secrets + Width.secret, Width.secret),
         pn_start |-> from_be_bytes(Slice(p, numbers, u64)),
         pn_start_rx |-> from_be_bytes(Slice(p, numbers + u64, u64)),
         key_phase |-> p[Len(p)]]

RegisterCidPayload_decode(p) ==
    IF p = <<>> THEN Err("LengthTooShort")
    ELSE IF p[1] # Width.dcid THEN Err("InvalidClientToServerCidLen")
    ELSE IF Len(p) < Width.dcid + 2 THEN Err("LengthTooShort")
    ELSE IF p[Width.dcid + 2] > Width.dcid THEN Err("InvalidServerToClientCidLen")
    ELSE LET s2c_len == p[Width.dcid + 2]
             cipher_offset == Width.dcid + 2 + s2c_len
         IN  IF Len(p) < cipher_offset + 1 THEN Err("LengthTooShort")
             ELSE IF p[cipher_offset + 1] \notin Codes(CipherSuite) THEN Err("InvalidCipher")
             ELSE IF Len(p) # encoded_len_for(Width.dcid, s2c_len) THEN Err("LengthMismatch")
             ELSE IF p[Len(p)] \notin {0, 1} THEN Err("InvalidKeyPhase")
             ELSE Ok(RegisterCid_fields(p, cipher_offset))

RegisterCidPayload_encode(v) ==
    <<Len(v.client_to_server_cid)>> \o v.client_to_server_cid
        \o <<Len(v.server_to_client_cid)>> \o v.server_to_client_cid
        \o <<v.cipher>> \o v.secret_tx \o v.secret_rx
        \o to_be_bytes(v.pn_start, u64) \o to_be_bytes(v.pn_start_rx, u64) \o <<v.key_phase>>

\* What decode makes of the payload of a message; DATA has no layout.
decode_payload(m) ==
    CASE m.ty = "Auth" -> AuthPayload_decode(m.payload)
      [] m.ty = "AuthOk" -> AuthOkPayload_decode(m.payload)
      [] m.ty = "AuthFail" -> AuthFailPayload_decode(m.payload)
      [] m.ty = "RegisterCid" -> RegisterCidPayload_decode(m.payload)
      [] m.ty = "RegisterOk" -> RegisterOkPayload_decode(m.payload)
      [] m.ty = "RegisterFail" -> RegisterFailPayload_decode(m.payload)
      [] m.ty = "Ping" -> PingPayload_decode(m.payload)
      [] m.ty = "Pong" -> PongPayload_decode(m.payload)
      [] m.ty = "Close" -> ClosePayload_decode(m.payload)
      [] m.ty = "UpgradeProbe" -> UpgradeProbePayload_decode(m.payload)
      [] m.ty = "UpgradeProbeAck" -> UpgradeProbeAckPayload_decode(m.payload)
      [] m.ty = "UdpReady" -> UdpReadyPayload_decode(m.payload)
      [] m.ty = "SwitchToUdp" -> SwitchToUdpPayload_decode(m.payload)
      [] m.ty = "SwitchAck" -> SwitchAckPayload_decode(m.payload)
      [] m.ty = "FallbackToTcp" -> FallbackToTcpPayload_decode(m.payload)
      [] m.ty = "FallbackOk" -> FallbackOkPayload_decode(m.payload)
      [] m.ty = "SwitchOk" -> SwitchOkPayload_decode(m.payload)
      [] m.ty = "Data" -> Ok(m.payload)

\* The encoders of the layouts that are a code, or one or two 64-bit numbers.
encode_payload(ty, v) ==
    CASE ty = "Auth" -> AuthPayload_encode(v)
      [] ty = "AuthOk" -> <<>>
      [] ty = "RegisterCid" -> RegisterCidPayload_encode(v)
      [] ty = "RegisterOk" -> <<Len(v.client_to_server_cid)>> \o v.client_to_server_cid
      [] ty \in {"AuthFail", "RegisterFail", "Close"} -> <<v>>
      [] ty \in {"Ping", "Pong"} -> to_be_bytes(v.nonce, u64)
      [] ty \in {"FallbackToTcp", "FallbackOk"} -> to_be_bytes(v.fallback_id, u64)
      [] ty \in {"UdpReady", "SwitchToUdp", "SwitchAck", "SwitchOk"} ->
            to_be_bytes(v.upgrade_id, u64)
      [] ty \in {"UpgradeProbe", "UpgradeProbeAck"} ->
            to_be_bytes(v.upgrade_id, u64) \o to_be_bytes(v.nonce, u64)
      [] ty = "Data" -> v

----------------------------------------------------------------------------
(* Limits.                                                                  *)

MAX_CONTROL_FRAME_LEN == encoded_len_for(Width.dcid, Width.dcid)

from_mtu(mtu) ==
    [max_frame_len |-> IF mtu > MAX_CONTROL_FRAME_LEN THEN mtu ELSE MAX_CONTROL_FRAME_LEN,
     max_data_len |-> mtu]

decode_message(buf, limits) ==
    LET frame == decode_frame(buf, limits.max_frame_len)
    IN  IF frame.ok /\ \E m \in frame.value :
                          m.ty = "Data" /\ Len(m.payload) > limits.max_data_len
        THEN Err("DataTooLarge")
        ELSE frame

\* On success the buffer loses exactly the frame; on an error, and while the
\* frame is incomplete, it is left as it was.
pop_message_buf(read_buf, limits) ==
    LET decoded == decode_message(read_buf, limits)
        consumed == HEADER_LEN + Len(Unwrap(decoded.value).payload)
    IN  [decoded |-> decoded,
         rest |-> IF decoded.ok /\ decoded.value # None
                  THEN SubSeq(read_buf, consumed + 1, Len(read_buf)) ELSE read_buf]

----------------------------------------------------------------------------
(* Admissibility.                                                           *)

Endpoint == {"Client", "Server"}
ProtocolPhase == {"Authentication", "Established"}
MessageTransport == {"Tcp", "UdpQsp"}
MessageContext == [sender : Endpoint, phase : ProtocolPhase, transport : MessageTransport]

Symmetric == {"Ping", "Pong", "Close", "Data", "FallbackToTcp", "FallbackOk"}

is_valid_direction(ty, sender) ==
    \/ ty \in Symmetric
    \/ /\ sender = "Client"
       /\ ty \in {"Auth", "RegisterCid", "UpgradeProbe", "UdpReady", "SwitchAck"}
    \/ /\ sender = "Server"
       /\ ty \in {"AuthOk", "AuthFail", "RegisterOk", "RegisterFail", "UpgradeProbeAck",
                  "SwitchToUdp", "SwitchOk"}

is_valid_phase(ty, phase) ==
    IF phase = "Authentication"
    THEN ty \in {"Auth", "AuthOk", "AuthFail", "Ping", "Pong", "Close"}
    ELSE ty \notin {"Auth", "AuthOk", "AuthFail"}

is_valid_transport(ty, transport) ==
    IF transport = "Tcp"
    THEN ty \notin {"UpgradeProbe", "UpgradeProbeAck"}
    ELSE ty \in {"Ping", "Pong", "Close", "Data", "UpgradeProbe", "UpgradeProbeAck"}

validate_message_type(ty, context) ==
    IF ~is_valid_direction(ty, context.sender) THEN Err("InvalidDirection")
    ELSE IF ~is_valid_phase(ty, context.phase) THEN Err("InvalidPhase")
    ELSE IF ~is_valid_transport(ty, context.transport) THEN Err("InvalidTransport")
    ELSE Ok(ty)

\* REGISTER_CID is left to the registration handler, DATA to the limits.
validate_fixed_payload(m) ==
    IF m.ty \in {"RegisterCid", "Data"} \/ decode_payload(m).ok
    THEN Ok(m.ty) ELSE Err("InvalidPayload")

validate_message(m, context) ==
    LET admissible == validate_message_type(m.ty, context)
    IN  IF admissible.ok THEN validate_fixed_payload(m) ELSE admissible

=============================================================================
