----------------------------- MODULE ClientHello -----------------------------
(***************************************************************************)
(* The claim token in a TLS ClientHello: how the client seals it           *)
(* (crypto/client_hello.rs) and how the server judges the beginning of a   *)
(* TCP stream by it (classifier.rs).                                       *)
(*                                                                         *)
(* A stream is a sequence of cells, each of which stands for one or more   *)
(* bytes that the code never takes apart: a record header is two cells     *)
(* (content type, length), a handshake header two (type, length), then     *)
(* version, the two halves of the random, the session id's length, and the *)
(* two halves of the session id.  A cell is a tuple: <<n>> for a number,   *)
(* and a longer one for a tag, which names all that it was computed from.  *)
(***************************************************************************)
EXTENDS Naturals, Sequences

CONSTANT
    MAX_TCP_CLIENT_HELLO_WIRE_LEN   \* in cells

\* Drop is for a stream that ends before its first byte.
Verdict == {"Claim", "Pass", "Drop", "Incomplete"}

TLS_HANDSHAKE_CONTENT_TYPE == <<22>>
TLS_RECORD_HEADER_LEN == 2
HANDSHAKE_TYPE_CLIENT_HELLO == <<1>>
HANDSHAKE_HEADER_LEN == 2
LEGACY_SESSION_ID_LEN == <<32>>

\* Where the fields of a ClientHello end.
VERSION == 3
RANDOM_PREFIX == 4
RANDOM == 5
SESSION_ID_LEN == 6
SESSION_ID == 8

----------------------------------------------------------------------------
(* The token.                                                              *)

\* An ideal HMAC.
truncated_hmac(secret, label, input) == <<label, secret, input>>

\* The candidate covers the first half of the random only.
candidate_session_id_tag(random_prefix, secret) ==
    truncated_hmac(secret, "candidate", <<random_prefix>>)

\* The claim covers the whole message, the session id as zeros.
complete_claim_tag(client_hello, secret) ==
    truncated_hmac(secret, "claim",
                   [client_hello EXCEPT ![SESSION_ID - 1] = <<0>>, ![SESSION_ID] = <<0>>])

client_hello_layout(client_hello) ==
    /\ Len(client_hello) >= SESSION_ID
    /\ client_hello[1] = HANDSHAKE_TYPE_CLIENT_HELLO
    /\ Len(client_hello) = HANDSHAKE_HEADER_LEN + client_hello[2][1]
    /\ client_hello[SESSION_ID_LEN] = LEGACY_SESSION_ID_LEN

session_id(client_hello) == SubSeq(client_hello, SESSION_ID - 1, SESSION_ID)

verify_legacy_session_id(client_hello, secret) ==
    /\ client_hello_layout(client_hello)
    /\ session_id(client_hello) =
            <<candidate_session_id_tag(client_hello[RANDOM_PREFIX], secret),
              complete_claim_tag(client_hello, secret)>>

\* A second ClientHello, after a HelloRetryRequest, has the same random and must
\* keep the session id of the first.
fill_legacy_session_id(client_hello, secret) ==
    LET candidate == candidate_session_id_tag(client_hello[RANDOM_PREFIX], secret)
    IN  IF session_id(client_hello)[1] = candidate
        THEN session_id(client_hello)
        ELSE <<candidate, complete_claim_tag(client_hello, secret)>>

\* What BoringSSL sends after the callback; an error of the callback would end
\* the handshake.
client_hello_session_id_callback(client_hello, secret) ==
    LET id == fill_legacy_session_id(client_hello, secret)
    IN  [client_hello EXCEPT ![SESSION_ID - 1] = id[1], ![SESSION_ID] = id[2]]

----------------------------------------------------------------------------
(* The classifier.                                                          *)

\* Mutant: a stream that ends in the middle of a record header is not TLS.
next_record_short(buf, pos) ==
    IF pos + TLS_RECORD_HEADER_LEN > Len(buf) THEN (IF pos = Len(buf) THEN "Incomplete" ELSE "Pass")
    ELSE IF buf[pos + 1] # TLS_HANDSHAKE_CONTENT_TYPE THEN "Pass" ELSE "Ok"

\* The header of the record that starts after `pos` cells.
next_record(buf, pos) ==
    IF pos + TLS_RECORD_HEADER_LEN > Len(buf) THEN "Incomplete"
    ELSE IF buf[pos + 1] # TLS_HANDSHAKE_CONTENT_TYPE THEN "Pass" ELSE "Ok"

\* The reader moves on to the next record and takes the cells that it carries, as
\* far as they have arrived: `at` is where in the stream they are, `end` the verdict
\* of a read that needs more of them.
ReadRecord(buf, reader) ==
    LET header == next_record(buf, reader.pos)
        start == reader.pos + TLS_RECORD_HEADER_LEN
        full == start + buf[start][1]
        stop == IF full <= Len(buf) THEN full ELSE Len(buf)
    IN  IF reader.end # "Ok" THEN reader
        ELSE IF header # "Ok" THEN [reader EXCEPT !.end = header]
        ELSE [pos |-> stop, at |-> reader.at \o [i \in 1..(stop - start) |-> start + i],
              end |-> IF full <= Len(buf) THEN "Ok" ELSE "Incomplete"]

\* RecordReader, when it has read all that there is: a record is two cells or more.
Records(buf) ==
    LET reader[k \in 0..Len(buf) + 1] ==
            IF k = 0 THEN [pos |-> 0, at |-> <<>>, end |-> "Ok"]
            ELSE ReadRecord(buf, reader[k - 1])
    IN  reader[Len(buf) + 1]

\* HandshakeReader::read_exact, up to cell `upto` of the message: a message that
\* says it is shorter is not a ClientHello of ours.
HandshakeRead(records, hs_len, upto) ==
    IF upto > HANDSHAKE_HEADER_LEN + hs_len THEN "Pass"
    ELSE IF upto > Len(records.at) THEN records.end ELSE "Ok"

classify_session_id(client_hello, secret) ==
    IF verify_legacy_session_id(client_hello, secret) THEN "Claim" ELSE "Pass"

classify_tcp_client_hello_within_limit(input, secret) ==
    LET records == Records(input)
        cell(i) == input[records.at[i]]
        hs_len == cell(2)[1]
        read(upto) == HandshakeRead(records, hs_len, upto)
        message_len == HANDSHAKE_HEADER_LEN + hs_len
    IN  IF Len(records.at) < HANDSHAKE_HEADER_LEN THEN records.end
        ELSE IF cell(1) # HANDSHAKE_TYPE_CLIENT_HELLO THEN "Pass"
        ELSE IF TLS_RECORD_HEADER_LEN + message_len > MAX_TCP_CLIENT_HELLO_WIRE_LEN THEN "Pass"
        ELSE IF read(VERSION) # "Ok" THEN read(VERSION)
        ELSE IF read(RANDOM) # "Ok" THEN read(RANDOM)
        ELSE IF read(SESSION_ID_LEN) # "Ok" THEN read(SESSION_ID_LEN)
        ELSE IF cell(SESSION_ID_LEN) # LEGACY_SESSION_ID_LEN THEN "Pass"
        ELSE IF read(SESSION_ID) # "Ok" THEN read(SESSION_ID)
        ELSE IF cell(SESSION_ID - 1) # candidate_session_id_tag(cell(RANDOM_PREFIX), secret)
             THEN "Pass"
        ELSE IF read(message_len) # "Ok" THEN read(message_len)
        ELSE IF records.at[message_len] > MAX_TCP_CLIENT_HELLO_WIRE_LEN THEN "Pass"
        ELSE classify_session_id([i \in 1..message_len |-> cell(i)], secret)

classify_tcp_client_hello(input, secret) ==
    LET verdict == classify_tcp_client_hello_within_limit(input, secret)
    IN  IF verdict = "Incomplete" /\ Len(input) >= MAX_TCP_CLIENT_HELLO_WIRE_LEN
        THEN "Pass" ELSE verdict

=============================================================================
