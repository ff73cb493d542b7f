----------------------------- MODULE QspSession -----------------------------
(***************************************************************************)
(* One direction of a UDP-QSP session (slt-core/src/crypto/udp_qsp/        *)
(* session.rs): a sender that numbers its packets and rotates its keys at  *)
(* multiples of KEY_UPDATE_INTERVAL, a network that loses, delays,         *)
(* reorders and duplicates datagrams and changes the address they come     *)
(* from, and a receiver with a replay window, the current, the previous    *)
(* and the candidate receive keys, and (in the server) the reply address   *)
(* that follows the newest packet.                                         *)
(*                                                                         *)
(* Keys are generation numbers: generation g + 1 is what with_next_tx_keys *)
(* and with_next_rx_keys derive from generation g.  AEAD opens a packet    *)
(* exactly when the generation and the reconstructed packet number (the    *)
(* nonce) are the sender's.  No session ever forgets a sent packet here,   *)
(* so a packet may arrive at any later time, any number of times, or never.*)
(***************************************************************************)
EXTENDS PacketNumber, Sequences, FiniteSets

CONSTANTS
    PN_REPLAY_WINDOW,         \* packet numbers the replay window remembers
    KEY_UPDATE_INTERVAL,      \* packet numbers per key generation
    KEY_UPDATE_LATE_MARGIN,   \* distance to a threshold that tries new keys
    PnStarts,                 \* first packet numbers REGISTER_CID may carry
    MaxPackets,               \* bound: packets the sender sends
    SocketAddr                \* addresses a datagram may come from

\* The compile-time assertion of session.rs, and the relations between the
\* three sizes that its comments rely on.
ASSUME QspAssumption ==
    /\ PN_REPLAY_WINDOW \in Nat \ {0}
    /\ KEY_UPDATE_LATE_MARGIN \in Nat
    /\ KEY_UPDATE_INTERVAL \in Nat \ {0}
    /\ PN_REPLAY_WINDOW + KEY_UPDATE_LATE_MARGIN < KEY_UPDATE_INTERVAL
    /\ LET shortest == packet_number_len(KEY_UPDATE_INTERVAL
                                            - KEY_UPDATE_LATE_MARGIN)
       IN  2 * KEY_UPDATE_LATE_MARGIN < PnWindow(shortest) \div 2
    /\ PnStarts \subseteq 0..PnMax
    /\ MaxPackets \in Nat

VARIABLES
    tx,         \* the sending session: next_pn, keys, tx_next_rekey_pn
    rx,         \* the receiving session: keys, thresholds, replay window
    sent,       \* packets handed to the network
    delivered,  \* for a packet number, the addresses it was accepted from
    peer        \* the server's reply address and its packet number

vars == <<tx, rx, sent, delivered, peer>>

NoPn == -1
NoPeer == "placeholder"
Pn == 0..PnMax
PnOption == Pn \cup {NoPn}

------------------------------------------------------------------------------
(* Rekey thresholds *)

\* The first multiple of the interval after pn, if there is one.
next_rekey_after(pn) ==
    LET next == pn + KEY_UPDATE_INTERVAL - (pn % KEY_UPDATE_INTERVAL)
    IN  IF next <= PnMax THEN next ELSE NoPn

pn_distance(a, b) == IF a < b THEN b - a ELSE a - b

------------------------------------------------------------------------------
(* Replay window: bits is the set of ring positions whose bit is set. *)

bit_position(pn) == pn % PN_REPLAY_WINDOW

expected_pn(r) == IF r.largest_pn = NoPn THEN r.initial_expected
                                         ELSE r.largest_pn + 1

WindowStart(pn) == IF pn < PN_REPLAY_WINDOW - 1 THEN 0
                                                ELSE pn - (PN_REPLAY_WINDOW - 1)

TooOld(r, pn) ==
    IF r.largest_pn = NoPn
    THEN pn < r.initial_expected
    ELSE pn + PN_REPLAY_WINDOW <= r.largest_pn

Replay(r, pn) ==
    /\ r.largest_pn # NoPn
    /\ pn <= r.largest_pn
    /\ bit_position(pn) \in r.bits

\* Mutant: the slide clears one bit too many.
Slid_past_start(r, pn) ==
    IF r.largest_pn = NoPn \/ pn >= r.largest_pn + PN_REPLAY_WINDOW
    THEN {}
    ELSE r.bits \ { bit_position(old) :
                        old \in WindowStart(r.largest_pn)..WindowStart(pn) }

\* The bits that survive when pn becomes the largest number.
Slid(r, pn) ==
    IF r.largest_pn = NoPn \/ pn >= r.largest_pn + PN_REPLAY_WINDOW
    THEN {}
    ELSE r.bits \ { bit_position(old) :
                        old \in WindowStart(r.largest_pn)..WindowStart(pn)-1 }

\* ReplayWindow::check_and_update for a number that is neither too old nor
\* a replay.
Updated(r, pn) ==
    IF pn <= r.largest_pn
    THEN [r EXCEPT !.bits = @ \cup {bit_position(pn)}]
    ELSE [r EXCEPT !.bits = Slid(r, pn) \cup {bit_position(pn)},
                   !.largest_pn = pn]

------------------------------------------------------------------------------
(* Receive keys *)

\* AEAD and header protection: the packet opens under key generation gen when
\* the receiver expects `expected`.
Opens(p, gen, expected) == p.gen = gen /\ Decoded(p.pn, expected) = p.pn

NoPrevious == [gen |-> NoPn, valid_until_pn |-> NoPn]

\* The previous keys are dropped before the packet is even looked at.
maybe_confirm_previous_rx_keys(r) ==
    IF r.previous # NoPrevious /\ expected_pn(r) > r.previous.valid_until_pn
    THEN [r EXCEPT !.previous = NoPrevious]
    ELSE r

should_try_candidate(r) ==
    /\ r.previous = NoPrevious
    /\ r.next_rekey # NoPn
    /\ pn_distance(expected_pn(r), r.next_rekey) <= KEY_UPDATE_LATE_MARGIN

\* Mutants: no grace for the previous keys; the threshold is not advanced.
promote_without_grace(r) ==
    [r EXCEPT !.previous = [gen |-> r.gen, valid_until_pn |-> r.next_rekey],
              !.gen = r.gen + 1,
              !.key_phase = ~ r.key_phase,
              !.next_rekey = next_rekey_after(r.next_rekey)]

promote_same_threshold(r) ==
    [r EXCEPT !.previous = [gen |-> r.gen,
                            valid_until_pn |-> r.next_rekey + PN_REPLAY_WINDOW],
              !.gen = r.gen + 1,
              !.key_phase = ~ r.key_phase]

promote_candidate_rx_keys(r) ==
    [r EXCEPT !.previous = [gen |-> r.gen,
                            valid_until_pn |-> r.next_rekey + PN_REPLAY_WINDOW],
              !.gen = r.gen + 1,
              !.key_phase = ~ r.key_phase,
              !.next_rekey = next_rekey_after(r.next_rekey)]

\* The three attempts of open_packet, in its order; each also compares the
\* packet's key phase bit.
OpensCurrent(r, p) ==
    Opens(p, r.gen, expected_pn(r)) /\ p.key_phase = r.key_phase

OpensPrevious(r, p) ==
    /\ r.previous # NoPrevious
    /\ expected_pn(r) <= r.previous.valid_until_pn
    /\ Opens(p, r.previous.gen, expected_pn(r))
    /\ p.key_phase # r.key_phase

OpensCandidate(r, p) ==
    /\ should_try_candidate(r)
    /\ Opens(p, r.gen + 1, expected_pn(r))
    /\ p.key_phase # r.key_phase

\* The receiver after the keys for p are found, before the replay check.
Keyed(r, p) ==
    IF OpensCurrent(r, p) \/ OpensPrevious(r, p) THEN r
                                                 ELSE promote_candidate_rx_keys(r)

\* open_packet(p) returns Ok in receiver state r0.
Accepts(r0, p) ==
    LET r == maybe_confirm_previous_rx_keys(r0)
    IN  /\ OpensCurrent(r, p) \/ OpensPrevious(r, p) \/ OpensCandidate(r, p)
        /\ ~ TooOld(r, p.pn)
        /\ ~ Replay(r, p.pn)

------------------------------------------------------------------------------
(* Sender and network *)

\* QuicQspSession::new on both ends of a direction.
Init ==
    \E start \in PnStarts, phase \in BOOLEAN :
        /\ tx = [next_pn |-> start, gen |-> 0, key_phase |-> phase,
                 next_rekey |-> next_rekey_after(start), start |-> start]
        /\ rx = [gen |-> 0, key_phase |-> phase,
                 next_rekey |-> next_rekey_after(start),
                 previous |-> NoPrevious,
                 largest_pn |-> NoPn, initial_expected |-> start, bits |-> {}]
        /\ sent = {}
        /\ delivered = << >>
        /\ peer = [addr |-> NoPeer, pn |-> NoPn]

\* Keys, phase and threshold for packet number pn.  Packet numbers grow by
\* one, so the loop of the code turns at most once per packet.
maybe_rotate_tx_keys(s) ==
    IF s.next_rekey # NoPn /\ s.next_pn >= s.next_rekey
    THEN [s EXCEPT !.gen = @ + 1,
                   !.key_phase = ~ @,
                   !.next_rekey = next_rekey_after(@)]
    ELSE s

\* QuicQspSession::send: the packet number is consumed whether or not the
\* datagram ever leaves the socket.  At PnMax the number cannot be advanced
\* and the send fails.
Send ==
    /\ tx.next_pn < PnMax
    /\ tx.next_pn < tx.start + MaxPackets
    /\ LET s == maybe_rotate_tx_keys(tx)
       IN  /\ tx' = [s EXCEPT !.next_pn = @ + 1]
           /\ sent' = sent \cup {[pn |-> s.next_pn, gen |-> s.gen,
                                  key_phase |-> s.key_phase]}
    /\ UNCHANGED <<rx, delivered, peer>>

------------------------------------------------------------------------------
(* Receiver *)

\* Mutant: every accepted packet sets the reply address.
adopt_udp_peer_always(from, pn) == [addr |-> from, pn |-> pn]

\* The first accepted packet and every newer one set the reply address.
adopt_udp_peer_if_newer(from, pn) ==
    IF peer.pn # NoPn /\ pn <= peer.pn
    THEN peer
    ELSE [addr |-> from, pn |-> pn]

AcceptedFrom(pn) == IF pn \in DOMAIN delivered THEN delivered[pn] ELSE << >>

Record(pn, from) ==
    [q \in DOMAIN delivered \cup {pn} |->
        IF q = pn THEN Append(AcceptedFrom(pn), from) ELSE delivered[q]]

\* open_packet accepts: handle_udp_claim then adopts the peer address.
ReceiveAccepted(p, from) ==
    /\ Accepts(rx, p)
    /\ rx' = Updated(Keyed(maybe_confirm_previous_rx_keys(rx), p), p.pn)
    /\ delivered' = Record(p.pn, from)
    /\ peer' = adopt_udp_peer_if_newer(from, p.pn)
    /\ UNCHANGED <<tx, sent>>

\* The packet is authentic and its keys are known, but the replay window
\* refuses it: promoted keys stay promoted.
ReceiveRefused(p) ==
    LET r == maybe_confirm_previous_rx_keys(rx)
    IN  /\ OpensCurrent(r, p) \/ OpensPrevious(r, p) \/ OpensCandidate(r, p)
        /\ TooOld(r, p.pn) \/ Replay(r, p.pn)
        /\ rx' = Keyed(r, p)
        /\ UNCHANGED <<tx, sent, delivered, peer>>

\* No key opens the packet.
ReceiveUnopened(p) ==
    LET r == maybe_confirm_previous_rx_keys(rx)
    IN  /\ ~ (OpensCurrent(r, p) \/ OpensPrevious(r, p) \/ OpensCandidate(r, p))
        /\ rx' = r
        /\ UNCHANGED <<tx, sent, delivered, peer>>

Receive(p) ==
    \/ \E from \in SocketAddr : ReceiveAccepted(p, from)
    \/ ReceiveRefused(p)
    \/ ReceiveUnopened(p)

Next == Send \/ \E p \in sent : Receive(p)

Spec == Init /\ [][Next]_vars

------------------------------------------------------------------------------
(* Properties *)

Generation == 0..MaxPackets

Packet == [pn : Pn, gen : Generation, key_phase : BOOLEAN]

Sender ==
    [next_pn : Pn, gen : Generation, key_phase : BOOLEAN,
     next_rekey : PnOption, start : Pn]

Receiver ==
    [gen : Generation, key_phase : BOOLEAN, next_rekey : PnOption,
     previous : [gen : Generation \cup {NoPn},
                 valid_until_pn : Nat \cup {NoPn}],
     largest_pn : PnOption, initial_expected : Pn,
     bits : SUBSET (0..PN_REPLAY_WINDOW-1)]

\* Both ends keep well-formed state: packet numbers stay within u64, ring
\* positions within the window, reply addresses known or the placeholder.
TypeOK ==
    /\ tx \in Sender
    /\ rx \in Receiver
    /\ sent \subseteq Packet
    /\ DOMAIN delivered \subseteq { p.pn : p \in sent }
    /\ peer \in [addr : SocketAddr \cup {NoPeer}, pn : PnOption]

\* However datagrams are duplicated, delayed and reordered, and across key
\* updates, open_packet accepts a packet number at most once.
NoReplayAccepted ==
    \A pn \in DOMAIN delivered : Len(delivered[pn]) = 1

\* A packet that has not been accepted, lies in the replay window of the
\* largest accepted one, is less than the late margin ahead of the expected
\* number and can be decoded from its wire bytes is accepted if it arrives
\* now: key updates, window slides and refused packets lose nothing.
Decodable(pn, expected) ==
    pn + PnWindow(packet_number_len(pn)) \div 2 > expected

Pending(p) ==
    /\ p.pn \notin DOMAIN delivered
    /\ ~ TooOld(rx, p.pn)
    /\ p.pn < expected_pn(rx) + KEY_UPDATE_LATE_MARGIN

PendingPacketOpens ==
    \A p \in sent :
        Pending(p) /\ Decodable(p.pn, expected_pn(rx)) => Accepts(rx, p)

\* The receiver's keys never run ahead of the sender's; equal generations have
\* equal phases and thresholds; and a receiver that is at most the late margin
\* behind is at most one generation behind.
GenerationsAgree ==
    /\ rx.gen <= tx.gen
    /\ rx.gen = tx.gen => /\ rx.key_phase = tx.key_phase
                          /\ rx.next_rekey = tx.next_rekey
    /\ tx.next_pn <= expected_pn(rx) + KEY_UPDATE_LATE_MARGIN
           => tx.gen <= rx.gen + 1

\* The server replies to the address that the newest accepted packet came
\* from; an older packet that arrives late never moves it back.
PeerFollowsNewest ==
    delivered # << >> =>
        LET newest == CHOOSE pn \in DOMAIN delivered :
                          \A q \in DOMAIN delivered : q <= pn
        IN  /\ peer.pn = newest
            /\ peer.addr = delivered[newest][1]

\* The bits of the window are exactly the accepted packet numbers in it.
WindowIsExact ==
    rx.largest_pn # NoPn =>
        \A pn \in WindowStart(rx.largest_pn)..rx.largest_pn :
            bit_position(pn) \in rx.bits <=> pn \in DOMAIN delivered
=============================================================================
