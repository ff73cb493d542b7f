---------------------------- MODULE PacketNumber ----------------------------
(***************************************************************************)
(* Packet numbers on the wire (slt-core/src/crypto/udp_qsp/pn.rs).  A      *)
(* sender writes the low bytes of a packet number, as many as the number   *)
(* itself needs (at most MAX_WIRE_PN_LEN); the receiver completes them     *)
(* from the packet number it expects next.  A byte has PnBase values (256  *)
(* in the code) and a packet number is at most PnMax (u64::MAX).           *)
(***************************************************************************)
EXTENDS Integers

CONSTANTS PnBase, PnMax

MAX_WIRE_PN_LEN == 4

\* What 1u64 << (pn_len * 8) is in the code, for the lengths that are sent.
PnWindow(len) ==
    LET Squared == PnBase * PnBase
    IN  <<PnBase, Squared, PnBase * Squared, Squared * Squared>>[len]

\* u64::MAX + 1 is a multiple of every window, so no bitwise completion of a
\* truncated number leaves the range.
ASSUME PnAssumption == 
    /\ PnBase \in Nat /\ PnBase >= 2
    /\ PnMax \in Nat
    /\ (PnMax + 1) % PnWindow(MAX_WIRE_PN_LEN) = 0

\* The number of bytes build_header() writes for pn.
packet_number_len(pn) ==
    CHOOSE len \in 1..MAX_WIRE_PN_LEN :
        /\ len = MAX_WIRE_PN_LEN \/ pn < PnWindow(len)
        /\ \A shorter \in 1..len-1 : pn >= PnWindow(shorter)

\* The low bytes of pn, as they are sent.
Truncated(pn) == pn % PnWindow(packet_number_len(pn))

\* The candidate with the high bytes of the expected number, moved one window
\* up when it is half a window or more behind, and one window down when it is
\* more than half a window ahead; a checked addition that overflows leaves the
\* candidate where it is.
reconstruct_packet_number(truncated, expected, len) ==
    LET window    == PnWindow(len)
        half      == window \div 2
        candidate == expected - (expected % window) + truncated
        advanced  == IF /\ candidate + half <= expected
                        /\ candidate + window <= PnMax
                     THEN candidate + window
                     ELSE candidate
    IN  IF /\ expected + half <= PnMax
           /\ advanced > expected + half
           /\ advanced >= window
        THEN advanced - window
        ELSE advanced

\* What the receiver makes of packet number pn when it expects `expected`.
Decoded(pn, expected) ==
    reconstruct_packet_number(Truncated(pn), expected, packet_number_len(pn))
=============================================================================
