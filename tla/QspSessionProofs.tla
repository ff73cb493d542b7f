-------------------------- MODULE QspSessionProofs --------------------------
(***************************************************************************)
(* Proofs about QspSession, for every window, interval and margin that     *)
(* satisfies QspAssumption and any number of packets.                      *)
(***************************************************************************)
EXTENDS QspSession, TLAPS

------------------------------------------------------------------------------
(* Arithmetic of ring positions *)

\* Quotient and remainder.
LEMMA Division ==
    ASSUME NEW w \in Nat, w > 0, NEW a \in Nat
    PROVE  /\ a % w \in 0..w-1
           /\ a \div w \in Nat
           /\ a = w * (a \div w) + (a % w)
  OBVIOUS

\* Multiples of w are at least w apart.
LEMMA MultiplesApart ==
    ASSUME NEW w \in Nat, w > 0, NEW p \in Nat, NEW q \in Nat, p < q
    PROVE  w * q >= w * p + w
  OBVIOUS

\* Two numbers less than w apart have different remainders.
LEMMA RemaindersDiffer ==
    ASSUME NEW w \in Nat, w > 0, NEW a \in Nat, NEW b \in Nat,
           a < b, b < a + w
    PROVE  a % w # b % w
<1>1. SUFFICES ASSUME a % w = b % w PROVE FALSE
  OBVIOUS
<1> DEFINE p == a \div w
           q == b \div w
<1>2. /\ p \in Nat /\ q \in Nat
      /\ a = w * p + (a % w)
      /\ b = w * q + (b % w)
      /\ a % w \in 0..w-1
  BY Division
<1> HIDE DEF p, q
<1> DEFINE x == w * p
           y == w * q
<1>3. x \in Nat /\ y \in Nat
  BY <1>2
<1>4. CASE p < q
  <2>1. y >= x + w
    BY <1>2, <1>4, MultiplesApart
  <2> HIDE DEF x, y
  <2> QED BY <2>1, <1>1, <1>2, <1>3 DEF x, y
<1>5. CASE q < p
  <2>1. x >= y + w
    BY <1>2, <1>5, MultiplesApart
  <2> QED BY <2>1, <1>1, <1>2, <1>3
<1>6. CASE p = q
  BY <1>6, <1>1, <1>2
<1> QED BY <1>2, <1>4, <1>5, <1>6

\* Numbers that fit in one replay window have different ring positions.
LEMMA PositionsDiffer ==
    ASSUME NEW a \in Nat, NEW b \in Nat, a # b,
           a < b + PN_REPLAY_WINDOW, b < a + PN_REPLAY_WINDOW
    PROVE  bit_position(a) # bit_position(b)
<1>1. PN_REPLAY_WINDOW \in Nat /\ PN_REPLAY_WINDOW > 0
  BY QspAssumption
<1>2. CASE a < b
  BY <1>1, <1>2, RemaindersDiffer DEF bit_position
<1>3. CASE b < a
  BY <1>1, <1>3, RemaindersDiffer DEF bit_position
<1> QED BY <1>2, <1>3

\* Every ring position is within the window.
LEMMA PositionType ==
    ASSUME NEW a \in Nat
    PROVE  bit_position(a) \in 0..PN_REPLAY_WINDOW-1
  BY QspAssumption DEF bit_position

\* A rekey threshold is a packet number or none.
LEMMA ThresholdType ==
    ASSUME NEW a \in Pn
    PROVE  next_rekey_after(a) \in PnOption
  BY QspAssumption, PnAssumption DEF next_rekey_after, PnOption, Pn, NoPn

------------------------------------------------------------------------------
(* Packet numbers on the wire *)

\* Every window is a divisor of the largest one.
LEMMA WindowFacts ==
    ASSUME NEW len \in 1..MAX_WIRE_PN_LEN
    PROVE  /\ PnWindow(len) \in Nat /\ PnWindow(len) >= 2
           /\ \E q \in Nat : PnWindow(MAX_WIRE_PN_LEN) = PnWindow(len) * q
           /\ PnWindow(len) <= PnWindow(MAX_WIRE_PN_LEN)
<1> DEFINE b == PnBase
           bb == b * b
<1>1. b \in Nat /\ b >= 2
  BY PnAssumption
<1>2. bb \in Nat /\ bb >= 4 /\ bb >= b
  BY <1>1
<1>3. b * bb \in Nat /\ b * bb >= bb
  BY <1>1, <1>2
<1>4. bb * bb \in Nat /\ bb * bb = (b * bb) * b
  BY <1>1, <1>2
<1>5. bb * bb >= b * bb
  BY <1>1, <1>3, <1>4
<1>6. bb * bb = b * (b * bb)
  <2> DEFINE bbb == b * bb
  <2>1. bbb \in Nat /\ bb * bb = bbb * b
    BY <1>3, <1>4
  <2> HIDE DEF bbb
  <2>2. bbb * b = b * bbb
    BY <1>1, <2>1
  <2> QED BY <2>1, <2>2 DEF bbb
<1> HIDE DEF bb, b
<1>7. /\ PnWindow(1) = b /\ PnWindow(2) = bb /\ PnWindow(3) = b * bb
      /\ PnWindow(4) = bb * bb
  BY DEF PnWindow, bb, b
<1>8. len = 1 \/ len = 2 \/ len = 3 \/ len = 4
  BY DEF MAX_WIRE_PN_LEN
<1>9. PnWindow(len) \in Nat /\ PnWindow(len) >= 2 /\ PnWindow(len) <= PnWindow(4)
  BY <1>1, <1>2, <1>3, <1>4, <1>5, <1>7, <1>8
<1>10. \E q \in Nat : PnWindow(4) = PnWindow(len) * q
  <2>1. CASE len = 1
    BY <1>3, <1>6, <1>7, <2>1
  <2>2. CASE len = 2
    BY <1>2, <1>7, <2>2
  <2>3. CASE len = 3
    BY <1>1, <1>4, <1>7, <2>3
  <2>4. CASE len = 4
    <3>1. bb * bb = (bb * bb) * 1
      BY <1>4
    <3> QED BY <3>1, <1>7, <2>4
  <2> QED BY <1>8, <2>1, <2>2, <2>3, <2>4
<1> QED BY <1>9, <1>10 DEF MAX_WIRE_PN_LEN

\* A number is sent in full unless it needs more bytes than there are.
LEMMA LengthFacts ==
    ASSUME NEW pn \in Nat
    PROVE  /\ packet_number_len(pn) \in 1..MAX_WIRE_PN_LEN
           /\ packet_number_len(pn) = MAX_WIRE_PN_LEN \/ pn < PnWindow(packet_number_len(pn))
<1> DEFINE Fits(len) == /\ len = MAX_WIRE_PN_LEN \/ pn < PnWindow(len)
                        /\ \A shorter \in 1..len-1 : pn >= PnWindow(shorter)
<1>1. \A len \in 1..4 : PnWindow(len) \in Nat
  BY WindowFacts DEF MAX_WIRE_PN_LEN
<1>2. \E len \in 1..4 : Fits(len)
  <2>1. CASE pn < PnWindow(1)
    <3>1. Fits(1)
      BY <2>1
    <3> QED BY <3>1
  <2>2. CASE pn >= PnWindow(1) /\ pn < PnWindow(2)
    <3>1. Fits(2)
      BY <2>2
    <3> QED BY <3>1
  <2>3. CASE pn >= PnWindow(1) /\ pn >= PnWindow(2) /\ pn < PnWindow(3)
    <3>1. Fits(3)
      BY <2>3
    <3> QED BY <3>1
  <2>4. CASE pn >= PnWindow(1) /\ pn >= PnWindow(2) /\ pn >= PnWindow(3)
    <3>1. Fits(4)
      BY <2>4 DEF MAX_WIRE_PN_LEN
    <3> QED BY <3>1
  <2> QED BY <1>1, <2>1, <2>2, <2>3, <2>4
<1>3. packet_number_len(pn) = CHOOSE len \in 1..4 : Fits(len)
  BY DEF packet_number_len, MAX_WIRE_PN_LEN
<1>4. packet_number_len(pn) \in 1..4 /\ Fits(packet_number_len(pn))
  BY <1>2, <1>3
<1> QED BY <1>4 DEF MAX_WIRE_PN_LEN

\* A sum of a multiple and a remainder.
LEMMA BlockAfter ==
    ASSUME NEW w \in Nat, w > 0, NEW a \in Nat, NEW b \in Nat, a < b, w * b < w * a + 2 * w
    PROVE  b = a + 1 /\ w * b = w * a + w
<1>1. SUFFICES ASSUME b > a + 1 PROVE FALSE
  OBVIOUS
<1>2. w * b >= w * (a + 1) + w
  BY <1>1, MultiplesApart
<1>3. w * (a + 1) = w * a + w
  OBVIOUS
<1>4. w * a \in Nat /\ w * b \in Nat
  OBVIOUS
<1> QED BY <1>2, <1>3, <1>4

\* reconstruct_packet_number finds the sender's number when it is less than half a window
\* behind the expected one, and at most half of the widest window ahead.
LEMMA DecodedIsSent ==
    ASSUME NEW pn \in Nat, pn <= PnMax, NEW expected \in Nat, expected <= PnMax,
           Decodable(pn, expected),
           pn <= expected + PnWindow(MAX_WIRE_PN_LEN) \div 2
    PROVE  Decoded(pn, expected) = pn
<1> DEFINE len == packet_number_len(pn)
           w == PnWindow(len)
           h == w \div 2
           a == pn \div w
           b == expected \div w
           x == pn % w
           y == expected % w
           wa == w * a
           wb == w * b
<1>1. len \in 1..MAX_WIRE_PN_LEN /\ (len = MAX_WIRE_PN_LEN \/ pn < w)
  BY LengthFacts
<1>2. w \in Nat /\ w >= 2
  BY <1>1, WindowFacts
<1>3. pn + h > expected
  BY DEF Decodable
<1>4. pn >= w => pn <= expected + h
  BY <1>1, <1>2
<1> HIDE DEF len, w
<1>5. h \in Nat /\ 2 * h <= w /\ w <= 2 * h + 1 /\ h >= 1
  BY <1>2
<1>6. /\ a \in Nat /\ b \in Nat /\ x \in 0..w-1 /\ y \in 0..w-1
      /\ pn = wa + x /\ expected = wb + y
  BY <1>2, Division
<1> HIDE DEF h, a, b, x, y
<1>7. wa \in Nat /\ wb \in Nat
  BY <1>2, <1>6
<1>8. wb + w <= PnMax + 1
  <2>1. PICK q \in Nat : PnWindow(MAX_WIRE_PN_LEN) = w * q
    BY <1>1, WindowFacts DEF w
  <2>2. PnMax + 1 \in Nat /\ (PnMax + 1) % PnWindow(MAX_WIRE_PN_LEN) = 0
    BY PnAssumption
  <2>3. PnWindow(MAX_WIRE_PN_LEN) \in Nat /\ PnWindow(MAX_WIRE_PN_LEN) >= 2
    BY WindowFacts DEF MAX_WIRE_PN_LEN
  <2>4. PICK m \in Nat : PnMax + 1 = PnWindow(MAX_WIRE_PN_LEN) * m
    <3> DEFINE N == PnMax + 1
               v == PnWindow(MAX_WIRE_PN_LEN)
               m == N \div v
    <3>1. N \in Nat /\ v \in Nat /\ v > 0 /\ N % v = 0
      BY <2>2, <2>3
    <3> HIDE DEF N, v
    <3>2. m \in Nat /\ N = v * m + (N % v)
      BY <3>1, Division
    <3> HIDE DEF m
    <3>3. v * m \in Nat
      BY <3>1, <3>2
    <3>4. N = v * m
      BY <3>1, <3>2, <3>3
    <3> QED BY <3>2, <3>4 DEF N, v
  <2> DEFINE k == q * m
  <2>5. k \in Nat /\ PnMax + 1 = w * k
    BY <1>2, <2>1, <2>4
  <2> HIDE DEF k
  <2>6. b < k
    <3>1. SUFFICES ASSUME k <= b PROVE FALSE
      BY <1>6, <2>5
    <3>2. wb >= w * k
      <4>1. CASE k = b
        BY <4>1, <1>7
      <4>2. CASE k < b
        <5>1. w * b >= w * k + w
          BY <1>2, <1>6, <2>5, <4>2, MultiplesApart
        <5>2. w * k \in Nat
          BY <1>2, <2>5
        <5> QED BY <5>1, <5>2, <1>2, <1>7
      <4> QED BY <3>1, <4>1, <4>2, <1>6, <2>5
    <3> HIDE DEF wb
    <3> QED BY <3>2, <1>6, <1>7, <2>5, PnAssumption
  <2>7. w * k >= wb + w
    BY <1>2, <1>6, <2>5, <2>6, MultiplesApart
  <2> QED BY <2>5, <2>7
<1>9. a < b => b = a + 1 /\ wb = wa + w
  <2>1. SUFFICES ASSUME a < b PROVE b = a + 1 /\ wb = wa + w
    OBVIOUS
  <2>2. wb < wa + 2 * w
    <3> HIDE DEF wa, wb
    <3> QED BY <1>2, <1>3, <1>5, <1>6, <1>7
  <2> QED BY <1>2, <1>6, <2>1, <2>2, BlockAfter
<1>10. b < a => a = b + 1 /\ wa = wb + w /\ pn <= expected + h
  <2>1. SUFFICES ASSUME b < a PROVE a = b + 1 /\ wa = wb + w /\ pn <= expected + h
    OBVIOUS
  <2>2. wa >= wb + w
    BY <1>2, <1>6, <2>1, MultiplesApart
  <2>3. pn <= expected + h
    <3> HIDE DEF wa, wb
    <3> QED BY <1>2, <1>4, <1>6, <1>7, <2>2
  <2>4. wa < wb + 2 * w
    <3> HIDE DEF wa, wb
    <3> QED BY <1>2, <1>5, <1>6, <1>7, <2>3
  <2> QED BY <1>2, <1>6, <2>1, <2>3, <2>4, BlockAfter
<1>11. a = b => wa = wb
  OBVIOUS
<1>12. pn >= w => pn <= expected + h
  BY <1>4
<1> DEFINE candidate == expected - y + x
           advanced == IF candidate + h <= expected /\ candidate + w <= PnMax
                       THEN candidate + w ELSE candidate
           final == IF expected + h <= PnMax /\ advanced > expected + h /\ advanced >= w
                    THEN advanced - w ELSE advanced
<1>13. Decoded(pn, expected) = final
  BY DEF Decoded, Truncated, reconstruct_packet_number, len, w, h, x, y
<1> HIDE DEF wa, wb, candidate
<1>14. candidate = wb + x
  BY <1>6, <1>7 DEF candidate
<1>15. PnMax \in Nat
  BY PnAssumption
<1>16. CASE a = b
  <2>1. candidate = pn
    BY <1>6, <1>11, <1>14, <1>16
  <2>2. advanced = candidate
    BY <1>3, <1>5, <2>1
  <2> HIDE DEF advanced
  <2> QED BY <1>12, <1>13, <2>1, <2>2, <1>2, <1>5
<1>17. CASE a < b
  <2>1. candidate = pn + w /\ wb = wa + w
    BY <1>2, <1>6, <1>7, <1>9, <1>14, <1>17
  <2>2. advanced = candidate
    BY <1>2, <1>3, <1>5, <2>1
  <2>3. expected + h <= PnMax /\ pn + w > expected + h
    BY <1>2, <1>3, <1>5, <1>6, <1>7, <1>8, <1>15, <2>1
  <2> HIDE DEF advanced
  <2> QED BY <1>13, <2>1, <2>2, <2>3, <1>2, <1>5
<1>18. CASE b < a
  <2>1. candidate + w = pn /\ pn <= expected + h
    BY <1>2, <1>6, <1>7, <1>10, <1>14, <1>18
  <2>2. candidate \in Nat
    BY <1>6, <1>7, <1>14
  <2>3. advanced = pn
    BY <1>2, <1>5, <2>1, <2>2
  <2> HIDE DEF advanced
  <2> QED BY <1>13, <2>1, <2>3, <1>2, <1>5
<1> QED BY <1>6, <1>16, <1>17, <1>18

------------------------------------------------------------------------------
(* The receiver's operations *)

\* Dropping the previous keys leaves the replay window alone.
LEMMA ConfirmFacts ==
    ASSUME NEW r \in Receiver
    PROVE  /\ maybe_confirm_previous_rx_keys(r) \in Receiver
           /\ maybe_confirm_previous_rx_keys(r).largest_pn = r.largest_pn
           /\ maybe_confirm_previous_rx_keys(r).initial_expected
                  = r.initial_expected
           /\ maybe_confirm_previous_rx_keys(r).bits = r.bits
<1>1. NoPrevious \in [gen : Generation \cup {NoPn},
                      valid_until_pn : Nat \cup {NoPn}]
  BY DEF NoPrevious
<1> QED BY <1>1 DEF maybe_confirm_previous_rx_keys, Receiver

\* Finding the keys of a packet, with or without a promotion, leaves the
\* replay window alone.
LEMMA KeyedFacts ==
    ASSUME NEW r \in Receiver, NEW p \in Packet,
           OpensCurrent(r, p) \/ OpensPrevious(r, p) \/ OpensCandidate(r, p)
    PROVE  /\ Keyed(r, p) \in Receiver
           /\ Keyed(r, p).largest_pn = r.largest_pn
           /\ Keyed(r, p).initial_expected = r.initial_expected
           /\ Keyed(r, p).bits = r.bits
<1>1. CASE OpensCurrent(r, p) \/ OpensPrevious(r, p)
  BY <1>1 DEF Keyed
<1>2. CASE ~ (OpensCurrent(r, p) \/ OpensPrevious(r, p))
  <2>1. Keyed(r, p) = promote_candidate_rx_keys(r)
    BY <1>2 DEF Keyed
  <2>2. r.next_rekey \in Pn /\ r.gen + 1 \in Generation
    BY <1>2 DEF OpensCandidate, should_try_candidate, Opens, Receiver, Packet,
                PnOption, Generation
  <2>3. next_rekey_after(r.next_rekey) \in PnOption
    BY <2>2, ThresholdType
  <2>4. r.next_rekey + PN_REPLAY_WINDOW \in Nat
    BY <2>2, QspAssumption, PnAssumption DEF Pn
  <2> DEFINE prev == [gen |-> r.gen,
                      valid_until_pn |-> r.next_rekey + PN_REPLAY_WINDOW]
             phase == ~ r.key_phase
             next == next_rekey_after(r.next_rekey)
  <2>5. prev \in [gen : Generation \cup {NoPn},
                  valid_until_pn : Nat \cup {NoPn}]
    BY <2>4 DEF Receiver
  <2>6. phase \in BOOLEAN
    OBVIOUS
  <2>7. Keyed(r, p) = [r EXCEPT !.previous = prev, !.gen = r.gen + 1,
                                !.key_phase = phase, !.next_rekey = next]
    BY <2>1 DEF promote_candidate_rx_keys
  <2> HIDE DEF prev, phase, next
  <2> QED BY <2>2, <2>3, <2>5, <2>6, <2>7 DEF Receiver, next
<1> QED BY <1>1, <1>2

\* An accepted packet number stays in or enters the window.
LEMMA UpdatedFacts ==
    ASSUME NEW r \in Receiver, NEW pn \in Pn
    PROVE  /\ Updated(r, pn) \in Receiver
           /\ Updated(r, pn).largest_pn
                  = IF pn <= r.largest_pn THEN r.largest_pn ELSE pn
           /\ Updated(r, pn).initial_expected = r.initial_expected
           /\ Updated(r, pn).bits
                  = (IF pn <= r.largest_pn THEN r.bits ELSE Slid(r, pn))
                        \cup {bit_position(pn)}
<1>1. bit_position(pn) \in 0..PN_REPLAY_WINDOW-1
  BY PositionType, PnAssumption DEF Pn
<1>2. Slid(r, pn) \in SUBSET (0..PN_REPLAY_WINDOW-1)
  BY DEF Slid, Receiver
<1>3. pn \in PnOption
  BY DEF PnOption
<1> QED BY <1>1, <1>2, <1>3 DEF Updated, Receiver

------------------------------------------------------------------------------
(* The replay window: D stands for the accepted packet numbers *)

\* The positions of the accepted numbers in the window that ends at largest.
Positions(D, largest) ==
    { bit_position(q) : q \in { d \in D : d >= WindowStart(largest) } }

\* A number that the window takes was not accepted before.
LEMMA TakenIsNew ==
    ASSUME NEW r \in Receiver, NEW pn \in Pn, NEW D \in SUBSET Pn,
           r.largest_pn = NoPn <=> D = {},
           \A q \in D : q <= r.largest_pn,
           r.bits = Positions(D, r.largest_pn),
           ~ TooOld(r, pn), ~ Replay(r, pn)
    PROVE  pn \notin D
<1>1. SUFFICES ASSUME pn \in D PROVE FALSE
  OBVIOUS
<1>2. r.largest_pn \in Nat /\ pn <= r.largest_pn /\ r.largest_pn # NoPn
  BY <1>1, PnAssumption DEF Receiver, PnOption, Pn
<1>3. pn >= WindowStart(r.largest_pn)
  BY <1>2, QspAssumption, PnAssumption DEF TooOld, WindowStart, Pn
<1>4. bit_position(pn) \in r.bits
  BY <1>1, <1>3 DEF Positions
<1> QED BY <1>2, <1>4 DEF Replay

\* Taking a number keeps the bits equal to the accepted numbers of the window.
LEMMA TakenKeepsPositions ==
    ASSUME NEW r \in Receiver, NEW pn \in Pn, NEW D \in SUBSET Pn,
           r.largest_pn = NoPn <=> D = {},
           \A q \in D : q <= r.largest_pn,
           r.bits = Positions(D, r.largest_pn),
           ~ TooOld(r, pn)
    PROVE  Updated(r, pn).bits
               = Positions(D \cup {pn}, Updated(r, pn).largest_pn)
<1> DEFINE W == PN_REPLAY_WINDOW
           l == r.largest_pn
<1>1. /\ W \in Nat /\ W > 0
      /\ pn \in Nat
      /\ D \subseteq Nat
      /\ l \in Nat \/ l = NoPn
  BY QspAssumption, PnAssumption DEF Receiver, PnOption, Pn
<1>2. CASE pn <= l
  <2>1. l \in Nat
    BY <1>1, <1>2 DEF NoPn
  <2>2. pn >= WindowStart(l)
    BY <1>1, <1>2, <2>1 DEF TooOld, WindowStart, NoPn
  <2>3. Positions(D \cup {pn}, l) = Positions(D, l) \cup {bit_position(pn)}
    BY <2>2 DEF Positions
  <2> QED BY <1>2, <2>3, UpdatedFacts
<1>3. CASE ~ (pn <= l)
  <2>1. /\ Updated(r, pn).largest_pn = pn
        /\ Updated(r, pn).bits = Slid(r, pn) \cup {bit_position(pn)}
    BY <1>3, UpdatedFacts
  <2>2. pn >= WindowStart(pn)
    BY <1>1 DEF WindowStart
  <2>3. Positions(D \cup {pn}, pn) = Positions(D, pn) \cup {bit_position(pn)}
    BY <2>2 DEF Positions
  <2>4. CASE l = NoPn
    BY <2>1, <2>3, <2>4 DEF Slid, Positions
  <2>5. CASE l # NoPn /\ pn >= l + W
    <3>1. \A d \in D : ~ (d >= WindowStart(pn))
      BY <1>1, <2>5 DEF WindowStart
    <3>2. Positions(D, pn) = {}
      BY <3>1 DEF Positions
    <3> QED BY <2>1, <2>3, <2>5, <3>2 DEF Slid
  <2>6. CASE l # NoPn /\ ~ (pn >= l + W)
    <3> DEFINE cleared == { bit_position(old) :
                              old \in WindowStart(l)..WindowStart(pn)-1 }
    <3>1. Slid(r, pn) = r.bits \ cleared
      BY <2>6 DEF Slid
    <3>2. /\ l \in Nat
          /\ WindowStart(l) \in Nat /\ WindowStart(pn) \in Nat
          /\ WindowStart(l) <= WindowStart(pn)
          /\ l < WindowStart(l) + W
      BY <1>1, <1>3, <2>6 DEF WindowStart
    <3>3. ASSUME NEW x \in Positions(D, l), x \notin cleared
          PROVE  x \in Positions(D, pn)
      <4>1. PICK q \in D : q >= WindowStart(l) /\ x = bit_position(q)
        BY <3>3 DEF Positions
      <4>2. q >= WindowStart(pn)
        BY <3>3, <4>1, <3>2, <1>1
      <4> QED BY <4>1, <4>2 DEF Positions
    <3>4. ASSUME NEW x \in Positions(D, pn)
          PROVE  x \in Positions(D, l) /\ x \notin cleared
      <4>1. PICK q \in D : q >= WindowStart(pn) /\ x = bit_position(q)
        BY <3>4 DEF Positions
      <4>2. q \in Nat /\ q <= l /\ q >= WindowStart(l)
        BY <4>1, <3>2, <1>1
      <4>3. ASSUME NEW old \in WindowStart(l)..WindowStart(pn)-1
            PROVE  bit_position(old) # x
        <5>1. old \in Nat /\ old < q /\ q < old + W
          BY <4>1, <4>2, <3>2, <1>1
        <5> QED BY <5>1, <4>1, <4>2, <1>1, PositionsDiffer
      <4> QED BY <4>1, <4>2, <4>3 DEF Positions
    <3>5. Positions(D, pn) = r.bits \ cleared
      BY <3>3, <3>4
    <3> QED BY <2>1, <2>3, <3>1, <3>5
  <2> QED BY <2>4, <2>5, <2>6
<1> QED BY <1>2, <1>3

------------------------------------------------------------------------------
(* The inductive invariant *)

\* Generations grow no faster than packet numbers, and every sent packet is
\* older than the next number.
SenderInOrder ==
    /\ tx.start + tx.gen <= tx.next_pn
    /\ tx.next_pn <= tx.start + MaxPackets

\* The largest number of the window is the newest accepted packet.
LargestIsNewest ==
    /\ rx.largest_pn = NoPn <=> DOMAIN delivered = {}
    /\ rx.largest_pn # NoPn => rx.largest_pn \in DOMAIN delivered
    /\ \A pn \in DOMAIN delivered : pn <= rx.largest_pn

\* Accepted packets were accepted once, from a known address.
DeliveredOnce ==
    \A pn \in DOMAIN delivered :
        delivered[pn] \in Seq(SocketAddr) /\ Len(delivered[pn]) = 1

\* A bit is set exactly for the accepted numbers of the window.
BitsAreDelivered ==
    rx.bits = Positions(DOMAIN delivered, rx.largest_pn)

\* The reply address belongs to the newest accepted packet.
PeerIsNewest ==
    /\ peer.pn = rx.largest_pn
    /\ rx.largest_pn # NoPn => peer.addr = delivered[rx.largest_pn][1]

Inductive ==
    /\ TypeOK
    /\ SenderInOrder
    /\ LargestIsNewest
    /\ DeliveredOnce
    /\ BitsAreDelivered
    /\ PeerIsNewest

\* The initial states satisfy the invariant.
LEMMA InitInductive == Init => Inductive
<1> SUFFICES ASSUME Init PROVE Inductive
  OBVIOUS
<1>1. PICK start \in PnStarts, phase \in BOOLEAN :
        /\ tx = [next_pn |-> start, gen |-> 0, key_phase |-> phase,
                 next_rekey |-> next_rekey_after(start), start |-> start]
        /\ rx = [gen |-> 0, key_phase |-> phase,
                 next_rekey |-> next_rekey_after(start),
                 previous |-> NoPrevious,
                 largest_pn |-> NoPn, initial_expected |-> start, bits |-> {}]
        /\ sent = {}
        /\ delivered = << >>
        /\ peer = [addr |-> NoPeer, pn |-> NoPn]
  BY DEF Init
<1>2. start \in Pn /\ next_rekey_after(start) \in PnOption
  BY QspAssumption, ThresholdType DEF Pn
<1>3. DOMAIN delivered = {}
  BY <1>1
<1>4. 0 \in Generation
  BY QspAssumption DEF Generation
<1>5. tx \in Sender
  BY <1>1, <1>2, <1>4 DEF Sender
<1>6. NoPrevious \in [gen : Generation \cup {NoPn},
                      valid_until_pn : Nat \cup {NoPn}]
  BY DEF NoPrevious
<1>7. rx \in Receiver
  BY <1>1, <1>2, <1>4, <1>6 DEF Receiver, PnOption
<1>8. peer \in [addr : SocketAddr \cup {NoPeer}, pn : PnOption]
  BY <1>1 DEF PnOption
<1>9. TypeOK
  BY <1>1, <1>3, <1>5, <1>7, <1>8 DEF TypeOK
<1>10. SenderInOrder
  BY <1>1, <1>2, QspAssumption, PnAssumption DEF SenderInOrder, Pn
<1>11. LargestIsNewest /\ DeliveredOnce
  BY <1>1, <1>3 DEF LargestIsNewest, DeliveredOnce
<1>12. BitsAreDelivered /\ PeerIsNewest
  BY <1>1, <1>3 DEF BitsAreDelivered, Positions, PeerIsNewest
<1> QED BY <1>9, <1>10, <1>11, <1>12 DEF Inductive

\* Sending touches neither the receiver nor what was accepted.
LEMMA SendPreserves ==
    ASSUME Inductive, Send
    PROVE  Inductive'
<1> DEFINE s == maybe_rotate_tx_keys(tx)
<1>1. /\ tx.next_pn < PnMax
      /\ tx.next_pn < tx.start + MaxPackets
      /\ tx' = [s EXCEPT !.next_pn = s.next_pn + 1]
      /\ sent' = sent \cup {[pn |-> s.next_pn, gen |-> s.gen,
                             key_phase |-> s.key_phase]}
      /\ UNCHANGED <<rx, delivered, peer>>
  BY DEF Send
<1>2. TypeOK /\ SenderInOrder
  BY DEF Inductive
<1>3. /\ tx \in Sender /\ MaxPackets \in Nat /\ PnMax \in Nat
      /\ tx.next_pn \in Nat /\ tx.start \in Nat /\ tx.gen \in Nat
  BY <1>2, QspAssumption, PnAssumption DEF TypeOK, Sender, Pn, Generation
<1>4. /\ s \in Sender
      /\ s.next_pn = tx.next_pn /\ s.start = tx.start
      /\ s.gen = tx.gen \/ s.gen = tx.gen + 1
  <2>1. CASE tx.next_rekey # NoPn /\ tx.next_pn >= tx.next_rekey
    <3> DEFINE phase == ~ tx.key_phase
               next == next_rekey_after(tx.next_rekey)
    <3>1. s = [tx EXCEPT !.gen = tx.gen + 1, !.key_phase = phase,
                         !.next_rekey = next]
      BY <2>1 DEF maybe_rotate_tx_keys
    <3>2. phase \in BOOLEAN
      OBVIOUS
    <3>3. tx.next_rekey \in Pn
      BY <1>3, <2>1 DEF Sender, PnOption
    <3>4. next \in PnOption
      BY <3>3, ThresholdType
    <3>5. tx.gen + 1 \in Generation
      BY <1>1, <1>2, <1>3 DEF SenderInOrder, Generation
    <3> HIDE DEF s, phase, next
    <3> QED BY <1>3, <3>1, <3>2, <3>4, <3>5 DEF Sender
  <2>2. CASE ~ (tx.next_rekey # NoPn /\ tx.next_pn >= tx.next_rekey)
    BY <1>3, <2>2 DEF maybe_rotate_tx_keys
  <2> QED BY <2>1, <2>2
<1> HIDE DEF s
<1>5. s.next_pn + 1 \in Pn
  BY <1>1, <1>3, <1>4 DEF Pn
<1>6. tx' \in Sender
  BY <1>1, <1>4, <1>5 DEF Sender
<1>7. [pn |-> s.next_pn, gen |-> s.gen, key_phase |-> s.key_phase] \in Packet
  BY <1>4 DEF Sender, Packet
<1>8. sent' \subseteq Packet /\ sent \subseteq sent'
  BY <1>1, <1>2, <1>7 DEF TypeOK
<1>9. TypeOK'
  BY <1>1, <1>2, <1>6, <1>8 DEF TypeOK
<1>10. SenderInOrder'
  <2>1. /\ tx'.next_pn = tx.next_pn + 1 /\ tx'.start = tx.start
        /\ tx'.gen = s.gen
    BY <1>1, <1>4 DEF Sender
  <2> QED BY <2>1, <1>1, <1>2, <1>3, <1>4 DEF SenderInOrder
<1>11. (LargestIsNewest /\ DeliveredOnce /\ BitsAreDelivered /\ PeerIsNewest)'
  BY <1>1 DEF Inductive, LargestIsNewest, DeliveredOnce, BitsAreDelivered,
              PeerIsNewest
<1> QED BY <1>9, <1>10, <1>11 DEF Inductive

\* Nothing changes but the receive keys.
LEMMA KeysOnlyPreserves ==
    ASSUME Inductive, UNCHANGED <<tx, sent, delivered, peer>>,
           rx' \in Receiver, rx'.largest_pn = rx.largest_pn,
           rx'.initial_expected = rx.initial_expected, rx'.bits = rx.bits
    PROVE  Inductive'
<1>1. TypeOK'
  BY DEF Inductive, TypeOK
<1>2. SenderInOrder' /\ LargestIsNewest' /\ DeliveredOnce'
  BY DEF Inductive, SenderInOrder, LargestIsNewest, DeliveredOnce
<1>3. BitsAreDelivered' /\ PeerIsNewest'
  BY DEF Inductive, BitsAreDelivered, PeerIsNewest
<1> QED BY <1>1, <1>2, <1>3 DEF Inductive

\* A packet that no key opens, or that the replay window refuses.
LEMMA RefusedPreserves ==
    ASSUME Inductive, NEW p \in sent, ReceiveRefused(p) \/ ReceiveUnopened(p)
    PROVE  Inductive'
<1> DEFINE r == maybe_confirm_previous_rx_keys(rx)
<1>1. rx \in Receiver /\ p \in Packet
  BY DEF Inductive, TypeOK
<1>2. /\ r \in Receiver /\ r.largest_pn = rx.largest_pn
      /\ r.initial_expected = rx.initial_expected /\ r.bits = rx.bits
  BY <1>1, ConfirmFacts
<1>3. CASE ReceiveUnopened(p)
  BY <1>2, <1>3, KeysOnlyPreserves DEF ReceiveUnopened
<1>4. CASE ReceiveRefused(p)
  <2>1. /\ OpensCurrent(r, p) \/ OpensPrevious(r, p) \/ OpensCandidate(r, p)
        /\ rx' = Keyed(r, p)
        /\ UNCHANGED <<tx, sent, delivered, peer>>
    BY <1>4 DEF ReceiveRefused
  <2> HIDE DEF r
  <2>2. /\ rx' \in Receiver /\ rx'.largest_pn = r.largest_pn
        /\ rx'.initial_expected = r.initial_expected /\ rx'.bits = r.bits
    BY <1>1, <1>2, <2>1, KeyedFacts
  <2> QED BY <1>2, <2>1, <2>2, KeysOnlyPreserves
<1> QED BY <1>3, <1>4

\* An accepted packet was not accepted before; it enters the window, and the
\* reply address follows it if it is the newest.
LEMMA AcceptedPreserves ==
    ASSUME Inductive, NEW p \in sent, NEW from \in SocketAddr,
           ReceiveAccepted(p, from)
    PROVE  Inductive'
<1> DEFINE c == maybe_confirm_previous_rx_keys(rx)
           k == Keyed(c, p)
           D == DOMAIN delivered
<1>1. /\ TypeOK /\ SenderInOrder /\ LargestIsNewest /\ DeliveredOnce
      /\ BitsAreDelivered /\ PeerIsNewest
  BY DEF Inductive
<1>2. rx \in Receiver /\ p \in Packet /\ p.pn \in Pn /\ D \subseteq Pn
  BY <1>1 DEF TypeOK, Packet
<1>3. /\ c \in Receiver /\ c.largest_pn = rx.largest_pn
      /\ c.initial_expected = rx.initial_expected /\ c.bits = rx.bits
  BY <1>2, ConfirmFacts
<1>4. /\ OpensCurrent(c, p) \/ OpensPrevious(c, p) \/ OpensCandidate(c, p)
      /\ ~ TooOld(c, p.pn) /\ ~ Replay(c, p.pn)
      /\ rx' = Updated(k, p.pn)
      /\ delivered' = Record(p.pn, from)
      /\ peer' = adopt_udp_peer_if_newer(from, p.pn)
      /\ UNCHANGED <<tx, sent>>
  BY DEF ReceiveAccepted, Accepts
<1> HIDE DEF c
<1>5. /\ k \in Receiver /\ k.largest_pn = rx.largest_pn
      /\ k.initial_expected = rx.initial_expected /\ k.bits = rx.bits
  BY <1>2, <1>3, <1>4, KeyedFacts
<1> HIDE DEF k
<1>6. ~ TooOld(k, p.pn) /\ ~ Replay(k, p.pn)
  BY <1>3, <1>4, <1>5 DEF TooOld, Replay
<1>7. /\ k.largest_pn = NoPn <=> D = {}
      /\ \A q \in D : q <= k.largest_pn
      /\ k.bits = Positions(D, k.largest_pn)
  BY <1>1, <1>5 DEF LargestIsNewest, BitsAreDelivered
<1>8. p.pn \notin D
  BY <1>2, <1>5, <1>6, <1>7, TakenIsNew
<1>9. /\ rx' \in Receiver
      /\ rx'.largest_pn = IF p.pn <= rx.largest_pn THEN rx.largest_pn ELSE p.pn
  BY <1>2, <1>4, <1>5, UpdatedFacts
<1>10. /\ DOMAIN delivered' = D \cup {p.pn}
       /\ delivered'[p.pn] = <<from>>
       /\ \A q \in D : delivered'[q] = delivered[q]
  <2>1. delivered' = [q \in D \cup {p.pn} |->
                        IF q = p.pn THEN Append(AcceptedFrom(p.pn), from)
                                    ELSE delivered[q]]
    BY <1>4 DEF Record
  <2>2. AcceptedFrom(p.pn) = << >>
    BY <1>8 DEF AcceptedFrom
  <2>3. Append(<< >>, from) = <<from>>
    OBVIOUS
  <2> QED BY <2>1, <2>2, <2>3, <1>8
<1>11. \A q \in D : q <= rx.largest_pn /\ q \in Int
  BY <1>1, <1>2, PnAssumption DEF LargestIsNewest, Pn
<1>12. rx.largest_pn \in Int /\ p.pn \in Nat /\ rx.largest_pn >= NoPn
  BY <1>2, PnAssumption DEF Receiver, PnOption, Pn, NoPn
<1>13. /\ peer' = IF rx.largest_pn # NoPn /\ p.pn <= rx.largest_pn
                  THEN peer ELSE [addr |-> from, pn |-> p.pn]
  BY <1>1, <1>4 DEF adopt_udp_peer_if_newer, PeerIsNewest
<1>14. TypeOK'
  <2>1. p.pn \in PnOption
    BY <1>2 DEF PnOption
  <2>2. peer' \in [addr : SocketAddr \cup {NoPeer}, pn : PnOption]
    BY <1>1, <1>13, <2>1 DEF TypeOK
  <2>3. DOMAIN delivered' \subseteq { q.pn : q \in sent }
    BY <1>1, <1>10 DEF TypeOK
  <2> QED BY <1>1, <1>4, <1>9, <2>2, <2>3 DEF TypeOK
<1>15. SenderInOrder'
  BY <1>1, <1>4 DEF SenderInOrder
<1>16. LargestIsNewest'
  <2>1. CASE p.pn <= rx.largest_pn
    <3>1. rx'.largest_pn = rx.largest_pn /\ rx.largest_pn # NoPn
      BY <1>9, <1>12, <2>1 DEF NoPn
    <3> QED BY <1>1, <1>10, <2>1, <3>1 DEF LargestIsNewest
  <2>2. CASE ~ (p.pn <= rx.largest_pn)
    <3>1. rx'.largest_pn = p.pn /\ p.pn # NoPn
      BY <1>9, <1>12, <2>2 DEF NoPn
    <3>2. \A q \in D : q <= p.pn
      BY <1>11, <1>12, <2>2
    <3> QED BY <1>10, <1>12, <3>1, <3>2 DEF LargestIsNewest
  <2> QED BY <2>1, <2>2
<1>17. DeliveredOnce'
  <2>1. <<from>> \in Seq(SocketAddr) /\ Len(<<from>>) = 1
    OBVIOUS
  <2> QED BY <1>1, <1>8, <1>10, <2>1 DEF DeliveredOnce
<1>18. BitsAreDelivered'
  <2>1. D \in SUBSET Pn
    BY <1>2
  <2>2. Updated(k, p.pn).bits
            = Positions(D \cup {p.pn}, Updated(k, p.pn).largest_pn)
    BY <1>2, <1>5, <1>6, <1>7, <2>1, TakenKeepsPositions
  <2>3. rx'.bits = Positions(DOMAIN delivered', rx'.largest_pn)
    BY <1>4, <1>10, <2>2
  <2> QED BY <2>3 DEF BitsAreDelivered, Positions
<1>19. PeerIsNewest'
  <2>1. CASE p.pn <= rx.largest_pn
    <3>1. rx'.largest_pn = rx.largest_pn /\ rx.largest_pn # NoPn
      BY <1>9, <1>12, <2>1 DEF NoPn
    <3>2. peer' = peer
      BY <1>13, <2>1, <3>1
    <3>3. rx.largest_pn \in D
      BY <1>1, <3>1 DEF LargestIsNewest
    <3> QED BY <1>1, <1>10, <3>1, <3>2, <3>3 DEF PeerIsNewest
  <2>2. CASE ~ (p.pn <= rx.largest_pn)
    <3>1. rx'.largest_pn = p.pn
      BY <1>9, <2>2
    <3>2. peer' = [addr |-> from, pn |-> p.pn]
      BY <1>13, <2>2
    <3>3. delivered'[p.pn][1] = from
      BY <1>10
    <3> QED BY <3>1, <3>2, <3>3 DEF PeerIsNewest
  <2> QED BY <2>1, <2>2
<1> QED BY <1>14, <1>15, <1>16, <1>17, <1>18, <1>19 DEF Inductive

\* The invariant holds in every reachable state.
THEOREM Invariance == Spec => []Inductive
<1>1. Init => Inductive
  BY InitInductive
<1>2. Inductive /\ [Next]_vars => Inductive'
  <2> SUFFICES ASSUME Inductive, [Next]_vars PROVE Inductive'
    OBVIOUS
  <2>1. CASE Send
    BY <2>1, SendPreserves
  <2>2. CASE \E p \in sent : Receive(p)
    <3>1. PICK p \in sent : Receive(p)
      BY <2>2
    <3>2. CASE \E from \in SocketAddr : ReceiveAccepted(p, from)
      BY <3>2, AcceptedPreserves
    <3>3. CASE ReceiveRefused(p) \/ ReceiveUnopened(p)
      BY <3>3, RefusedPreserves
    <3> QED BY <3>1, <3>2, <3>3 DEF Receive
  <2>3. CASE UNCHANGED vars
    BY <2>3 DEF vars, Inductive, TypeOK, SenderInOrder, LargestIsNewest,
                DeliveredOnce, BitsAreDelivered, PeerIsNewest
  <2> QED BY <2>1, <2>2, <2>3 DEF Next
<1> QED BY <1>1, <1>2, PTL DEF Spec

------------------------------------------------------------------------------
(* Key generations *)

\* Where generation g begins for packets that are numbered from `start`, and the threshold
\* that ends it.
Boundary(start, g) == KEY_UPDATE_INTERVAL * (start \div KEY_UPDATE_INTERVAL + g)

NextThreshold(start, g) ==
    IF Boundary(start, g + 1) <= PnMax THEN Boundary(start, g + 1) ELSE NoPn

\* The key phase of generation g after phase `phase` of generation 0.
Phase(phase, g) == IF g % 2 = 0 THEN phase ELSE ~ phase

LEMMA BoundaryFacts ==
    ASSUME NEW start \in Nat, NEW g \in Nat
    PROVE  /\ Boundary(start, g) \in Nat
           /\ Boundary(start, g + 1) = Boundary(start, g) + KEY_UPDATE_INTERVAL
           /\ \A h \in Nat : g < h => Boundary(start, h) >= Boundary(start, g) + KEY_UPDATE_INTERVAL
           /\ Boundary(start, 0) <= start /\ start < Boundary(start, 1)
<1> DEFINE K == KEY_UPDATE_INTERVAL
           b == start \div K
<1>1. K \in Nat /\ K > 0
  BY QspAssumption
<1>2. b \in Nat /\ start = K * b + (start % K) /\ start % K \in 0..K-1
  BY <1>1, Division
<1> HIDE DEF K, b
<1>3. \A h \in Nat : Boundary(start, h) = K * (b + h)
  BY DEF Boundary, K, b
<1>4. K * (b + g) \in Nat /\ K * (b + (g + 1)) = K * (b + g) + K
  BY <1>1, <1>2
<1>5. ASSUME NEW h \in Nat, g < h
      PROVE  K * (b + h) >= K * (b + g) + K
  <2>1. b + g \in Nat /\ b + h \in Nat /\ b + g < b + h
    BY <1>2, <1>5
  <2> QED BY <1>1, <2>1, MultiplesApart
<1>6. K * (b + 0) = K * b /\ K * (b + 1) = K * b + K /\ K * b \in Nat
  BY <1>1, <1>2
<1>7. K * (b + 0) <= start /\ start < K * (b + 1)
  BY <1>1, <1>2, <1>6
<1> QED BY <1>3, <1>4, <1>5, <1>7 DEF K

\* next_rekey_after goes from one threshold to the next.
LEMMA ThresholdFacts ==
    ASSUME NEW start \in Nat, NEW g \in Nat
    PROVE  /\ next_rekey_after(start) = NextThreshold(start, 0)
           /\ next_rekey_after(Boundary(start, g)) = NextThreshold(start, g)
<1> DEFINE K == KEY_UPDATE_INTERVAL
           b == start \div K
           t == Boundary(start, g)
<1>1. K \in Nat /\ K > 0
  BY QspAssumption
<1>2. b \in Nat /\ start = K * b + (start % K) /\ start % K \in 0..K-1
  BY <1>1, Division
<1>3. t \in Nat /\ Boundary(start, g + 1) = t + K
  BY BoundaryFacts
<1>4. t = K * (b + g)
  BY DEF Boundary
<1> HIDE DEF b, t
<1>5. t % K = 0
  <2> DEFINE c == b + g
             d == t \div K
             e == t % K
  <2>1. c \in Nat /\ d \in Nat /\ e \in 0..K-1 /\ t = K * d + e
    BY <1>1, <1>2, <1>3, Division
  <2>2. t = K * c
    BY <1>4
  <2> HIDE DEF c, d, e
  <2>3. K * c \in Nat /\ K * d \in Nat
    BY <1>1, <2>1
  <2>4. CASE c < d
    <3>1. K * d >= K * c + K
      BY <1>1, <2>1, <2>4, MultiplesApart
    <3> QED BY <1>1, <2>1, <2>2, <2>3, <3>1
  <2>5. CASE d < c
    <3>1. K * c >= K * d + K
      BY <1>1, <2>1, <2>5, MultiplesApart
    <3> QED BY <1>1, <2>1, <2>2, <2>3, <3>1
  <2>6. CASE c = d
    <3>1. e = 0
      BY <1>1, <2>1, <2>2, <2>3, <2>6
    <3> QED BY <3>1 DEF e
  <2> QED BY <2>1, <2>4, <2>5, <2>6
<1>6. next_rekey_after(t) = NextThreshold(start, g)
  <2>1. t + K - (t % K) = Boundary(start, g + 1)
    BY <1>1, <1>3, <1>5
  <2> QED BY <2>1 DEF next_rekey_after, NextThreshold
<1>7. start + K - (start % K) = Boundary(start, 0 + 1)
  <2>1. Boundary(start, 0 + 1) = K * (b + 1)
    BY DEF Boundary, b
  <2>2. K * (b + 1) = K * b + K /\ K * b \in Nat
    BY <1>1, <1>2
  <2> HIDE DEF K
  <2> QED BY <2>1, <2>2, <1>1, <1>2
<1> QED BY <1>6, <1>7 DEF t, next_rekey_after, NextThreshold

LEMMA PhaseFacts ==
    ASSUME NEW phase \in BOOLEAN, NEW g \in Nat
    PROVE  /\ Phase(phase, 0) = phase
           /\ Phase(phase, g + 1) = ~ Phase(phase, g)
           /\ Phase(phase, g + 1) # Phase(phase, g)
<1>1. CASE g % 2 = 0
  <2>1. (g + 1) % 2 # 0
    BY <1>1
  <2>2. Phase(phase, g) = phase /\ Phase(phase, g + 1) = ~ phase
    BY <1>1, <2>1 DEF Phase
  <2>3. Phase(phase, 0) = phase
    BY DEF Phase
  <2> QED BY <2>2, <2>3
<1>2. CASE g % 2 # 0
  <2>1. (g + 1) % 2 = 0
    BY <1>2
  <2>2. Phase(phase, g) = ~ phase /\ Phase(phase, g + 1) = phase
    BY <1>2, <2>1 DEF Phase
  <2>3. Phase(phase, 0) = phase
    BY DEF Phase
  <2> QED BY <2>2, <2>3
<1> QED BY <1>1, <1>2

\* The sender is in the generation of its newest packet.
SenderKeys ==
    /\ tx.next_rekey = NextThreshold(tx.start, tx.gen)
    /\ tx.start <= tx.next_pn
    /\ tx.gen > 0 => Boundary(tx.start, tx.gen) < tx.next_pn
    /\ tx.next_pn <= Boundary(tx.start, tx.gen + 1)

\* A sent packet is protected by the generation of its number.
PacketKeys(p) ==
    /\ tx.start <= p.pn /\ p.pn < tx.next_pn /\ p.gen <= tx.gen
    /\ Boundary(tx.start, p.gen) <= p.pn /\ p.pn < Boundary(tx.start, p.gen + 1)

\* The receiver is in a generation that the sender has reached, no further behind than what
\* it expects; it lets go of the previous keys only when their packets have left the window.
ReceiverKeys(r) ==
    /\ r.initial_expected = tx.start
    /\ r.gen <= tx.gen
    /\ r.next_rekey = NextThreshold(tx.start, r.gen)
    /\ expected_pn(r) <= Boundary(tx.start, r.gen + 1)
    /\ expected_pn(r) <= tx.next_pn
    /\ r.gen > 0 => expected_pn(r) + KEY_UPDATE_LATE_MARGIN >= Boundary(tx.start, r.gen)
    /\ r.previous = NoPrevious =>
           r.gen = 0 \/ expected_pn(r) > Boundary(tx.start, r.gen) + PN_REPLAY_WINDOW
    /\ r.previous # NoPrevious =>
           /\ r.gen > 0
           /\ r.previous = [gen |-> r.gen - 1,
                            valid_until_pn |-> Boundary(tx.start, r.gen) + PN_REPLAY_WINDOW]

\* Both ends and every packet agree on the key phase of each generation.
PhasesAgree ==
    \E phase \in BOOLEAN :
        /\ tx.key_phase = Phase(phase, tx.gen)
        /\ rx.key_phase = Phase(phase, rx.gen)
        /\ \A p \in sent : p.key_phase = Phase(phase, p.gen)

KeysInv ==
    /\ SenderKeys
    /\ \A p \in sent : PacketKeys(p)
    /\ ReceiverKeys(rx)
    /\ PhasesAgree

LEMMA InitKeys == Init => KeysInv
<1> SUFFICES ASSUME Init PROVE KeysInv
  OBVIOUS
<1>1. PICK start \in PnStarts, phase \in BOOLEAN :
        /\ tx = [next_pn |-> start, gen |-> 0, key_phase |-> phase,
                 next_rekey |-> next_rekey_after(start), start |-> start]
        /\ rx = [gen |-> 0, key_phase |-> phase,
                 next_rekey |-> next_rekey_after(start),
                 previous |-> NoPrevious,
                 largest_pn |-> NoPn, initial_expected |-> start, bits |-> {}]
        /\ sent = {}
  BY DEF Init
<1>2. start \in Nat
  BY QspAssumption, PnAssumption
<1>3. next_rekey_after(start) = NextThreshold(start, 0) /\ start < Boundary(start, 0 + 1)
      /\ Boundary(start, 0 + 1) \in Nat
  BY <1>2, ThresholdFacts, BoundaryFacts
<1>4. SenderKeys
  BY <1>1, <1>2, <1>3 DEF SenderKeys
<1>5. expected_pn(rx) = start
  BY <1>1 DEF expected_pn
<1>6. ReceiverKeys(rx)
  BY <1>1, <1>2, <1>3, <1>5 DEF ReceiverKeys
<1>7. Phase(phase, 0) = phase
  BY PhaseFacts
<1>8. PhasesAgree
  BY <1>1, <1>7 DEF PhasesAgree
<1> QED BY <1>1, <1>4, <1>6, <1>8 DEF KeysInv

\* The state of both ends in numbers.
LEMMA Numbers ==
    ASSUME Inductive
    PROVE  /\ tx \in Sender /\ rx \in Receiver
           /\ tx.next_pn \in Nat /\ tx.gen \in Nat /\ tx.start \in Nat /\ PnMax \in Nat
           /\ tx.next_pn <= PnMax
           /\ KEY_UPDATE_INTERVAL \in Nat /\ KEY_UPDATE_LATE_MARGIN \in Nat
           /\ PN_REPLAY_WINDOW \in Nat
           /\ PN_REPLAY_WINDOW + KEY_UPDATE_LATE_MARGIN < KEY_UPDATE_INTERVAL
           /\ \A p \in sent : p \in Packet /\ p.pn \in Nat /\ p.gen \in Nat
  BY QspAssumption, PnAssumption
     DEF Inductive, TypeOK, Sender, Packet, Pn, Generation

\* The number a receiver expects.
LEMMA ExpectedType ==
    ASSUME NEW r \in Receiver
    PROVE  expected_pn(r) \in Nat /\ r.gen \in Nat /\ r.largest_pn \in Int
<1>1. r.initial_expected \in Nat /\ (r.largest_pn \in Nat \/ r.largest_pn = NoPn) /\ r.gen \in Nat
  BY PnAssumption DEF Receiver, Pn, PnOption, Generation
<1> QED BY <1>1 DEF expected_pn, NoPn

\* maybe_rotate_tx_keys and the packet that is sent under its keys.
LEMMA SendKeys ==
    ASSUME Inductive, KeysInv, Send
    PROVE  KeysInv'
<1> DEFINE s == maybe_rotate_tx_keys(tx)
           p == [pn |-> s.next_pn, gen |-> s.gen, key_phase |-> s.key_phase]
           B(g) == Boundary(tx.start, g)
<1>1. /\ tx.next_pn < PnMax
      /\ tx' = [s EXCEPT !.next_pn = s.next_pn + 1]
      /\ sent' = sent \cup {p}
      /\ rx' = rx
  BY DEF Send
<1>2. /\ tx \in Sender /\ rx \in Receiver
      /\ tx.next_pn \in Nat /\ tx.gen \in Nat /\ tx.start \in Nat /\ PnMax \in Nat
      /\ KEY_UPDATE_INTERVAL \in Nat /\ KEY_UPDATE_INTERVAL > 0
  BY Numbers
<1>3. /\ tx.next_rekey = NextThreshold(tx.start, tx.gen)
      /\ tx.start <= tx.next_pn
      /\ tx.gen > 0 => B(tx.gen) < tx.next_pn
      /\ tx.next_pn <= B(tx.gen + 1)
  BY DEF KeysInv, SenderKeys
<1>4. /\ B(tx.gen) \in Nat /\ B(tx.gen + 1) \in Nat /\ B(tx.gen + 1 + 1) \in Nat
      /\ B(tx.gen + 1) = B(tx.gen) + KEY_UPDATE_INTERVAL
      /\ B(tx.gen + 1 + 1) = B(tx.gen + 1) + KEY_UPDATE_INTERVAL
      /\ B(0) <= tx.start
  <2>1. tx.gen + 1 \in Nat /\ tx.gen + 1 + 1 \in Nat
    BY <1>2
  <2>2. B(tx.gen) \in Nat /\ B(tx.gen + 1) = B(tx.gen) + KEY_UPDATE_INTERVAL /\ B(0) <= tx.start
    BY <1>2, BoundaryFacts
  <2>3. B(tx.gen + 1) \in Nat /\ B(tx.gen + 1 + 1) = B(tx.gen + 1) + KEY_UPDATE_INTERVAL
    BY <1>2, <2>1, BoundaryFacts
  <2>4. B(tx.gen + 1 + 1) \in Nat
    BY <1>2, <2>1, BoundaryFacts
  <2> QED BY <2>2, <2>3, <2>4
<1>5. PICK phase \in BOOLEAN :
        /\ tx.key_phase = Phase(phase, tx.gen)
        /\ rx.key_phase = Phase(phase, rx.gen)
        /\ \A q \in sent : q.key_phase = Phase(phase, q.gen)
  BY DEF KeysInv, PhasesAgree
<1>6. /\ s \in [next_pn : Nat, gen : Nat, key_phase : BOOLEAN, next_rekey : Int, start : Nat]
      /\ s.next_pn = tx.next_pn /\ s.start = tx.start
      /\ s.gen >= tx.gen
      /\ s.next_rekey = NextThreshold(tx.start, s.gen)
      /\ B(s.gen) <= tx.next_pn /\ tx.next_pn < B(s.gen + 1)
      /\ s.key_phase = Phase(phase, s.gen)
  <2>1. CASE tx.next_rekey # NoPn /\ tx.next_pn >= tx.next_rekey
    <3> DEFINE ph == ~ tx.key_phase
               next == next_rekey_after(tx.next_rekey)
    <3>1. s = [tx EXCEPT !.gen = tx.gen + 1, !.key_phase = ph, !.next_rekey = next]
      BY <2>1 DEF maybe_rotate_tx_keys
    <3>2. tx.next_rekey = B(tx.gen + 1) /\ tx.next_pn = B(tx.gen + 1)
      BY <1>2, <1>3, <1>4, <2>1 DEF NextThreshold
    <3>3. next = NextThreshold(tx.start, tx.gen + 1)
      BY <1>2, <3>2, ThresholdFacts
    <3>4. ph = Phase(phase, tx.gen + 1)
      BY <1>2, <1>5, PhaseFacts
    <3>5. next \in Int /\ ph \in BOOLEAN
      BY <1>4, <3>3 DEF NextThreshold, NoPn
    <3>9. tx \in [next_pn : Nat, gen : Nat, key_phase : BOOLEAN, next_rekey : Int, start : Nat]
      BY <1>2, <1>4, <3>2 DEF Sender
    <3> HIDE DEF s, ph, next, B
    <3>6. /\ s.gen = tx.gen + 1 /\ s.next_pn = tx.next_pn /\ s.start = tx.start
          /\ s.next_rekey = next /\ s.key_phase = ph
      BY <1>2, <3>1 DEF Sender
    <3>7. s \in [next_pn : Nat, gen : Nat, key_phase : BOOLEAN, next_rekey : Int, start : Nat]
      <4> DEFINE g == tx.gen + 1
      <4>1. g \in Nat /\ s = [tx EXCEPT !.gen = g, !.key_phase = ph, !.next_rekey = next]
        BY <1>2, <3>1
      <4> HIDE DEF g
      <4> QED BY <3>5, <3>9, <4>1
    <3>8. B(s.gen) = tx.next_pn /\ B(s.gen + 1) = B(tx.gen + 1) + KEY_UPDATE_INTERVAL
      BY <1>4, <3>2, <3>6
    <3> QED BY <1>2, <1>4, <3>2, <3>3, <3>4, <3>6, <3>7, <3>8
  <2>2. CASE ~ (tx.next_rekey # NoPn /\ tx.next_pn >= tx.next_rekey)
    <3>1. s = tx
      BY <2>2 DEF maybe_rotate_tx_keys
    <3>2. tx.next_rekey \in Int
      BY PnAssumption, <1>2 DEF Sender, PnOption, Pn, NoPn
    <3>3. tx.next_pn < B(tx.gen + 1)
      BY <1>1, <1>2, <1>3, <1>4, <2>2 DEF NextThreshold, NoPn
    <3>4. B(tx.gen) <= tx.next_pn
      <4>1. CASE tx.gen = 0
        BY <1>2, <1>3, <1>4, <4>1
      <4>2. CASE tx.gen > 0
        BY <1>2, <1>3, <1>4, <4>2
      <4> QED BY <1>2, <4>1, <4>2
    <3>5. tx \in [next_pn : Nat, gen : Nat, key_phase : BOOLEAN, next_rekey : Int, start : Nat]
      BY <1>2, <3>2 DEF Sender
    <3> HIDE DEF s, B
    <3> QED BY <1>2, <1>3, <1>5, <3>1, <3>3, <3>4, <3>5
  <2> QED BY <2>1, <2>2
<1> HIDE DEF s
<1>7. /\ tx'.next_pn = tx.next_pn + 1 /\ tx'.gen = s.gen /\ tx'.start = tx.start
      /\ tx'.key_phase = s.key_phase /\ tx'.next_rekey = s.next_rekey
  BY <1>1, <1>6
<1>8. s.gen \in Nat
  BY <1>6
<1>9. B(s.gen) \in Nat /\ B(s.gen + 1) \in Nat
  <2>1. s.gen + 1 \in Nat
    BY <1>8
  <2> QED BY <1>2, <1>8, <2>1, BoundaryFacts
<1>10. SenderKeys'
  BY <1>2, <1>3, <1>6, <1>7, <1>9 DEF SenderKeys
<1>11. ASSUME NEW q \in sent'
       PROVE  PacketKeys(q)'
  <2>1. CASE q \in sent
    BY <1>2, <1>6, <1>7, <1>8, <2>1, Numbers DEF KeysInv, PacketKeys
  <2>2. CASE q = p
    <3>1. q.pn = tx.next_pn /\ q.gen = s.gen
      BY <1>6, <2>2
    <3> QED BY <1>2, <1>3, <1>6, <1>7, <1>9, <3>1 DEF PacketKeys
  <2> QED BY <1>1, <2>1, <2>2
<1>12. ReceiverKeys(rx)'
  <2>1. expected_pn(rx) \in Nat /\ rx.gen \in Nat
    BY <1>2, ExpectedType
  <2>2. expected_pn(rx)' = expected_pn(rx)
    BY <1>1 DEF expected_pn
  <2> QED BY <1>1, <1>2, <1>6, <1>7, <1>8, <2>1, <2>2 DEF KeysInv, ReceiverKeys
<1>13. PhasesAgree'
  <2>1. tx'.key_phase = Phase(phase, tx'.gen) /\ rx'.key_phase = Phase(phase, rx'.gen)
    BY <1>1, <1>5, <1>6, <1>7
  <2>2. ASSUME NEW q \in sent' PROVE q.key_phase = Phase(phase, q.gen)
    BY <1>1, <1>5, <1>6, <2>2
  <2> QED BY <2>1, <2>2 DEF PhasesAgree
<1> QED BY <1>10, <1>11, <1>12, <1>13 DEF KeysInv

\* Dropping the previous keys.
LEMMA ConfirmKeys ==
    ASSUME Inductive, NEW r \in Receiver, ReceiverKeys(r)
    PROVE  LET c == maybe_confirm_previous_rx_keys(r)
           IN  /\ ReceiverKeys(c) /\ c.gen = r.gen /\ c.key_phase = r.key_phase
               /\ expected_pn(c) = expected_pn(r)
               /\ c.previous # NoPrevious => expected_pn(r) <= c.previous.valid_until_pn
<1> DEFINE c == maybe_confirm_previous_rx_keys(r)
<1>1. expected_pn(r) \in Nat /\ r.gen \in Nat
  BY ExpectedType
<1>2. Boundary(tx.start, r.gen) \in Nat /\ PN_REPLAY_WINDOW \in Nat
  BY <1>1, Numbers, BoundaryFacts
<1>3. CASE r.previous # NoPrevious /\ expected_pn(r) > r.previous.valid_until_pn
  <2>1. c = [r EXCEPT !.previous = NoPrevious]
    BY <1>3 DEF maybe_confirm_previous_rx_keys
  <2>2. /\ c.gen = r.gen /\ c.key_phase = r.key_phase /\ c.next_rekey = r.next_rekey
        /\ c.previous = NoPrevious /\ c.largest_pn = r.largest_pn
        /\ c.initial_expected = r.initial_expected
    BY <2>1 DEF Receiver
  <2>3. expected_pn(c) = expected_pn(r)
    BY <2>2 DEF expected_pn
  <2>4. expected_pn(r) > Boundary(tx.start, r.gen) + PN_REPLAY_WINDOW
    BY <1>3 DEF ReceiverKeys
  <2> HIDE DEF c
  <2>5. ReceiverKeys(c)
    BY <2>2, <2>3, <2>4 DEF ReceiverKeys
  <2> QED BY <2>2, <2>3, <2>5 DEF c
<1>4. CASE ~ (r.previous # NoPrevious /\ expected_pn(r) > r.previous.valid_until_pn)
  <2>1. c = r
    BY <1>4 DEF maybe_confirm_previous_rx_keys
  <2>2. r.previous # NoPrevious => expected_pn(r) <= r.previous.valid_until_pn
    <3>1. r.previous # NoPrevious
              => r.previous.valid_until_pn = Boundary(tx.start, r.gen) + PN_REPLAY_WINDOW
      BY DEF ReceiverKeys
    <3> QED BY <1>1, <1>2, <1>4, <3>1
  <2> QED BY <2>1, <2>2
<1> QED BY <1>3, <1>4

\* Finding the keys of a packet: a promotion needs a packet of the next generation.
LEMMA KeyedKeys ==
    ASSUME Inductive, NEW r \in Receiver, ReceiverKeys(r), NEW p \in sent, PacketKeys(p),
           OpensCurrent(r, p) \/ OpensPrevious(r, p) \/ OpensCandidate(r, p)
    PROVE  /\ ReceiverKeys(Keyed(r, p)) /\ p.gen <= Keyed(r, p).gen
           /\ \/ Keyed(r, p).gen = r.gen /\ Keyed(r, p).key_phase = r.key_phase
              \/ Keyed(r, p).gen = r.gen + 1 /\ Keyed(r, p).key_phase = ~ r.key_phase
<1>1. /\ expected_pn(r) \in Nat /\ r.gen \in Nat /\ r.gen + 1 \in Nat
      /\ p \in Packet /\ p.gen \in Nat /\ p.pn \in Nat
  BY ExpectedType, Numbers
<1>2. CASE OpensCurrent(r, p) \/ OpensPrevious(r, p)
  <2>1. Keyed(r, p) = r
    BY <1>2 DEF Keyed
  <2>2. p.gen <= r.gen
    <3>1. CASE OpensCurrent(r, p)
      BY <1>1, <3>1 DEF OpensCurrent, Opens
    <3>2. CASE OpensPrevious(r, p)
      <4>1. r.previous # NoPrevious /\ p.gen = r.previous.gen
        BY <3>2 DEF OpensPrevious, Opens
      <4>2. r.previous.gen = r.gen - 1
        BY <4>1 DEF ReceiverKeys
      <4> QED BY <1>1, <4>1, <4>2
    <3> QED BY <1>2, <3>1, <3>2
  <2> QED BY <2>1, <2>2
<1>3. CASE ~ (OpensCurrent(r, p) \/ OpensPrevious(r, p))
  <2> DEFINE K == KEY_UPDATE_INTERVAL
             M == KEY_UPDATE_LATE_MARGIN
             W == PN_REPLAY_WINDOW
             e == expected_pn(r)
             k == Keyed(r, p)
             g == r.gen + 1
             b == Boundary(tx.start, g)
             prev == [gen |-> r.gen, valid_until_pn |-> r.next_rekey + W]
             next == next_rekey_after(r.next_rekey)
             phase == ~ r.key_phase
  <2>1. /\ p.gen = g /\ r.next_rekey # NoPn
        /\ pn_distance(e, r.next_rekey) <= M
    BY <1>3 DEF OpensCandidate, should_try_candidate, Opens
  <2>2. r.next_rekey = b
    BY <2>1 DEF ReceiverKeys, NextThreshold
  <2>3. /\ K \in Nat /\ M \in Nat /\ W \in Nat /\ tx.gen \in Nat /\ tx.start \in Nat
    BY Numbers
  <2>4. b \in Nat /\ Boundary(tx.start, g + 1) = b + K
    BY <1>1, <2>3, BoundaryFacts
  <2>5. next = NextThreshold(tx.start, g)
    BY <1>1, <2>2, <2>3, ThresholdFacts
  <2>6. k = [r EXCEPT !.previous = prev, !.gen = g, !.key_phase = phase, !.next_rekey = next]
    BY <1>3 DEF Keyed, promote_candidate_rx_keys
  <2>7. e <= b /\ e <= tx.next_pn /\ r.initial_expected = tx.start
    BY DEF ReceiverKeys
  <2>8. g <= tx.gen
    BY <2>1 DEF PacketKeys
  <2> HIDE DEF k, g, b, prev, next, phase, e
  <2>9. /\ k.previous = prev /\ k.gen = g /\ k.key_phase = phase /\ k.next_rekey = next
        /\ k.largest_pn = r.largest_pn /\ k.initial_expected = r.initial_expected
    BY <2>6 DEF Receiver
  <2>10. expected_pn(k) = e
    BY <2>9 DEF expected_pn, e
  <2>11. e + M >= b
    BY <1>1, <2>1, <2>2, <2>3, <2>4, <2>7 DEF pn_distance, e
  <2>12. /\ prev = [gen |-> g - 1, valid_until_pn |-> b + W] /\ prev # NoPrevious
         /\ g > 0 /\ g \in Nat
    BY <1>1, <2>2 DEF prev, g, NoPrevious, NoPn
  <2>13. e <= b + K
    BY <1>1, <2>3, <2>4, <2>7 DEF e
  <2>14. ReceiverKeys(k)
    BY <2>4, <2>5, <2>7, <2>8, <2>9, <2>10, <2>11, <2>12, <2>13 DEF ReceiverKeys, b
  <2>15. p.gen <= k.gen
    BY <2>1, <2>9, <2>12
  <2>16. k.gen = r.gen + 1 /\ k.key_phase = ~ r.key_phase
    BY <2>9 DEF g, phase
  <2> QED BY <2>14, <2>15, <2>16 DEF k
<1> QED BY <1>2, <1>3

\* An accepted number of a generation that the receiver has keys for.
LEMMA UpdatedKeys ==
    ASSUME Inductive, NEW r \in Receiver, ReceiverKeys(r), NEW p \in sent, PacketKeys(p),
           p.gen <= r.gen
    PROVE  /\ ReceiverKeys(Updated(r, p.pn))
           /\ Updated(r, p.pn).gen = r.gen /\ Updated(r, p.pn).key_phase = r.key_phase
<1> DEFINE u == Updated(r, p.pn)
           e == expected_pn(r)
<1>1. /\ e \in Nat /\ r.gen \in Nat /\ r.gen + 1 \in Nat /\ r.largest_pn \in Int
      /\ p \in Packet /\ p.gen \in Nat /\ p.pn \in Nat
      /\ KEY_UPDATE_INTERVAL \in Nat /\ KEY_UPDATE_LATE_MARGIN \in Nat
      /\ PN_REPLAY_WINDOW \in Nat /\ tx.start \in Nat /\ tx.next_pn \in Nat
  BY ExpectedType, Numbers
<1>2. /\ u.gen = r.gen /\ u.key_phase = r.key_phase /\ u.next_rekey = r.next_rekey
      /\ u.previous = r.previous /\ u.initial_expected = r.initial_expected
      /\ u.largest_pn = IF p.pn <= r.largest_pn THEN r.largest_pn ELSE p.pn
  BY DEF Updated, Receiver
<1>3. Boundary(tx.start, r.gen) \in Nat /\ Boundary(tx.start, r.gen + 1) \in Nat
  BY <1>1, BoundaryFacts
<1>4. p.pn < Boundary(tx.start, r.gen + 1)
  <2>1. p.gen + 1 \in Nat
    BY <1>1
  <2>2. p.pn < Boundary(tx.start, p.gen + 1) /\ Boundary(tx.start, p.gen + 1) \in Nat
    BY <1>1, <2>1, BoundaryFacts DEF PacketKeys
  <2>3. CASE p.gen = r.gen
    BY <2>2, <2>3
  <2>4. CASE p.gen < r.gen
    <3>1. p.gen + 1 < r.gen + 1
      BY <1>1, <2>4
    <3>2. Boundary(tx.start, r.gen + 1) >= Boundary(tx.start, p.gen + 1) + KEY_UPDATE_INTERVAL
      BY <1>1, <2>1, <3>1, BoundaryFacts
    <3> QED BY <1>1, <1>3, <2>2, <3>2
  <2> QED BY <1>1, <2>3, <2>4
<1> HIDE DEF u
<1>5. /\ expected_pn(u) \in Nat /\ expected_pn(u) >= e
      /\ expected_pn(u) = e \/ expected_pn(u) = p.pn + 1
  <2>1. CASE p.pn <= r.largest_pn
    BY <1>1, <1>2, <2>1 DEF expected_pn, NoPn
  <2>2. CASE ~ (p.pn <= r.largest_pn)
    <3>1. expected_pn(u) = p.pn + 1
      BY <1>1, <1>2, <2>2 DEF expected_pn, NoPn
    <3>2. e <= p.pn + 1
      BY <1>1, <2>2 DEF expected_pn, ReceiverKeys, PacketKeys
    <3> QED BY <1>1, <3>1, <3>2
  <2> QED BY <2>1, <2>2
<1>6. expected_pn(u) <= Boundary(tx.start, r.gen + 1) /\ expected_pn(u) <= tx.next_pn
  BY <1>1, <1>3, <1>4, <1>5 DEF ReceiverKeys, PacketKeys
<1>7. /\ r.gen > 0 => e + KEY_UPDATE_LATE_MARGIN >= Boundary(tx.start, r.gen)
      /\ r.previous = NoPrevious =>
           r.gen = 0 \/ e > Boundary(tx.start, r.gen) + PN_REPLAY_WINDOW
  BY DEF ReceiverKeys
<1> HIDE DEF e
<1>8. /\ r.gen > 0 => expected_pn(u) + KEY_UPDATE_LATE_MARGIN >= Boundary(tx.start, r.gen)
      /\ r.previous = NoPrevious =>
           r.gen = 0 \/ expected_pn(u) > Boundary(tx.start, r.gen) + PN_REPLAY_WINDOW
  BY <1>1, <1>3, <1>5, <1>7
<1>9. ReceiverKeys(u)
  BY <1>2, <1>6, <1>8 DEF ReceiverKeys
<1> QED BY <1>2, <1>9 DEF u

\* Whatever arrives, the keys stay in step.
LEMMA ReceiveKeys ==
    ASSUME Inductive, KeysInv, NEW p \in sent, Receive(p)
    PROVE  KeysInv'
<1> DEFINE c == maybe_confirm_previous_rx_keys(rx)
           k == Keyed(c, p)
<1>1. rx \in Receiver /\ rx.gen \in Nat /\ PacketKeys(p) /\ p.pn \in Pn /\ p \in Packet
  BY ExpectedType, Numbers DEF KeysInv, Packet
<1>2. /\ c \in Receiver /\ ReceiverKeys(c) /\ c.gen = rx.gen /\ c.key_phase = rx.key_phase
  BY <1>1, ConfirmFacts, ConfirmKeys DEF KeysInv
<1>3. UNCHANGED <<tx, sent>>
  BY DEF Receive, ReceiveAccepted, ReceiveRefused, ReceiveUnopened
<1>4. /\ ReceiverKeys(rx')
      /\ \/ rx'.gen = rx.gen /\ rx'.key_phase = rx.key_phase
         \/ rx'.gen = rx.gen + 1 /\ rx'.key_phase = ~ rx.key_phase
  <2>1. CASE ReceiveUnopened(p)
    BY <1>2, <2>1 DEF ReceiveUnopened
  <2>2. ASSUME OpensCurrent(c, p) \/ OpensPrevious(c, p) \/ OpensCandidate(c, p)
        PROVE  /\ k \in Receiver /\ ReceiverKeys(k) /\ p.gen <= k.gen
               /\ \/ k.gen = rx.gen /\ k.key_phase = rx.key_phase
                  \/ k.gen = rx.gen + 1 /\ k.key_phase = ~ rx.key_phase
    <3> HIDE DEF c
    <3>1. k \in Receiver
      BY <1>1, <1>2, <2>2, KeyedFacts
    <3> QED BY <1>1, <1>2, <2>2, <3>1, KeyedKeys
  <2>3. CASE ReceiveRefused(p)
    <3>1. /\ OpensCurrent(c, p) \/ OpensPrevious(c, p) \/ OpensCandidate(c, p)
          /\ rx' = k
      BY <2>3 DEF ReceiveRefused
    <3> HIDE DEF c, k
    <3> QED BY <2>2, <3>1
  <2>4. CASE \E from \in SocketAddr : ReceiveAccepted(p, from)
    <3>1. /\ OpensCurrent(c, p) \/ OpensPrevious(c, p) \/ OpensCandidate(c, p)
          /\ rx' = Updated(k, p.pn)
      BY <2>4 DEF ReceiveAccepted, Accepts
    <3> HIDE DEF c, k
    <3>2. /\ ReceiverKeys(rx') /\ rx'.gen = k.gen /\ rx'.key_phase = k.key_phase
      BY <1>1, <2>2, <3>1, UpdatedKeys
    <3> QED BY <2>2, <3>1, <3>2
  <2> QED BY <2>1, <2>3, <2>4 DEF Receive
<1>5. ReceiverKeys(rx)'
  <2>1. expected_pn(rx') = expected_pn(rx)'
    BY DEF expected_pn
  <2> QED BY <1>3, <1>4, <2>1 DEF ReceiverKeys
<1>6. SenderKeys' /\ \A q \in sent' : PacketKeys(q)'
  BY <1>3 DEF KeysInv, SenderKeys, PacketKeys
<1>7. PhasesAgree'
  <2>1. PICK phase \in BOOLEAN :
          /\ tx.key_phase = Phase(phase, tx.gen)
          /\ rx.key_phase = Phase(phase, rx.gen)
          /\ \A q \in sent : q.key_phase = Phase(phase, q.gen)
    BY DEF KeysInv, PhasesAgree
  <2>2. Phase(phase, rx.gen + 1) = ~ Phase(phase, rx.gen)
    BY <1>1, PhaseFacts
  <2>3. rx'.key_phase = Phase(phase, rx'.gen)
    BY <1>4, <2>1, <2>2
  <2> QED BY <1>3, <2>1, <2>3 DEF PhasesAgree
<1> QED BY <1>5, <1>6, <1>7 DEF KeysInv

\* The keys of both ends stay in step.
THEOREM KeysInvariance == Spec => []KeysInv
<1>1. Inductive /\ KeysInv /\ [Next]_vars => KeysInv'
  <2> SUFFICES ASSUME Inductive, KeysInv, [Next]_vars PROVE KeysInv'
    OBVIOUS
  <2>1. CASE Send
    BY <2>1, SendKeys
  <2>2. CASE \E p \in sent : Receive(p)
    BY <2>2, ReceiveKeys
  <2>3. CASE UNCHANGED vars
    BY <2>3 DEF vars, KeysInv, SenderKeys, PacketKeys, ReceiverKeys, PhasesAgree, expected_pn
  <2> QED BY <2>1, <2>2, <2>3 DEF Next
<1> QED BY InitKeys, <1>1, Invariance, PTL DEF Spec

------------------------------------------------------------------------------
(* Theorems *)

\* Sender and receiver keep well-formed state (TypeOK).
THEOREM TypeCorrect == Spec => []TypeOK
<1>1. Inductive => TypeOK
  BY DEF Inductive
<1> QED BY <1>1, Invariance, PTL

\* open_packet accepts a packet number at most once, whatever the network
\* repeats, delays or reorders (NoReplayAccepted).
THEOREM NoReplay == Spec => []NoReplayAccepted
<1>1. Inductive => NoReplayAccepted
  BY DEF Inductive, DeliveredOnce, NoReplayAccepted
<1> QED BY <1>1, Invariance, PTL

\* The ring of bits is exactly the set of accepted numbers in the window
\* (WindowIsExact): no bit of an older number is mistaken for a newer one.
THEOREM WindowExact == Spec => []WindowIsExact
<1>1. Inductive => WindowIsExact
  <2> SUFFICES ASSUME Inductive, rx.largest_pn # NoPn,
                      NEW pn \in WindowStart(rx.largest_pn)..rx.largest_pn
               PROVE  bit_position(pn) \in rx.bits <=> pn \in DOMAIN delivered
    BY DEF WindowIsExact
  <2> DEFINE l == rx.largest_pn
             D == DOMAIN delivered
  <2>1. /\ rx.bits = Positions(D, l)
        /\ \A d \in D : d <= l
    BY DEF Inductive, BitsAreDelivered, LargestIsNewest
  <2>2. l \in Nat /\ D \subseteq Nat
    BY PnAssumption DEF Inductive, TypeOK, Receiver, Packet, PnOption, Pn
  <2>3. PN_REPLAY_WINDOW \in Nat /\ PN_REPLAY_WINDOW > 0
    BY QspAssumption
  <2>4. WindowStart(l) \in Nat /\ l < WindowStart(l) + PN_REPLAY_WINDOW
    BY <2>2, <2>3 DEF WindowStart
  <2>5. pn \in Nat /\ pn >= WindowStart(l) /\ pn <= l
    BY <2>2, <2>4
  <2>6. ASSUME NEW d \in D, d >= WindowStart(l),
               bit_position(d) = bit_position(pn)
        PROVE  d = pn
    <3>1. d \in Nat /\ d <= l
      BY <2>1, <2>2
    <3>2. d < pn + PN_REPLAY_WINDOW /\ pn < d + PN_REPLAY_WINDOW
      BY <2>2, <2>3, <2>4, <2>5, <2>6, <3>1
    <3> QED BY <2>5, <2>6, <3>1, <3>2, PositionsDiffer
  <2> QED BY <2>1, <2>5, <2>6 DEF Positions
<1> QED BY <1>1, Invariance, PTL

\* The server's reply address is the one the newest accepted packet came from
\* (PeerFollowsNewest).
THEOREM PeerIsTheNewest == Spec => []PeerFollowsNewest
<1>1. Inductive => PeerFollowsNewest
  <2> SUFFICES ASSUME Inductive, delivered # << >> PROVE
               LET newest == CHOOSE pn \in DOMAIN delivered :
                                 \A q \in DOMAIN delivered : q <= pn
               IN  /\ peer.pn = newest
                   /\ peer.addr = delivered[newest][1]
    BY DEF PeerFollowsNewest
  <2> DEFINE D == DOMAIN delivered
             newest == CHOOSE pn \in D : \A q \in D : q <= pn
  <2>1. D # {}
    OBVIOUS
  <2>2. /\ rx.largest_pn # NoPn /\ rx.largest_pn \in D
        /\ \A q \in D : q <= rx.largest_pn
    BY <2>1 DEF Inductive, LargestIsNewest
  <2>3. newest \in D /\ \A q \in D : q <= newest
    BY <2>2
  <2>4. D \subseteq Nat
    BY PnAssumption DEF Inductive, TypeOK, Packet, Pn
  <2>5. newest = rx.largest_pn
    <3> HIDE DEF newest
    <3> QED BY <2>2, <2>3, <2>4
  <2> QED BY <2>2, <2>5 DEF Inductive, PeerIsNewest
<1> QED BY <1>1, Invariance, PTL

\* The receive keys never run ahead of the send keys and agree with them in phase and
\* threshold; a receiver within the late margin is at most one generation behind
\* (GenerationsAgree): promote_candidate_rx_keys against maybe_rotate_tx_keys.
THEOREM GenerationsAgreeProved == Spec => []GenerationsAgree
<1>1. Inductive /\ KeysInv => GenerationsAgree
  <2> SUFFICES ASSUME Inductive, KeysInv PROVE GenerationsAgree
    OBVIOUS
  <2>1. /\ tx.next_pn \in Nat /\ tx.gen \in Nat /\ tx.start \in Nat
        /\ KEY_UPDATE_INTERVAL \in Nat /\ KEY_UPDATE_LATE_MARGIN \in Nat
        /\ PN_REPLAY_WINDOW \in Nat
        /\ PN_REPLAY_WINDOW + KEY_UPDATE_LATE_MARGIN < KEY_UPDATE_INTERVAL
        /\ rx.gen \in Nat /\ expected_pn(rx) \in Nat
    BY Numbers, ExpectedType
  <2>2. /\ rx.gen <= tx.gen
        /\ rx.next_rekey = NextThreshold(tx.start, rx.gen)
        /\ tx.next_rekey = NextThreshold(tx.start, tx.gen)
        /\ expected_pn(rx) <= Boundary(tx.start, rx.gen + 1)
        /\ tx.gen > 0 => Boundary(tx.start, tx.gen) < tx.next_pn
    BY DEF KeysInv, ReceiverKeys, SenderKeys
  <2>3. rx.gen = tx.gen => rx.key_phase = tx.key_phase
    BY DEF KeysInv, PhasesAgree
  <2>4. ASSUME tx.next_pn <= expected_pn(rx) + KEY_UPDATE_LATE_MARGIN
        PROVE  tx.gen <= rx.gen + 1
    <3>1. SUFFICES ASSUME rx.gen + 1 < tx.gen PROVE FALSE
      BY <2>1
    <3>2. rx.gen + 1 \in Nat
      BY <2>1
    <3>3. /\ Boundary(tx.start, tx.gen) >= Boundary(tx.start, rx.gen + 1) + KEY_UPDATE_INTERVAL
          /\ Boundary(tx.start, tx.gen) \in Nat /\ Boundary(tx.start, rx.gen + 1) \in Nat
      BY <2>1, <3>1, <3>2, BoundaryFacts
    <3> QED BY <2>1, <2>2, <2>4, <3>1, <3>3
  <2> QED BY <2>2, <2>3, <2>4 DEF GenerationsAgree
<1> QED BY <1>1, Invariance, KeysInvariance, PTL

\* A packet that was not accepted, is in the window and not too far ahead is opened by one of
\* the three key generations: the current, the previous or the candidate.
LEMMA PendingHasKeys ==
    ASSUME Inductive, KeysInv, NEW p \in sent, Pending(p),
           Decoded(p.pn, expected_pn(rx)) = p.pn,
           NEW c, c = maybe_confirm_previous_rx_keys(rx)
    PROVE  OpensCurrent(c, p) \/ OpensPrevious(c, p) \/ OpensCandidate(c, p)
<1> DEFINE K == KEY_UPDATE_INTERVAL
           M == KEY_UPDATE_LATE_MARGIN
           W == PN_REPLAY_WINDOW
           e == expected_pn(rx)
           B(g) == Boundary(tx.start, g)
<1>1. /\ rx \in Receiver /\ K \in Nat /\ M \in Nat /\ W \in Nat /\ W + M < K
      /\ tx.start \in Nat /\ p.pn \in Nat /\ p.gen \in Nat
      /\ e \in Nat /\ rx.gen \in Nat /\ PnMax \in Nat
  BY Numbers, ExpectedType
<1>2. ReceiverKeys(rx) /\ PacketKeys(p)
  BY DEF KeysInv
<1>3. /\ ReceiverKeys(c) /\ c.gen = rx.gen /\ c.key_phase = rx.key_phase /\ expected_pn(c) = e
      /\ c.previous # NoPrevious => e <= c.previous.valid_until_pn
  BY <1>1, <1>2, ConfirmKeys
<1>4. PICK phase \in BOOLEAN :
        rx.key_phase = Phase(phase, rx.gen) /\ p.key_phase = Phase(phase, p.gen)
  BY DEF KeysInv, PhasesAgree
<1>5. /\ B(p.gen) <= p.pn /\ p.pn < B(p.gen + 1) /\ tx.start <= p.pn /\ p.pn <= PnMax
      /\ p.pn < e + M
  BY <1>1, Numbers DEF KeysInv, PacketKeys, Pending
<1>6. \A g \in Nat : /\ B(g) \in Nat /\ B(g + 1) = B(g) + K
                     /\ \A h \in Nat : g < h => B(h) >= B(g) + K
  BY <1>1, BoundaryFacts
\* The packet is not older than the window that precedes the expected number.
<1>7. p.pn + W >= e
  <2>1. CASE rx.largest_pn = NoPn
    <3>1. e = tx.start
      BY <2>1, <1>2 DEF expected_pn, ReceiverKeys
    <3> QED BY <1>1, <1>5, <3>1
  <2>2. CASE rx.largest_pn # NoPn
    <3>1. rx.largest_pn \in Int /\ e = rx.largest_pn + 1
      BY <1>1, <2>2, ExpectedType DEF expected_pn
    <3>2. ~ (p.pn + W <= rx.largest_pn)
      BY <2>2 DEF Pending, TooOld
    <3> QED BY <1>1, <3>1, <3>2
  <2> QED BY <2>1, <2>2
<1>8. /\ c.next_rekey = NextThreshold(tx.start, rx.gen)
      /\ e <= B(rx.gen + 1)
      /\ rx.gen > 0 => e + M >= B(rx.gen)
      /\ c.previous = NoPrevious => rx.gen = 0 \/ e > B(rx.gen) + W
      /\ c.previous # NoPrevious =>
             /\ rx.gen > 0
             /\ c.previous = [gen |-> rx.gen - 1, valid_until_pn |-> B(rx.gen) + W]
  BY <1>3 DEF ReceiverKeys
<1> HIDE DEF K, M, W, e, B
<1>9. CASE p.gen = rx.gen
  BY <1>3, <1>4, <1>9 DEF OpensCurrent, Opens, e
<1>10. CASE p.gen < rx.gen
  <2>1. p.gen = rx.gen - 1
    <3>1. SUFFICES ASSUME p.gen + 1 < rx.gen PROVE FALSE
      BY <1>1, <1>10
    <3>2. p.gen + 1 \in Nat
      BY <1>1
    <3>3. B(rx.gen) >= B(p.gen + 1) + K /\ B(rx.gen) \in Nat /\ B(p.gen + 1) \in Nat
      BY <1>1, <1>6, <3>1, <3>2
    <3> QED BY <1>1, <1>5, <1>7, <1>8, <3>1, <3>3
  <2>2. p.pn < B(rx.gen)
    <3>1. p.gen + 1 = rx.gen
      BY <1>1, <2>1
    <3> QED BY <1>5, <3>1
  <2>3. c.previous # NoPrevious
    <3>1. ~ (e > B(rx.gen) + W) /\ rx.gen # 0
      <4>1. B(rx.gen) \in Nat
        BY <1>1, <1>6
      <4> QED BY <1>1, <1>7, <1>10, <2>2, <4>1
    <3> QED BY <1>8, <3>1
  <2>4. c.previous.gen = p.gen
    BY <1>8, <2>1, <2>3
  <2>5. p.key_phase # rx.key_phase
    <3>1. rx.gen = p.gen + 1
      BY <1>1, <2>1
    <3> QED BY <1>1, <1>4, <3>1, PhaseFacts
  <2> QED BY <1>3, <2>3, <2>4, <2>5 DEF OpensPrevious, Opens, e
<1>11. CASE p.gen > rx.gen
  <2> DEFINE n == B(rx.gen + 1)
  <2>1. n \in Nat /\ n = B(rx.gen) + K /\ B(rx.gen) \in Nat /\ rx.gen + 1 \in Nat
    <3>1. rx.gen + 1 \in Nat
      BY <1>1
    <3>2. B(rx.gen) \in Nat /\ n = B(rx.gen) + K
      BY <1>1, <1>6
    <3>3. n \in Nat
      BY <1>6, <3>1
    <3> QED BY <3>1, <3>2, <3>3
  <2>2. n <= B(p.gen) /\ B(p.gen) \in Nat
    <3>1. CASE p.gen = rx.gen + 1
      BY <1>1, <1>6, <3>1
    <3>2. CASE p.gen > rx.gen + 1
      <4>1. B(p.gen) >= n + K /\ B(p.gen) \in Nat
        BY <1>1, <1>6, <2>1, <3>2
      <4> QED BY <1>1, <2>1, <4>1
    <3> QED BY <1>1, <1>11, <3>1, <3>2
  <2>3. p.gen = rx.gen + 1
    <3>1. SUFFICES ASSUME p.gen > rx.gen + 1 PROVE FALSE
      BY <1>1, <1>11
    <3>2. B(p.gen) >= n + K
      BY <1>1, <1>6, <2>1, <3>1
    <3> QED BY <1>1, <1>5, <1>8, <2>1, <2>2, <3>2
  <2>4. c.next_rekey = n /\ n # NoPn
    <3>1. n <= PnMax /\ n # NoPn
      BY <1>1, <1>5, <2>1, <2>2 DEF NoPn
    <3> QED BY <1>8, <3>1 DEF NextThreshold, B
  <2>5. c.previous = NoPrevious
    <3>1. SUFFICES ASSUME c.previous # NoPrevious PROVE FALSE
      OBVIOUS
    <3>2. e <= B(rx.gen) + W
      BY <1>3, <1>8, <3>1
    <3> QED BY <1>1, <1>5, <2>1, <2>2, <3>2
  <2>6. pn_distance(e, n) <= M
    BY <1>1, <1>5, <1>8, <2>1, <2>2 DEF pn_distance
  <2>7. p.key_phase # rx.key_phase
    BY <1>1, <1>4, <2>3, PhaseFacts
  <2> QED BY <1>3, <2>3, <2>4, <2>5, <2>6, <2>7
          DEF OpensCandidate, should_try_candidate, Opens, e, M
<1> QED BY <1>1, <1>9, <1>10, <1>11

\* Key updates, window slides and refused packets lose nothing: a packet that is in the window,
\* not accepted yet, less than the late margin ahead and decodable is accepted by open_packet
\* whenever it arrives (PendingPacketOpens).
THEOREM PendingPacketOpensProved == Spec => []PendingPacketOpens
<1>1. Inductive /\ KeysInv /\ WindowIsExact => PendingPacketOpens
  <2> SUFFICES ASSUME Inductive, KeysInv, WindowIsExact, NEW p \in sent,
                      Pending(p), Decodable(p.pn, expected_pn(rx))
               PROVE  Accepts(rx, p)
    BY DEF PendingPacketOpens
  <2> DEFINE e == expected_pn(rx)
             c == maybe_confirm_previous_rx_keys(rx)
  <2>1. /\ rx \in Receiver /\ e \in Nat /\ p.pn \in Nat /\ PnMax \in Nat /\ tx.next_pn \in Nat
        /\ tx.next_pn <= PnMax /\ e <= tx.next_pn /\ p.pn < tx.next_pn
        /\ KEY_UPDATE_LATE_MARGIN \in Nat /\ PN_REPLAY_WINDOW \in Nat
        /\ p.pn < e + KEY_UPDATE_LATE_MARGIN
    BY Numbers, ExpectedType DEF KeysInv, ReceiverKeys, PacketKeys, Pending
  <2>2. KEY_UPDATE_LATE_MARGIN <= PnWindow(MAX_WIRE_PN_LEN) \div 2
    <3> DEFINE shortest == packet_number_len(KEY_UPDATE_INTERVAL - KEY_UPDATE_LATE_MARGIN)
               v == PnWindow(shortest)
               w == PnWindow(MAX_WIRE_PN_LEN)
    <3>1. KEY_UPDATE_INTERVAL - KEY_UPDATE_LATE_MARGIN \in Nat
      BY QspAssumption
    <3>2. shortest \in 1..MAX_WIRE_PN_LEN
      BY <3>1, LengthFacts
    <3>3. 2 * KEY_UPDATE_LATE_MARGIN < v \div 2
      BY QspAssumption
    <3> HIDE DEF shortest
    <3>4. v \in Nat /\ v <= w
      BY <3>2, WindowFacts
    <3>5. w \in Nat
      BY WindowFacts DEF MAX_WIRE_PN_LEN
    <3> HIDE DEF v, w
    <3> QED BY <2>1, <3>3, <3>4, <3>5 DEF w
  <2>3. PnWindow(MAX_WIRE_PN_LEN) \div 2 \in Nat
    <3>1. PnWindow(MAX_WIRE_PN_LEN) \in Nat
      BY WindowFacts DEF MAX_WIRE_PN_LEN
    <3> QED BY <3>1
  <2>4. Decoded(p.pn, e) = p.pn
    <3>1. p.pn <= e + PnWindow(MAX_WIRE_PN_LEN) \div 2
      BY <2>1, <2>2, <2>3
    <3>2. p.pn <= PnMax /\ e <= PnMax
      BY <2>1
    <3> HIDE DEF e
    <3> QED BY <2>1, <3>1, <3>2, DecodedIsSent DEF e
  <2>5. OpensCurrent(c, p) \/ OpensPrevious(c, p) \/ OpensCandidate(c, p)
    BY <2>4, PendingHasKeys
  <2>6. c.largest_pn = rx.largest_pn /\ c.initial_expected = rx.initial_expected /\ c.bits = rx.bits
    BY <2>1, ConfirmFacts
  <2>7. ~ TooOld(c, p.pn)
    BY <2>6 DEF Pending, TooOld
  <2>8. ~ Replay(rx, p.pn)
    <3>1. SUFFICES ASSUME Replay(rx, p.pn) PROVE FALSE
      OBVIOUS
    <3>2. /\ rx.largest_pn # NoPn /\ p.pn <= rx.largest_pn /\ bit_position(p.pn) \in rx.bits
          /\ rx.largest_pn \in Int
      BY <2>1, <3>1, ExpectedType DEF Replay
    <3>3. ~ (p.pn + PN_REPLAY_WINDOW <= rx.largest_pn)
      BY <3>2 DEF Pending, TooOld
    <3>4. p.pn \in WindowStart(rx.largest_pn)..rx.largest_pn
      BY <2>1, <3>2, <3>3 DEF WindowStart
    <3> QED BY <3>2, <3>4 DEF WindowIsExact, Pending
  <2>9. ~ Replay(c, p.pn)
    BY <2>6, <2>8 DEF Replay
  <2> QED BY <2>5, <2>7, <2>9 DEF Accepts
<1> QED BY <1>1, Invariance, KeysInvariance, WindowExact, PTL
=============================================================================
