-------------------------- MODULE UdpEgressProofs --------------------------
(***************************************************************************)
(* Proofs about UdpEgress, for every set of packets and of sizes, every    *)
(* segment and payload limit, and queues and networks of any length.       *)
(*                                                                         *)
(* The slab is described by the datagrams that were put into it: there are *)
(* datagrams of one size of which it is the concatenation.  What the       *)
(* kernel cuts at that size is then those datagrams, and what the receiver *)
(* cuts from merged neighbours is the neighbours.  The second needs what   *)
(* FlattenSeq computes for a sequence of any length, which is shown by     *)
(* induction: the library gives the least element of a set of numbers, and *)
(* with the numbers that lack a property as the set, induction follows.    *)
(***************************************************************************)
EXTENDS UdpEgress, SequenceTheorems, WellFoundedInduction, TLAPS

------------------------------------------------------------------------------
(* Numbers                                                                 *)

\* Induction over the numbers, with the set of those that have the property.
LEMMA NumbersFrom0 ==
    ASSUME NEW S, 0 \in S, \A n \in Nat : n \in S => n + 1 \in S
    PROVE  Nat \subseteq S
<1> DEFINE rest == Nat \ S
<1>1. SUFFICES ASSUME rest # {} PROVE FALSE
  OBVIOUS
<1>2. PICK n \in rest : \A m \in rest : n <= m
  <2> DEFINE R == OpToRel(<, Nat)
  <2>1. IsWellFoundedOn(R, Nat)
    BY NatLessThanWellFounded, ZenonT(60)
  <2>2. \A x, y \in Nat : x < y => <<x, y>> \in R
    BY DEF OpToRel
  <2>3. rest \subseteq Nat
    OBVIOUS
  <2> HIDE DEF R, rest
  <2>4. \E x \in rest : \A y \in rest : ~(<<y, x>> \in R)
    BY <1>1, <2>1, <2>3, WFMin
  <2>5. PICK x \in rest : \A y \in rest : ~(<<y, x>> \in R)
    BY <2>4
  <2>6. \A y \in rest : x <= y
    <3>1. SUFFICES ASSUME NEW y \in rest PROVE x <= y
      OBVIOUS
    <3>2. x \in Nat /\ y \in Nat
      BY <2>3
    <3>3. ~(y < x)
      BY <2>2, <2>5, <3>2
    <3> QED BY <3>2, <3>3
  <2> QED BY <2>6
<1>3. n # 0 /\ n - 1 \in Nat
  BY DEF rest
<1>4. n - 1 \in S
  BY <1>2, <1>3
<1> QED BY <1>2, <1>3, <1>4

\* A quotient is known by what remains.
LEMMA QuotientIs ==
    ASSUME NEW w \in Nat, w > 0, NEW q \in Nat, NEW r \in 0..w-1
    PROVE  (q * w + r) \div w = q
  OBVIOUS

LEMMA MultipleLE ==
    ASSUME NEW w \in Nat, NEW p \in Nat, NEW q \in Nat, p <= q
    PROVE  /\ p * w \in Nat /\ q * w \in Nat
           /\ p * w <= q * w
  OBVIOUS

LEMMA NextMultiple ==
    ASSUME NEW w \in Nat, NEW p \in Nat
    PROVE  p * w \in Nat /\ (p + 1) * w = p * w + w
  OBVIOUS

\* A product that fits.
LEMMA MultipleFits ==
    ASSUME NEW w \in Nat, w > 0, NEW a \in Nat, NEW q \in Nat, q <= a \div w
    PROVE  q * w <= a
  OBVIOUS

LEMMA QuotientIsNat ==
    ASSUME NEW w \in Nat, w > 0, NEW a \in Nat
    PROVE  a \div w \in Nat /\ (w <= a => a \div w >= 1)
  OBVIOUS

------------------------------------------------------------------------------
(* Datagrams, joined and cut                                               *)

Cell == Nat \X Nat \X Nat
Names == Packet \cup {0}
Whole == {Datagram(p, n) : p \in Names, n \in 1..MAX_UDP_GSO_PAYLOAD}

\* The first m of these datagrams fit a stride of w: the last may be shorter.
Strided(parts, m, w) ==
    \A k \in 1..m : parts[k] \in Seq(Cell) /\ Len(parts[k]) \in 1..w
                        /\ (k < m => Len(parts[k]) = w)

\* The bytes of the first m of them, one datagram after the other.
Joined(parts, m, w, bytes) ==
    /\ bytes \in Seq(Cell)
    /\ Len(bytes) = IF m = 0 THEN 0 ELSE (m - 1) * w + Len(parts[m])
    /\ \A k \in 1..m : \A i \in 1..Len(parts[k]) : bytes[(k - 1) * w + i] = parts[k][i]

\* What a stride cuts from joined datagrams is the datagrams.
LEMMA PiecesOfJoined ==
    ASSUME NEW parts \in Seq(Seq(Cell)), NEW w \in Nat, w > 0, Len(parts) > 0,
           Strided(parts, Len(parts), w),
           NEW bytes, Joined(parts, Len(parts), w, bytes)
    PROVE  Pieces(bytes, w) = parts
<1> DEFINE m == Len(parts)
           last == Len(parts[m])
           upto(i) == IF i * w < Len(bytes) THEN i * w ELSE Len(bytes)
<1>1. m \in Nat /\ m > 0 /\ last \in 1..w /\ DOMAIN parts = 1..m
  BY DEF Strided
<1>2. /\ bytes \in Seq(Cell)
      /\ Len(bytes) = (m - 1) * w + last
      /\ \A k \in 1..m : \A i \in 1..Len(parts[k]) : bytes[(k - 1) * w + i] = parts[k][i]
  <2>1. Len(parts) # 0
    OBVIOUS
  <2> QED BY <2>1 DEF Joined
<1>3. /\ \A k \in 1..m : parts[k] \in Seq(Cell)
      /\ \A k \in 1..m : k < m => Len(parts[k]) = w
  BY <1>1 DEF Strided
<1> HIDE DEF m, last
<1>4. (m - 1) * w \in Nat /\ m * w = (m - 1) * w + w
  <2>1. m - 1 \in Nat /\ (m - 1) + 1 = m
    BY <1>1
  <2> QED BY <2>1, NextMultiple
<1>5. (Len(bytes) + w - 1) \div w = m
  <2>1. last - 1 \in 0..w-1
    BY <1>1
  <2>2. Len(bytes) + w - 1 = m * w + (last - 1)
    BY <1>1, <1>2, <1>4
  <2> QED BY <1>1, <2>1, <2>2, QuotientIs
<1>6. ASSUME NEW k \in 1..m
      PROVE  SubSeq(bytes, (k - 1) * w + 1, upto(k)) = parts[k]
  <2> DEFINE start == (k - 1) * w
             piece == SubSeq(bytes, start + 1, upto(k))
  <2>1. start \in Nat /\ k * w = start + w /\ k * w \in Nat
    <3>1. k - 1 \in Nat /\ (k - 1) + 1 = k
      BY <1>1
    <3> QED BY <3>1, NextMultiple
  <2>2. Len(parts[k]) \in Nat
    BY <1>3
  <2>3. upto(k) = start + Len(parts[k])
    <3>1. CASE k < m
      <4>1. k * w <= (m - 1) * w
        BY <1>1, <3>1, MultipleLE
      <4>2. k * w < Len(bytes)
        <5> DEFINE a == k * w
                   b == (m - 1) * w
        <5>1. a \in Nat /\ b \in Nat /\ a <= b /\ Len(bytes) = b + last /\ last >= 1 /\ last \in Nat
          BY <4>1, <2>1, <1>1, <1>2, <1>4
        <5> HIDE DEF a, b
        <5>2. a < Len(bytes)
          BY <5>1
        <5> QED BY <5>2 DEF a
      <4> QED BY <4>2, <2>1, <1>3, <3>1
    <3>2. CASE k = m
      <4>1. ~(k * w < Len(bytes))
        BY <3>2, <1>1, <1>2, <1>4
      <4> QED BY <4>1, <3>2, <1>2 DEF m, last
    <3> QED BY <3>1, <3>2, <1>1
  <2>4. start + Len(parts[k]) <= Len(bytes)
    <3>1. start <= (m - 1) * w
      BY <1>1, MultipleLE
    <3>2. CASE k < m
      <4>1. k * w <= (m - 1) * w
        BY <1>1, <3>2, MultipleLE
      <4> DEFINE a == k * w
                 b == (m - 1) * w
      <4>2. /\ a \in Nat /\ b \in Nat /\ a <= b
            /\ Len(bytes) = b + last /\ last \in Nat
            /\ a = start + Len(parts[k])
        <5>1. Len(parts[k]) = w
          BY <1>3, <3>2
        <5>2. k * w = start + Len(parts[k])
          BY <5>1, <2>1
        <5>3. a \in Nat /\ b \in Nat /\ a <= b
          BY <4>1, <2>1, <1>4
        <5>4. Len(bytes) = b + last /\ last \in Nat
          BY <1>1, <1>2
        <5> QED BY <5>2, <5>3, <5>4
      <4> HIDE DEF a, b, start
      <4> QED BY <4>2, SMTT(60)
    <3>3. CASE k = m
      BY <3>3, <1>2 DEF m, last
    <3> QED BY <3>2, <3>3, <1>1
  <2> HIDE DEF start
  <2>5. \A i \in (start + 1)..(start + Len(parts[k])) : bytes[i] \in Cell
    BY <1>2, <2>1, <2>2, <2>4, SMTT(60)
  <2>6. /\ SubSeq(bytes, start + 1, start + Len(parts[k])) \in Seq(Cell)
        /\ Len(SubSeq(bytes, start + 1, start + Len(parts[k]))) = Len(parts[k])
        /\ \A i \in 1..Len(parts[k]) :
              SubSeq(bytes, start + 1, start + Len(parts[k]))[i] = bytes[start + i]
    <3>1. start + 1 \in Int /\ start + Len(parts[k]) \in Int
      BY <2>1, <2>2
    <3> DEFINE cut == SubSeq(bytes, start + 1, start + Len(parts[k]))
    <3>2. /\ cut \in Seq(Cell)
          /\ Len(cut) = IF start + 1 <= start + Len(parts[k])
                        THEN (start + Len(parts[k])) - (start + 1) + 1 ELSE 0
          /\ \A i \in 1..(start + Len(parts[k])) - (start + 1) + 1 :
                cut[i] = bytes[(start + 1) + i - 1]
      BY <3>1, <2>5, SubSeqProperties, SMTT(60)
    <3> HIDE DEF cut
    <3>3. (start + Len(parts[k])) - (start + 1) + 1 = Len(parts[k])
      BY <2>1, <2>2
    <3>4. \A i \in 1..Len(parts[k]) : (start + 1) + i - 1 = start + i
      BY <2>1, <2>2
    <3>5. Len(cut) = Len(parts[k])
      BY <3>2, <3>3, <2>1, <2>2
    <3>6. \A i \in 1..Len(parts[k]) : cut[i] = bytes[start + i]
      BY <3>2, <3>3, <3>4
    <3> QED BY <3>2, <3>5, <3>6 DEF cut
  <2>7. \A i \in 1..Len(parts[k]) : bytes[start + i] = parts[k][i]
    BY <1>2 DEF start
  <2>8. parts[k] \in Seq(Cell)
    BY <1>3
  <2> DEFINE cut == SubSeq(bytes, start + 1, start + Len(parts[k]))
  <2>9. cut = parts[k]
    <3>1. cut \in Seq(Cell) /\ Len(cut) = Len(parts[k])
      BY <2>6
    <3>2. \A i \in 1..Len(cut) : cut[i] = parts[k][i]
      BY <2>6, <2>7
    <3> HIDE DEF cut
    <3> QED BY <3>1, <3>2, <2>8, SeqEqual
  <2> QED BY <2>3, <2>9 DEF start
<1>7. Pieces(bytes, w) = [i \in 1..m |-> SubSeq(bytes, (i - 1) * w + 1, upto(i))]
  BY <1>5 DEF Pieces
<1> HIDE DEF upto
<1>8. parts = [i \in 1..m |-> parts[i]]
  BY <1>1
<1> QED BY <1>6, <1>7, <1>8

\* One more datagram behind joined ones of the full length.
LEMMA JoinedNext ==
    ASSUME NEW parts, NEW m \in Nat, NEW w \in Nat, NEW bytes,
           Joined(parts, m, w, bytes),
           \A k \in 1..m : Len(parts[k]) = w,
           parts[m + 1] \in Seq(Cell)
    PROVE  /\ Len(bytes) = m * w
           /\ Joined(parts, m + 1, w, bytes \o parts[m + 1])
<1>1. /\ bytes \in Seq(Cell)
      /\ Len(bytes) = IF m = 0 THEN 0 ELSE (m - 1) * w + Len(parts[m])
      /\ \A k \in 1..m : \A i \in 1..Len(parts[k]) : bytes[(k - 1) * w + i] = parts[k][i]
  BY DEF Joined
<1>2. Len(bytes) = m * w /\ m * w \in Nat
  <2>1. CASE m = 0
    BY <1>1, <2>1
  <2>2. CASE m # 0
    <3>1. m - 1 \in Nat /\ (m - 1) + 1 = m
      BY <2>2
    <3>2. m * w = (m - 1) * w + w
      BY <3>1, NextMultiple
    <3>3. Len(bytes) = (m - 1) * w + Len(parts[m]) /\ Len(parts[m]) = w
      BY <1>1, <2>2
    <3>4. m * w \in Nat
      BY NextMultiple
    <3> QED BY <3>2, <3>3, <3>4
  <2> QED BY <2>1, <2>2
<1> DEFINE d == parts[m + 1]
           longer == bytes \o d
<1>d. d \in Seq(Cell)
  OBVIOUS
<1> HIDE DEF d
<1>3. /\ longer \in Seq(Cell)
      /\ Len(longer) = Len(bytes) + Len(d)
      /\ \A i \in 1..Len(bytes) + Len(d) :
            longer[i] = IF i <= Len(bytes) THEN bytes[i] ELSE d[i - Len(bytes)]
  <2>1. bytes \in Seq(Cell)
    BY <1>1
  <2> QED BY <2>1, <1>d, ConcatProperties, Zenon
<1>4. Len(d) \in Nat
  BY <1>d
<1> HIDE DEF longer
<1>5. ASSUME NEW k \in 1..m + 1, NEW i \in 1..Len(parts[k])
      PROVE  longer[(k - 1) * w + i] = parts[k][i]
  <2>1. CASE k = m + 1
    <3>1. (k - 1) * w = Len(bytes)
      BY <2>1, <1>2
    <3>2. i \in 1..Len(d) /\ i \in Nat
      BY <2>1, <1>4 DEF d
    <3>3. longer[Len(bytes) + i] = d[i]
      BY <3>2, <1>2, <1>3, <1>4, SMTT(60)
    <3> QED BY <3>1, <3>3, <2>1 DEF d
  <2>2. CASE k <= m
    <3>1. k - 1 \in Nat /\ (k - 1) + 1 = k /\ k \in Nat /\ k \in 1..m
      BY <2>2
    <3>2. (k - 1) * w \in Nat /\ k * w = (k - 1) * w + w /\ k * w <= m * w
      BY <3>1, <2>2, NextMultiple, MultipleLE
    <3>3. i \in 1..w
      BY <3>1
    <3>4. (k - 1) * w + i \in 1..Len(bytes)
      <4> DEFINE a == (k - 1) * w
                 b == k * w
                 c == m * w
      <4>1. a \in Nat /\ b = a + w /\ b <= c /\ c \in Nat /\ Len(bytes) = c
        BY <3>2, <1>2
      <4> HIDE DEF a, b, c
      <4>2. a + i \in 1..Len(bytes)
        BY <4>1, <3>3
      <4> QED BY <4>2 DEF a
    <3>5. longer[(k - 1) * w + i] = bytes[(k - 1) * w + i]
      BY <3>4, <1>2, <1>3, <1>4
    <3> QED BY <3>1, <3>5, <1>1
  <2> QED BY <2>1, <2>2
<1>6. Len(longer) = ((m + 1) - 1) * w + Len(parts[m + 1])
  BY <1>2, <1>3 DEF d
<1>7. Joined(parts, m + 1, w, longer)
  <2>1. m + 1 # 0
    OBVIOUS
  <2> QED BY <2>1, <1>3, <1>5, <1>6 DEF Joined
<1> QED BY <1>2, <1>7 DEF longer, d

\* The function that FlattenSeq defines, as far as n.
Flattens(f, parts, n) ==
    f = [i \in 1..n |-> IF i = 1 THEN parts[i] ELSE f[i - 1] \o parts[i]]

LEMMA FlattenExists ==
    ASSUME NEW parts, NEW m \in Nat
    PROVE  \E f : Flattens(f, parts, m)
<1> DEFINE S == {n \in Nat : \E f : Flattens(f, parts, n)}
<1>1. 0 \in S
  <2> DEFINE f == [i \in 1..0 |-> <<>>]
  <2>1. f = [i \in 1..0 |-> IF i = 1 THEN parts[i] ELSE f[i - 1] \o parts[i]]
    OBVIOUS
  <2> HIDE DEF f
  <2>2. Flattens(f, parts, 0)
    BY <2>1 DEF Flattens
  <2> QED BY <2>2
<1>2. ASSUME NEW n \in Nat, n \in S PROVE n + 1 \in S
  <2>1. PICK g : Flattens(g, parts, n)
    BY <1>2
  <2> DEFINE last == IF n = 0 THEN parts[1] ELSE g[n] \o parts[n + 1]
             f == [i \in 1..n + 1 |-> IF i = n + 1 THEN last ELSE g[i]]
  <2>2. ASSUME NEW i \in 1..n + 1
        PROVE  f[i] = IF i = 1 THEN parts[i] ELSE f[i - 1] \o parts[i]
    <3> HIDE DEF last
    <3>1. CASE i = n + 1
      <4>1. CASE n = 0
        BY <3>1, <4>1 DEF last
      <4>2. CASE n # 0
        <5>1. f[n] = g[n] /\ i # 1 /\ i - 1 = n
          BY <3>1, <4>2
        <5>2. f[i] = last
          BY <3>1
        <5> HIDE DEF f
        <5> QED BY <3>1, <4>2, <5>1, <5>2 DEF last
      <4> QED BY <4>1, <4>2
    <3>2. CASE i # n + 1
      <4>1. i \in 1..n
        BY <3>2
      <4>2. g[i] = IF i = 1 THEN parts[i] ELSE g[i - 1] \o parts[i]
        BY <2>1, <4>1 DEF Flattens
      <4>3. f[i] = g[i] /\ (i # 1 => f[i - 1] = g[i - 1])
        BY <4>1
      <4> HIDE DEF f
      <4> QED BY <4>2, <4>3
    <3> QED BY <3>1, <3>2
  <2>3. f = [i \in 1..n + 1 |-> f[i]]
    OBVIOUS
  <2> HIDE DEF f
  <2>4. Flattens(f, parts, n + 1)
    BY <2>2, <2>3 DEF Flattens
  <2> QED BY <2>4
<1> HIDE DEF S
<1>3. Nat \subseteq S
  BY <1>1, <1>2, NumbersFrom0
<1>4. m \in S
  BY <1>3
<1> QED BY <1>4 DEF S

\* FlattenSeq joins datagrams of one stride.
LEMMA FlattenJoins ==
    ASSUME NEW parts \in Seq(Seq(Cell)), NEW w \in Nat, Len(parts) > 0,
           Strided(parts, Len(parts), w)
    PROVE  Joined(parts, Len(parts), w, FlattenSeq(parts))
<1> DEFINE m == Len(parts)
           f == CHOOSE g : Flattens(g, parts, m)
<1>1. m \in Nat /\ m # 0
  OBVIOUS
<1>2. FlattenSeq(parts) = f[m]
  BY <1>1 DEF FlattenSeq, Flattens
<1>3. Flattens(f, parts, m)
  BY <1>1, FlattenExists
<1> HIDE DEF f
<1>4. \A k \in 1..m : /\ parts[k] \in Seq(Cell)
                      /\ k < m => Len(parts[k]) = w
  BY DEF Strided
<1> HIDE DEF m
<1>5. \A i \in 1..m : f[i] = IF i = 1 THEN parts[i] ELSE f[i - 1] \o parts[i]
  BY <1>3 DEF Flattens
<1> DEFINE S == {n \in Nat : n + 1 <= m => Joined(parts, n + 1, w, f[n + 1])}
<1>6. 0 \in S
  <2>1. f[1] = parts[1] /\ parts[1] \in Seq(Cell)
    BY <1>1, <1>4, <1>5
  <2>2. 0 * w = 0
    OBVIOUS
  <2>3. ASSUME NEW k \in 1..1, NEW i \in 1..Len(parts[k])
        PROVE  f[1][(k - 1) * w + i] = parts[k][i]
    <3>1. k = 1 /\ (k - 1) * w = 0 /\ 0 + i = i
      BY <2>1
    <3>2. (k - 1) * w + i = i
      BY <3>1
    <3>3. f[1] = parts[k]
      BY <2>1, <3>1
    <3> QED BY <3>2, <3>3
  <2>4. Len(f[1]) = (1 - 1) * w + Len(parts[1])
    <3>1. (1 - 1) * w = 0 /\ Len(parts[1]) \in Nat
      BY <2>1
    <3>2. Len(f[1]) = 0 + Len(parts[1])
      BY <2>1, <3>1
    <3> QED BY <3>1, <3>2, Zenon
  <2>5. Joined(parts, 1, w, f[1])
    <3>1. Len(f[1]) = IF 1 = 0 THEN 0 ELSE (1 - 1) * w + Len(parts[1])
      BY <2>4
    <3> QED BY <2>1, <2>3, <3>1 DEF Joined
  <2> QED BY <2>5
<1>7. ASSUME NEW n \in Nat, n \in S PROVE n + 1 \in S
  <2> DEFINE j == n + 1
  <2>1. SUFFICES ASSUME j + 1 <= m
                 PROVE  Joined(parts, j + 1, w, f[j + 1])
    OBVIOUS
  <2>2. Joined(parts, j, w, f[j])
    BY <1>1, <1>7, <2>1
  <2>3. j \in Nat /\ j # 0
    OBVIOUS
  <2> HIDE DEF j
  <2>4. \A k \in 1..j : Len(parts[k]) = w
    BY <1>1, <1>4, <2>1, <2>3
  <2>5. parts[j + 1] \in Seq(Cell)
    BY <1>1, <1>4, <2>1, <2>3
  <2>6. f[j + 1] = f[j] \o parts[j + 1]
    <3> DEFINE l == j + 1
    <3>1. l \in 1..m /\ l # 1 /\ l - 1 = j
      BY <1>1, <2>1, <2>3
    <3> HIDE DEF l
    <3>2. f[l] = f[l - 1] \o parts[l]
      BY <3>1, <1>5
    <3> QED BY <3>1, <3>2 DEF l
  <2>7. Joined(parts, j + 1, w, f[j] \o parts[j + 1])
    BY <2>2, <2>3, <2>4, <2>5, JoinedNext
  <2> QED BY <2>6, <2>7
<1> HIDE DEF S
<1>8. Nat \subseteq S
  BY <1>6, <1>7, NumbersFrom0
<1>9. m - 1 \in S /\ (m - 1) + 1 = m
  BY <1>1, <1>8
<1>10. Joined(parts, m, w, f[m])
  BY <1>1, <1>9 DEF S
<1> QED BY <1>2, <1>10 DEF m

\* A datagram of the sender.
LEMMA WholeIs ==
    ASSUME NEW d \in Whole
    PROVE  /\ d \in Seq(Cell) /\ Len(d) \in 1..MAX_UDP_GSO_PAYLOAD /\ d # <<>>
           /\ d[1][1] \in Names
           /\ \A i \in DOMAIN d : d[i] = <<d[1][1], i, Len(d)>>
<1>1. PICK p \in Names, n \in 1..MAX_UDP_GSO_PAYLOAD : d = Datagram(p, n)
  BY DEF Whole
<1>2. p \in Nat /\ n \in Nat /\ n > 0
  BY EgressAssumption DEF Names
<1>3. d = [i \in 1..n |-> <<p, i, n>>]
  BY <1>1 DEF Datagram
<1>4. \A i \in 1..n : <<p, i, n>> \in Cell
  BY <1>2 DEF Cell
<1>5. d \in [1..n -> Cell]
  BY <1>3, <1>4
<1>6. d \in Seq(Cell) /\ Len(d) = n /\ DOMAIN d = 1..n
  BY <1>2, <1>5
<1>7. d[1] = <<p, 1, n>>
  BY <1>2, <1>3
<1>8. d[1][1] = p
  BY <1>7
<1>9. \A i \in DOMAIN d : d[i] = <<d[1][1], i, Len(d)>>
  BY <1>3, <1>6, <1>8
<1>10. d # <<>>
  BY <1>2, <1>6
<1> QED BY <1>6, <1>8, <1>9, <1>10

------------------------------------------------------------------------------
(* Packets of sequences                                                    *)

LEMMA ToSetOfConcat ==
    ASSUME NEW T, NEW a \in Seq(T), NEW b \in Seq(T)
    PROVE  ToSet(a \o b) = ToSet(a) \cup ToSet(b)
<1> DEFINE c == a \o b
<1>1. /\ c \in Seq(T)
      /\ Len(c) = Len(a) + Len(b)
      /\ \A i \in 1..Len(a) + Len(b) : c[i] = IF i <= Len(a) THEN a[i] ELSE b[i - Len(a)]
  BY ConcatProperties, Zenon
<1> HIDE DEF c
<1>2. Len(a) \in Nat /\ Len(b) \in Nat
  OBVIOUS
<1>3. DOMAIN c = 1..Len(a) + Len(b) /\ DOMAIN a = 1..Len(a) /\ DOMAIN b = 1..Len(b)
  BY <1>1
<1>4. ASSUME NEW i \in DOMAIN c PROVE c[i] \in ToSet(a) \cup ToSet(b)
  <2>1. CASE i <= Len(a)
    BY <1>1, <1>2, <1>3, <2>1 DEF ToSet
  <2>2. CASE ~(i <= Len(a))
    <3>1. i - Len(a) \in DOMAIN b
      BY <1>2, <1>3, <2>2
    <3> QED BY <1>1, <1>2, <1>3, <2>2, <3>1 DEF ToSet
  <2> QED BY <2>1, <2>2
<1>5. ASSUME NEW i \in DOMAIN a PROVE a[i] \in ToSet(c)
  <2>1. i \in DOMAIN c /\ c[i] = a[i]
    BY <1>1, <1>2, <1>3
  <2> QED BY <2>1 DEF ToSet
<1>6. ASSUME NEW i \in DOMAIN b PROVE b[i] \in ToSet(c)
  <2>1. i + Len(a) \in DOMAIN c /\ c[i + Len(a)] = b[i]
    <3> DEFINE j == i + Len(a)
    <3>1. j \in 1..Len(a) + Len(b) /\ ~(j <= Len(a)) /\ j - Len(a) = i
      BY <1>2, <1>3
    <3> HIDE DEF j
    <3>2. c[j] = b[i]
      BY <1>1, <3>1
    <3> QED BY <1>3, <3>1, <3>2 DEF j
  <2> QED BY <2>1 DEF ToSet
<1>7. ToSet(c) \subseteq ToSet(a) \cup ToSet(b)
  BY <1>4 DEF ToSet
<1>8. ToSet(a) \cup ToSet(b) \subseteq ToSet(c)
  BY <1>5, <1>6 DEF ToSet
<1> QED BY <1>7, <1>8 DEF c

LEMMA PacketsOfConcat ==
    ASSUME NEW a \in Seq(Cell), NEW b \in Seq(Cell)
    PROVE  PacketsIn(a \o b) = PacketsIn(a) \cup PacketsIn(b)
<1>1. ToSet(a \o b) = ToSet(a) \cup ToSet(b)
  BY ToSetOfConcat
<1> QED BY <1>1 DEF PacketsIn

LEMMA CarriedOfConcat ==
    ASSUME NEW a \in Seq(Whole), NEW b \in Seq(Whole)
    PROVE  Carried(a \o b) = Carried(a) \cup Carried(b)
<1>1. ToSet(a \o b) = ToSet(a) \cup ToSet(b)
  BY ToSetOfConcat
<1> QED BY <1>1 DEF Carried

LEMMA NothingCarried == PacketsIn(<<>>) = {} /\ Carried(<<>>) = {}
<1>1. ToSet(<<>>) = {}
  BY DEF ToSet
<1> QED BY <1>1 DEF PacketsIn, Carried

LEMMA OneCarried ==
    ASSUME NEW d
    PROVE  Carried(<<d>>) = PacketsIn(d)
<1>1. ToSet(<<d>>) = {d}
  BY DEF ToSet
<1> QED BY <1>1 DEF Carried

\* Joined datagrams carry what the buffer holds.
LEMMA JoinedCarried ==
    ASSUME NEW parts \in Seq(Whole), NEW w \in Nat, NEW bytes,
           \A k \in 1..Len(parts) : Len(parts[k]) = w,
           Joined(parts, Len(parts), w, bytes)
    PROVE  Carried(parts) \subseteq PacketsIn(bytes)
<1> DEFINE m == Len(parts)
<1>1. m \in Nat /\ DOMAIN parts = 1..m
  OBVIOUS
<1>2. /\ bytes \in Seq(Cell)
      /\ Len(bytes) = IF m = 0 THEN 0 ELSE (m - 1) * w + Len(parts[m])
      /\ \A k \in 1..m : \A i \in 1..Len(parts[k]) : bytes[(k - 1) * w + i] = parts[k][i]
  BY DEF Joined
<1>3. \A k \in 1..m : Len(parts[k]) = w /\ parts[k] \in Whole
  OBVIOUS
<1> HIDE DEF m
<1>4. ASSUME NEW k \in 1..m, NEW i \in 1..w
      PROVE  parts[k][i] \in ToSet(bytes)
  <2> DEFINE a == (k - 1) * w
             b == (m - 1) * w
  <2>1. a \in Nat /\ b \in Nat /\ a <= b
    <3>1. k - 1 \in Nat /\ m - 1 \in Nat /\ k - 1 <= m - 1
      BY <1>1
    <3> QED BY <3>1, MultipleLE
  <2>2. Len(bytes) = b + w
    <3>1. m # 0 /\ m \in 1..m
      BY <1>1
    <3>2. Len(parts[m]) = w
      BY <1>3, <3>1
    <3>3. Len(bytes) = (m - 1) * w + Len(parts[m])
      BY <1>2, <3>1
    <3> QED BY <3>2, <3>3
  <2>3. bytes[a + i] = parts[k][i]
    BY <1>2, <1>3
  <2> HIDE DEF a, b
  <2>4. a + i \in DOMAIN bytes
    BY <1>2, <2>1, <2>2
  <2> QED BY <2>3, <2>4 DEF ToSet
<1>5. ASSUME NEW k \in 1..m PROVE ToSet(parts[k]) \subseteq ToSet(bytes)
  <2>1. parts[k] \in Whole /\ Len(parts[k]) = w
    BY <1>3
  <2>2. DOMAIN parts[k] = 1..w
    BY <2>1, WholeIs
  <2> QED BY <1>4, <2>2 DEF ToSet
<1>6. \A d \in ToSet(parts) : PacketsIn(d) \subseteq PacketsIn(bytes)
  BY <1>1, <1>5 DEF ToSet, PacketsIn
<1> QED BY <1>6 DEF Carried

------------------------------------------------------------------------------
(* The send slab                                                           *)

Backend ==
    [send_buf : Seq(Cell), send_segment_size : 0..MAX_UDP_GSO_PAYLOAD,
     send_segments : Nat, max_gso_segments : Nat]

\* A slab is whole datagrams of one size, joined.
Slab(backend) ==
    /\ backend \in Backend
    /\ \E parts \in Seq(Whole) :
          /\ Len(parts) = backend.send_segments
          /\ \A k \in 1..Len(parts) : Len(parts[k]) = backend.send_segment_size
          /\ Joined(parts, Len(parts), backend.send_segment_size, backend.send_buf)

\* SlabIsSendable, of any backend.
Sendable(backend) ==
    backend.send_segments # 0 =>
        /\ Len(backend.send_buf) + backend.send_segment_size <= MAX_UDP_GSO_PAYLOAD
        /\ backend.send_segments < backend.max_gso_segments

LEMMA SlabFacts ==
    ASSUME NEW b, Slab(b)
    PROVE  /\ b.send_buf \in Seq(Cell)
           /\ b.send_segment_size \in 0..MAX_UDP_GSO_PAYLOAD
           /\ b.send_segments \in Nat /\ b.max_gso_segments \in Nat
           /\ Len(b.send_buf) = b.send_segment_size * b.send_segments
           /\ b.send_segments = 0 => b.send_buf = <<>>
           /\ b.send_segments # 0 => b.send_segment_size > 0
<1>1. /\ b.send_buf \in Seq(Cell)
      /\ b.send_segment_size \in 0..MAX_UDP_GSO_PAYLOAD
      /\ b.send_segments \in Nat /\ b.max_gso_segments \in Nat
  BY DEF Slab, Backend
<1>2. PICK parts \in Seq(Whole) :
          /\ Len(parts) = b.send_segments
          /\ \A k \in 1..Len(parts) : Len(parts[k]) = b.send_segment_size
          /\ Joined(parts, Len(parts), b.send_segment_size, b.send_buf)
  BY DEF Slab
<1> DEFINE w == b.send_segment_size
           m == b.send_segments
<1>3. w \in Nat /\ m \in Nat
  BY <1>1, EgressAssumption
<1>4. Len(b.send_buf) = IF m = 0 THEN 0 ELSE (m - 1) * w + Len(parts[m])
  BY <1>2 DEF Joined
<1>5. m # 0 => Len(parts[m]) = w /\ parts[m] \in Whole
  BY <1>2, <1>3
<1>6. m # 0 => w > 0
  BY <1>5, WholeIs
<1> HIDE DEF m, w
<1>7. CASE m = 0
  <2>1. w * m = 0
    BY <1>3, <1>7
  <2>2. Len(b.send_buf) = 0
    BY <1>4, <1>7
  <2>3. b.send_buf = <<>>
    BY <1>1, <2>2
  <2> QED BY <1>1, <1>7, <2>1, <2>2, <2>3 DEF m, w
<1>8. CASE m # 0
  <2>1. m - 1 \in Nat /\ (m - 1) + 1 = m
    BY <1>3, <1>8
  <2>2. m * w = (m - 1) * w + w
    BY <1>3, <2>1, NextMultiple
  <2>3. w * m = m * w
    BY <1>3
  <2>4. Len(b.send_buf) = w * m
    BY <1>4, <1>5, <1>8, <2>2, <2>3
  <2> QED BY <1>1, <1>6, <1>8, <2>4 DEF m, w
<1> QED BY <1>7, <1>8

\* What the kernel cuts from a slab is the datagrams that were put into it.
LEMMA KernelTakesWhole ==
    ASSUME NEW b, Slab(b), b.send_segments # 0
    PROVE  /\ KernelSegments(b) \in Seq(Whole)
           /\ Carried(KernelSegments(b)) \subseteq PacketsIn(b.send_buf)
<1>1. PICK parts \in Seq(Whole) :
          /\ Len(parts) = b.send_segments
          /\ \A k \in 1..Len(parts) : Len(parts[k]) = b.send_segment_size
          /\ Joined(parts, Len(parts), b.send_segment_size, b.send_buf)
  BY DEF Slab
<1> DEFINE w == b.send_segment_size
           m == b.send_segments
<1>2. w \in Nat /\ w > 0 /\ m \in Nat /\ m # 0 /\ m = Len(parts)
  BY <1>1, SlabFacts, EgressAssumption
<1>3. \A k \in 1..m : parts[k] \in Whole /\ parts[k] \in Seq(Cell) /\ Len(parts[k]) = w
  BY <1>1, <1>2, WholeIs
<1> HIDE DEF m, w
<1>4. KernelSegments(b) = parts
  <2>1. CASE m > 1
    <3>1. Strided(parts, m, w)
      BY <1>2, <1>3 DEF Strided
    <3>2. parts \in Seq(Seq(Cell))
      <4>1. parts \in [1..m -> Seq(Cell)]
        BY <1>2, <1>3
      <4> QED BY <1>2, <4>1
    <3>3. Joined(parts, m, w, b.send_buf)
      BY <1>1, <1>2 DEF w
    <3>4. Pieces(b.send_buf, w) = parts
      BY <1>2, <3>1, <3>2, <3>3, PiecesOfJoined
    <3> QED BY <2>1, <3>4 DEF KernelSegments, m, w
  <2>2. CASE ~(m > 1)
    <3>1. m = 1
      BY <1>2, <2>2
    <3> DEFINE d == parts[1]
               buf == b.send_buf
    <3>2. d \in Seq(Cell) /\ Len(d) = w
      <4>1. 1 \in 1..m
        BY <3>1
      <4> QED BY <1>3, <4>1
    <3>3. Joined(parts, 1, w, buf)
      BY <1>1, <1>2, <3>1 DEF w
    <3>4. buf \in Seq(Cell)
      BY <3>3 DEF Joined
    <3>5. Len(buf) = Len(d)
      <4>1. Len(buf) = (1 - 1) * w + Len(parts[1])
        BY <3>3 DEF Joined
      <4>2. (1 - 1) * w = 0
        BY <1>2
      <4> QED BY <4>1, <4>2, <3>2
    <3>6. ASSUME NEW i \in 1..Len(buf) PROVE buf[i] = d[i]
      <4>1. i \in 1..Len(parts[1]) /\ 1 \in 1..1
        BY <3>5
      <4>2. buf[(1 - 1) * w + i] = parts[1][i]
        BY <3>3, <4>1 DEF Joined
      <4>3. (1 - 1) * w + i = i
        BY <1>2, <4>1
      <4> QED BY <4>2, <4>3
    <3> HIDE DEF d, buf
    <3>7. buf = d
      BY <3>2, <3>4, <3>5, <3>6, SeqEqual
    <3>8. <<d>> = parts
      <4>1. parts \in Seq(Whole) /\ Len(parts) = 1 /\ parts[1] = d
        BY <1>2, <3>1 DEF d
      <4>2. d \in Whole
        BY <4>1
      <4>3. <<d>> \in Seq(Whole) /\ Len(<<d>>) = 1 /\ <<d>>[1] = d
        BY <4>2
      <4>4. \A i \in 1..Len(<<d>>) : <<d>>[i] = parts[i]
        BY <4>1, <4>3
      <4> QED BY <4>1, <4>3, <4>4, SeqEqual
    <3> QED BY <2>2, <3>7, <3>8 DEF KernelSegments, m, buf
  <2> QED BY <2>1, <2>2
<1>5. Carried(parts) \subseteq PacketsIn(b.send_buf)
  BY <1>1, <1>2, JoinedCarried DEF w
<1> QED BY <1>4, <1>5

LEMMA NewIoIsSlab ==
    /\ Slab(NewIo) /\ NewIo.send_segments = 0 /\ NewIo.send_buf = <<>>
    /\ NewIo.max_gso_segments = SocketMaxGso
<1>1. NewIo \in Backend
  BY EgressAssumption DEF NewIo, Backend
<1>2. <<>> \in Seq(Whole) /\ <<>> \in Seq(Cell) /\ Len(<<>>) = 0
  OBVIOUS
<1>3. Joined(<<>>, 0, 0, <<>>)
  BY <1>2 DEF Joined
<1>4. /\ NewIo.send_segments = 0 /\ NewIo.send_buf = <<>> /\ NewIo.send_segment_size = 0
      /\ NewIo.max_gso_segments = SocketMaxGso
  BY DEF NewIo
<1>5. Slab(NewIo)
  <2>1. /\ Len(<<>>) = NewIo.send_segments
        /\ \A k \in 1..Len(<<>>) : Len(<<>>[k]) = NewIo.send_segment_size
        /\ Joined(<<>>, Len(<<>>), NewIo.send_segment_size, NewIo.send_buf)
    BY <1>2, <1>3, <1>4
  <2> QED BY <1>1, <1>2, <2>1 DEF Slab
<1> QED BY <1>4, <1>5

\* clear_send_slab, discard_pending_send.
LEMMA ClearedIsSlab ==
    ASSUME NEW b, Slab(b)
    PROVE  LET c == clear_send_slab(b)
           IN  /\ Slab(c) /\ c.send_segments = 0 /\ c.send_buf = <<>>
               /\ c.max_gso_segments = b.max_gso_segments
<1> DEFINE c == clear_send_slab(b)
<1>1. b \in Backend
  BY DEF Slab
<1>2. c \in Backend
  <2> DEFINE b1 == [b EXCEPT !.send_buf = <<>>]
             b2 == [b1 EXCEPT !.send_segment_size = 0]
             b3 == [b2 EXCEPT !.send_segments = 0]
  <2>1. <<>> \in Seq(Cell) /\ 0 \in 0..MAX_UDP_GSO_PAYLOAD
    BY EgressAssumption
  <2>2. b1 \in Backend
    BY <1>1, <2>1 DEF Backend
  <2> HIDE DEF b1
  <2>3. b2 \in Backend
    BY <2>1, <2>2 DEF Backend
  <2> HIDE DEF b2
  <2>4. b3 \in Backend
    BY <2>3 DEF Backend
  <2>5. c = b3
    BY <1>1 DEF Backend, clear_send_slab, b1, b2
  <2> QED BY <2>4, <2>5
<1>3. /\ c.send_segments = 0 /\ c.send_buf = <<>> /\ c.send_segment_size = 0
      /\ c.max_gso_segments = b.max_gso_segments
  BY <1>1 DEF Backend, clear_send_slab
<1>4. <<>> \in Seq(Whole) /\ <<>> \in Seq(Cell) /\ Len(<<>>) = 0
  OBVIOUS
<1>5. Joined(<<>>, 0, 0, <<>>)
  BY <1>4 DEF Joined
<1> HIDE DEF c
<1>6. Slab(c)
  <2>1. /\ Len(<<>>) = c.send_segments
        /\ \A k \in 1..Len(<<>>) : Len(<<>>[k]) = c.send_segment_size
        /\ Joined(<<>>, Len(<<>>), c.send_segment_size, c.send_buf)
    BY <1>3, <1>4, <1>5
  <2> QED BY <1>2, <1>4, <2>1 DEF Slab
<1> QED BY <1>3, <1>6 DEF c

\* The socket gives up segmentation offload.
LEMMA LimitedIsSlab ==
    ASSUME NEW b, Slab(b), NEW max \in Nat
    PROVE  LET c == [b EXCEPT !.max_gso_segments = max]
           IN  Slab(c) /\ c.send_buf = b.send_buf
<1> DEFINE c == [b EXCEPT !.max_gso_segments = max]
<1>1. b \in Backend
  BY DEF Slab
<1>2. /\ c \in Backend /\ c.send_segments = b.send_segments /\ c.send_buf = b.send_buf
      /\ c.send_segment_size = b.send_segment_size
  BY <1>1 DEF Backend
<1> HIDE DEF c
<1>3. Slab(c)
  BY <1>2 DEF Slab
<1> QED BY <1>2, <1>3 DEF c

\* A datagram of the size of the slab goes behind it.
LEMMA AppendedIsSlab ==
    ASSUME NEW b, Slab(b), NEW d \in Whole,
           b.send_segments = 0 \/ b.send_segment_size = Len(d)
    PROVE  LET c == Appended(b, d)
           IN  /\ Slab(c)
               /\ c.send_segments = b.send_segments + 1
               /\ c.send_segment_size = Len(d)
               /\ c.max_gso_segments = b.max_gso_segments
               /\ PacketsIn(c.send_buf) = PacketsIn(b.send_buf) \cup PacketsIn(d)
<1> DEFINE c == Appended(b, d)
           m == b.send_segments
           w == Len(d)
<1>1. b \in Backend
  BY DEF Slab
<1>2. d \in Seq(Cell) /\ w \in 1..MAX_UDP_GSO_PAYLOAD
  BY WholeIs
<1>3. m \in Nat /\ w \in Nat /\ b.send_buf \in Seq(Cell)
  BY <1>2, SlabFacts, EgressAssumption
<1>4. b.send_buf \o d \in Seq(Cell)
  BY <1>2, <1>3
<1>5. /\ c.send_segments = m + 1 /\ c.send_buf = b.send_buf \o d
      /\ c.send_segment_size = w
      /\ c.max_gso_segments = b.max_gso_segments
  BY <1>1 DEF Backend, Appended
<1>6. c \in Backend
  <2> DEFINE b1 == [b EXCEPT !.send_buf = b.send_buf \o d]
             b2 == [b1 EXCEPT !.send_segments = m + 1]
             b3 == [b2 EXCEPT !.send_segment_size = w]
  <2>1. w \in 0..MAX_UDP_GSO_PAYLOAD /\ m + 1 \in Nat
    BY <1>2, <1>3, EgressAssumption
  <2>2. b1 \in Backend
    BY <1>1, <1>4 DEF Backend
  <2> HIDE DEF b1, w
  <2>3. b2 \in Backend
    BY <2>1, <2>2 DEF Backend
  <2> HIDE DEF b2
  <2>4. b3 \in Backend
    BY <2>1, <2>3 DEF Backend
  <2>5. c = b3
    BY <1>1 DEF Backend, Appended, b1, b2, w
  <2> QED BY <2>4, <2>5
<1>7. PICK parts \in Seq(Whole) :
          /\ Len(parts) = b.send_segments
          /\ \A k \in 1..Len(parts) : Len(parts[k]) = b.send_segment_size
          /\ Joined(parts, Len(parts), b.send_segment_size, b.send_buf)
  BY DEF Slab
<1> DEFINE more == Append(parts, d)
<1>8. /\ more \in Seq(Whole) /\ Len(more) = m + 1 /\ more[m + 1] = d
      /\ \A k \in 1..m : more[k] = parts[k]
  BY <1>7
<1>9. \A k \in 1..m : Len(more[k]) = w
  BY <1>3, <1>7, <1>8
<1>10. Joined(more, m, w, b.send_buf)
  <2>1. CASE m = 0
    <3>1. b.send_buf = <<>>
      BY <2>1, SlabFacts
    <3>2. Len(b.send_buf) = 0
      BY <3>1
    <3> QED BY <1>3, <2>1, <3>2 DEF Joined
  <2>2. CASE m # 0
    <3>1. b.send_segment_size = w
      BY <2>2
    <3>2. Joined(parts, m, w, b.send_buf)
      BY <1>7, <3>1
    <3>3. m \in 1..m
      BY <1>3, <2>2
    <3> HIDE DEF m, w, more
    <3>4. /\ b.send_buf \in Seq(Cell)
          /\ Len(b.send_buf) = IF m = 0 THEN 0 ELSE (m - 1) * w + Len(parts[m])
          /\ \A k \in 1..m : \A i \in 1..Len(parts[k]) :
                b.send_buf[(k - 1) * w + i] = parts[k][i]
      BY <3>2 DEF Joined
    <3>5. more[m] = parts[m] /\ \A k \in 1..m : more[k] = parts[k]
      BY <1>8, <3>3
    <3>6. Len(b.send_buf) = IF m = 0 THEN 0 ELSE (m - 1) * w + Len(more[m])
      BY <3>4, <3>5, Zenon
    <3>7. \A k \in 1..m : \A i \in 1..Len(more[k]) :
                b.send_buf[(k - 1) * w + i] = more[k][i]
      BY <3>4, <3>5, Zenon
    <3> QED BY <3>4, <3>6, <3>7 DEF Joined
  <2> QED BY <2>1, <2>2
<1> HIDE DEF more, m, w, c
<1>11. Joined(more, m + 1, w, b.send_buf \o d)
  <2>1. more[m + 1] \in Seq(Cell)
    BY <1>2, <1>8
  <2>2. Joined(more, m + 1, w, b.send_buf \o more[m + 1])
    BY <1>3, <1>9, <1>10, <2>1, JoinedNext
  <2> QED BY <1>8, <2>2
<1>12. \A k \in 1..m + 1 : Len(more[k]) = w
  BY <1>3, <1>8, <1>9 DEF w
<1>13. Slab(c)
  <2>1. /\ Len(more) = c.send_segments
        /\ \A k \in 1..Len(more) : Len(more[k]) = c.send_segment_size
        /\ Joined(more, Len(more), c.send_segment_size, c.send_buf)
    BY <1>5, <1>8, <1>11, <1>12
  <2> QED BY <1>6, <1>8, <2>1 DEF Slab
<1>14. PacketsIn(c.send_buf) = PacketsIn(b.send_buf) \cup PacketsIn(d)
  BY <1>2, <1>3, <1>5, PacketsOfConcat
<1> QED BY <1>5, <1>13, <1>14 DEF c, m, w

------------------------------------------------------------------------------
(* Attempts                                                                *)

Tried == [io : {b \in Backend : Slab(b)}, out : Seq(Whole), ok : BOOLEAN]

\* The packets that an attempt has sent or still holds.
PacketsOf(try) == PacketsIn(try.io.send_buf) \cup Carried(try.out)

LEMMA TriedIs ==
    ASSUME NEW try \in Tried
    PROVE  Slab(try.io) /\ try.out \in Seq(Whole) /\ try.ok \in BOOLEAN
  BY DEF Tried

LEMMA AttemptIsTried ==
    ASSUME NEW b, Slab(b)
    PROVE  /\ Attempt(b) \in Tried
           /\ Attempt(b).io = b /\ Attempt(b).out = <<>> /\ Attempt(b).ok
<1>1. b \in Backend /\ <<>> \in Seq(Whole)
  BY DEF Slab
<1> QED BY <1>1 DEF Attempt, Tried

LEMMA TriedExcept ==
    ASSUME NEW try \in Tried
    PROVE  /\ \A b : Slab(b) => /\ [try EXCEPT !.io = b] \in Tried
                                /\ [try EXCEPT !.io = b].io = b
                                /\ [try EXCEPT !.io = b].out = try.out
                                /\ [try EXCEPT !.io = b].ok = try.ok
           /\ \A o \in Seq(Whole) : /\ [try EXCEPT !.out = o] \in Tried
                                    /\ [try EXCEPT !.out = o].io = try.io
                                    /\ [try EXCEPT !.out = o].out = o
                                    /\ [try EXCEPT !.out = o].ok = try.ok
           /\ \A x \in BOOLEAN : /\ [try EXCEPT !.ok = x] \in Tried
                                 /\ [try EXCEPT !.ok = x].io = try.io
                                 /\ [try EXCEPT !.ok = x].out = try.out
                                 /\ [try EXCEPT !.ok = x].ok = x
<1>1. ASSUME NEW b, Slab(b)
      PROVE  /\ [try EXCEPT !.io = b] \in Tried
             /\ [try EXCEPT !.io = b].io = b
             /\ [try EXCEPT !.io = b].out = try.out
             /\ [try EXCEPT !.io = b].ok = try.ok
  <2>1. b \in Backend
    BY <1>1 DEF Slab
  <2>2. b \in {c \in Backend : Slab(c)}
    BY <1>1, <2>1
  <2> QED BY <2>2 DEF Tried
<1>2. ASSUME NEW o \in Seq(Whole)
      PROVE  /\ [try EXCEPT !.out = o] \in Tried
             /\ [try EXCEPT !.out = o].io = try.io
             /\ [try EXCEPT !.out = o].out = o
             /\ [try EXCEPT !.out = o].ok = try.ok
  BY DEF Tried
<1>3. ASSUME NEW x \in BOOLEAN
      PROVE  /\ [try EXCEPT !.ok = x] \in Tried
             /\ [try EXCEPT !.ok = x].io = try.io
             /\ [try EXCEPT !.ok = x].out = try.out
             /\ [try EXCEPT !.ok = x].ok = x
  BY DEF Tried
<1> QED BY <1>1, <1>2, <1>3

\* flush_pending sends the slab whole or leaves it; only an error leaves it.
LEMMA FlushTries ==
    ASSUME NEW try \in Tried, NEW t \in flush_pending(try)
    PROVE  /\ t \in Tried
           /\ PacketsOf(t) \subseteq PacketsOf(try)
           /\ t.ok => /\ try.ok /\ t.io.send_segments = 0
                      /\ t.io.max_gso_segments = try.io.max_gso_segments
           /\ try.ok /\ ~t.ok => t.out = try.out
<1> DEFINE b == try.io
<1>1. Slab(b) /\ try.out \in Seq(Whole) /\ try.ok \in BOOLEAN
  BY TriedIs
<1>2. b.send_segments \in Nat /\ b.max_gso_segments \in Nat
  BY <1>1, SlabFacts
<1>3. CASE b.send_segments = 0
  <2>1. t = try
    BY <1>3 DEF flush_pending
  <2> QED BY <1>1, <1>3, <2>1
<1>4. CASE b.send_segments # 0
  <2> DEFINE sent == KernelSegments(b)
             flushed == [try EXCEPT !.io = clear_send_slab(@), !.out = @ \o sent]
             failed(m) == [try EXCEPT !.ok = FALSE, !.io.max_gso_segments = m]
  <2>1. t = flushed \/ \E m \in {b.max_gso_segments, 1} : t = failed(m)
    BY <1>4 DEF flush_pending
  <2>2. CASE t = flushed
    <3> DEFINE c == clear_send_slab(b)
               o == try.out \o sent
               t1 == [try EXCEPT !.io = c]
               t2 == [t1 EXCEPT !.out = o]
    <3>1. Slab(c) /\ c.send_segments = 0 /\ c.send_buf = <<>>
            /\ c.max_gso_segments = b.max_gso_segments
      BY <1>1, ClearedIsSlab
    <3>2. sent \in Seq(Whole) /\ Carried(sent) \subseteq PacketsIn(b.send_buf)
      BY <1>1, <1>4, KernelTakesWhole
    <3> HIDE DEF sent
    <3>3. o \in Seq(Whole) /\ Carried(o) = Carried(try.out) \cup Carried(sent)
      BY <1>1, <3>2, CarriedOfConcat
    <3>4. flushed = t2
      BY DEF Tried
    <3> HIDE DEF c, o, flushed
    <3>5. t1 \in Tried /\ t1.io = c /\ t1.out = try.out /\ t1.ok = try.ok
      BY <3>1, TriedExcept
    <3> HIDE DEF t1
    <3>6. t2 \in Tried /\ t2.io = c /\ t2.out = o /\ t2.ok = try.ok
      BY <3>3, <3>5, TriedExcept
    <3> HIDE DEF t2
    <3>7. t \in Tried /\ t.io = c /\ t.out = o /\ t.ok = try.ok
      BY <2>2, <3>4, <3>6
    <3>8. PacketsOf(t) \subseteq PacketsOf(try)
      BY <3>1, <3>2, <3>3, <3>7, NothingCarried DEF PacketsOf
    <3> QED BY <1>1, <3>1, <3>7, <3>8
  <2>3. ASSUME NEW m \in {b.max_gso_segments, 1}, t = failed(m)
        PROVE  t \in Tried /\ PacketsOf(t) \subseteq PacketsOf(try) /\ ~t.ok /\ t.out = try.out
    <3> DEFINE c == [b EXCEPT !.max_gso_segments = m]
               t1 == [try EXCEPT !.ok = FALSE]
               t2 == [t1 EXCEPT !.io = c]
    <3>1. Slab(c) /\ c.send_buf = b.send_buf
      <4>1. m \in Nat
        BY <1>2
      <4> QED BY <1>1, <4>1, LimitedIsSlab
    <3>2. failed(m) = t2
      BY DEF Tried
    <3> HIDE DEF c
    <3>3. t1 \in Tried /\ t1.io = try.io /\ t1.out = try.out /\ t1.ok = FALSE
      BY TriedExcept
    <3> HIDE DEF t1
    <3>4. t2 \in Tried /\ t2.io = c /\ t2.out = try.out /\ t2.ok = FALSE
      BY <3>1, <3>3, TriedExcept
    <3> HIDE DEF t2
    <3>5. t = t2
      BY <2>3, <3>2
    <3> QED BY <3>1, <3>4, <3>5 DEF PacketsOf
  <2> QED BY <2>1, <2>2, <2>3
<1> QED BY <1>3, <1>4

LEMMA MaxSegments ==
    ASSUME NEW socket_max \in Nat, NEW size \in 1..MAX_UDP_GSO_PAYLOAD
    PROVE  LET max == max_gso_segments_for_size(socket_max, size)
           IN  /\ max \in Nat /\ max >= 1
               /\ max * size <= MAX_UDP_GSO_PAYLOAD
               /\ max <= socket_max \/ max = 1
<1> DEFINE by_payload == MAX_UDP_GSO_PAYLOAD \div size
           by_socket == IF socket_max = 0 THEN 1 ELSE socket_max
           max == max_gso_segments_for_size(socket_max, size)
<1>1. size \in Nat /\ size > 0 /\ size <= MAX_UDP_GSO_PAYLOAD /\ MAX_UDP_GSO_PAYLOAD \in Nat
  BY EgressAssumption
<1>2. by_payload \in Nat /\ by_payload >= 1
  BY <1>1, QuotientIsNat
<1>3. by_socket \in Nat /\ by_socket >= 1 /\ (by_socket <= socket_max \/ by_socket = 1)
  OBVIOUS
<1>4. max = IF by_payload < by_socket THEN by_payload ELSE by_socket
  BY DEF max_gso_segments_for_size
<1> HIDE DEF max, by_socket
<1>5. max \in Nat /\ max >= 1 /\ max <= by_payload
  <2> HIDE DEF by_payload
  <2> QED BY <1>2, <1>3, <1>4
<1>6. max <= socket_max \/ max = 1
  <2> HIDE DEF by_payload
  <2> QED BY <1>2, <1>3, <1>4
<1>7. max * size <= MAX_UDP_GSO_PAYLOAD
  BY <1>1, <1>5, MultipleFits
<1> QED BY <1>5, <1>6, <1>7 DEF max

\* A slab below the limit of its size can take one more.
LEMMA BelowLimitIsSendable ==
    ASSUME NEW b, Slab(b), b.send_segments # 0, NEW socket_max \in Nat,
           b.max_gso_segments = socket_max,
           b.send_segments < max_gso_segments_for_size(socket_max, b.send_segment_size)
    PROVE  Sendable(b)
<1> DEFINE w == b.send_segment_size
           m == b.send_segments
           max == max_gso_segments_for_size(socket_max, w)
<1>1. /\ m \in Nat /\ w \in 1..MAX_UDP_GSO_PAYLOAD /\ w \in Nat
      /\ Len(b.send_buf) = w * m
  BY SlabFacts, EgressAssumption
<1>2. /\ max \in Nat /\ max * w <= MAX_UDP_GSO_PAYLOAD /\ m < max
      /\ max <= socket_max \/ max = 1
  BY <1>1, MaxSegments
<1> HIDE DEF max, m, w
<1>3. m < socket_max
  BY <1>1, <1>2 DEF m
<1>4. (m + 1) * w <= max * w
  BY <1>1, <1>2, MultipleLE
<1>5. (m + 1) * w = m * w + w /\ m * w = w * m /\ m * w \in Nat
  BY <1>1, NextMultiple
<1>6. (m + 1) * w <= MAX_UDP_GSO_PAYLOAD
  <2> DEFINE x == max * w
             y == (m + 1) * w
  <2>1. x \in Nat /\ y \in Nat /\ y <= x /\ x <= MAX_UDP_GSO_PAYLOAD /\ MAX_UDP_GSO_PAYLOAD \in Nat
    BY <1>1, <1>2, <1>4, EgressAssumption
  <2> HIDE DEF x, y
  <2>2. y <= MAX_UDP_GSO_PAYLOAD
    BY <2>1
  <2> QED BY <2>2 DEF y
<1>7. Len(b.send_buf) + w <= MAX_UDP_GSO_PAYLOAD
  BY <1>1, <1>5, <1>6
<1> QED BY <1>3, <1>7 DEF Sendable, m, w

\* What an attempt to send a datagram from backend b may come to.  What fails has not
\* sent the datagram; what succeeds leaves a slab that can take one more.
Delivers(t, b, d) ==
    /\ t \in Tried
    /\ PacketsOf(t) \subseteq PacketsIn(b.send_buf) \cup PacketsIn(d)
    /\ t.ok => Sendable(t.io)
    /\ ~t.ok => Carried(t.out) \subseteq PacketsIn(b.send_buf)

LEMMA send_packet_Delivers ==
    ASSUME NEW b, Slab(b), NEW d \in Whole, NEW t \in send_packet(b, d)
    PROVE  Delivers(t, b, d)
<1> DEFINE w == Len(d)
           max == max_gso_segments_for_size(b.max_gso_segments, w)
           room == IF must_flush_before_append(b, w, max)
                   THEN flush_pending(Attempt(b))
                   ELSE {Attempt(b)}
           longer(try) == [try EXCEPT !.io = Appended(@, d)]
           Then(try) == IF longer(try).io.send_segments >= max
                        THEN flush_pending(longer(try)) ELSE {longer(try)}
<1>1. PICK try \in room : t \in IF try.ok THEN Then(try) ELSE {try}
  BY DEF send_packet
<1>2. w \in 1..MAX_UDP_GSO_PAYLOAD
  BY WholeIs
<1>3. /\ b.max_gso_segments \in Nat /\ b.send_segments \in Nat
      /\ b.send_buf \in Seq(Cell)
  BY SlabFacts
<1>4. max \in Nat
  BY <1>2, <1>3, MaxSegments
<1>5. /\ Attempt(b) \in Tried
      /\ Attempt(b).io = b /\ Attempt(b).out = <<>> /\ Attempt(b).ok
  BY AttemptIsTried
<1>6. PacketsOf(Attempt(b)) = PacketsIn(b.send_buf)
  BY <1>5, NothingCarried DEF PacketsOf
<1> HIDE DEF max, w
<1>7. /\ try \in Tried
      /\ PacketsOf(try) \subseteq PacketsIn(b.send_buf)
      /\ try.ok => /\ try.io.max_gso_segments = b.max_gso_segments
                   /\ try.io.send_segments = 0 \/ try.io.send_segment_size = w
  <2>1. CASE must_flush_before_append(b, w, max)
    <3>1. try \in flush_pending(Attempt(b))
      BY <1>1, <2>1
    <3> HIDE DEF room, Then
    <3> QED BY <1>5, <1>6, <3>1, FlushTries
  <2>2. CASE ~must_flush_before_append(b, w, max)
    <3>1. try = Attempt(b)
      BY <1>1, <2>2
    <3>2. b.send_segments = 0 \/ b.send_segment_size = w
      BY <2>2 DEF must_flush_before_append
    <3> HIDE DEF room, Then
    <3> QED BY <1>5, <1>6, <3>1, <3>2
  <2> QED BY <2>1, <2>2
<1>8. t \in IF try.ok THEN Then(try) ELSE {try}
  BY <1>1
<1> HIDE DEF room
<1>9. CASE ~try.ok
  <2>1. t = try
    BY <1>8, <1>9
  <2> QED BY <1>7, <1>9, <2>1 DEF Delivers, PacketsOf
<1>10. CASE try.ok
  <2> DEFINE c == Appended(try.io, d)
             l == longer(try)
  <2>1. Slab(try.io) /\ try.out \in Seq(Whole)
    BY <1>7, TriedIs
  <2>2. /\ Slab(c)
        /\ c.send_segments = try.io.send_segments + 1
        /\ c.send_segment_size = w
        /\ c.max_gso_segments = b.max_gso_segments
        /\ PacketsIn(c.send_buf) = PacketsIn(try.io.send_buf) \cup PacketsIn(d)
    BY <1>7, <1>10, <2>1, AppendedIsSlab DEF w
  <2>3. l = [try EXCEPT !.io = c]
    BY <1>7 DEF Tried
  <2>4. t \in IF l.io.send_segments >= max THEN flush_pending(l) ELSE {l}
    BY <1>8, <1>10
  <2> HIDE DEF c, l, longer
  <2>5. l \in Tried /\ l.io = c /\ l.out = try.out /\ l.ok
    BY <1>7, <1>10, <2>2, <2>3, TriedExcept
  <2>6. PacketsOf(l) \subseteq PacketsIn(b.send_buf) \cup PacketsIn(d)
    BY <1>7, <2>2, <2>5 DEF PacketsOf
  <2>7. CASE c.send_segments >= max
    <3>1. t \in flush_pending(l)
      BY <2>4, <2>5, <2>7
    <3>2. /\ t \in Tried
          /\ PacketsOf(t) \subseteq PacketsOf(l)
          /\ t.ok => t.io.send_segments = 0
          /\ ~t.ok => t.out = l.out
      BY <2>5, <3>1, FlushTries
    <3>3. t.ok => Sendable(t.io)
      BY <3>2 DEF Sendable
    <3>4. ~t.ok => Carried(t.out) \subseteq PacketsIn(b.send_buf)
      BY <1>7, <2>5, <3>2 DEF PacketsOf
    <3> QED BY <2>6, <3>2, <3>3, <3>4 DEF Delivers
  <2>8. CASE ~(c.send_segments >= max)
    <3>1. t = l
      BY <2>4, <2>5, <2>8
    <3>2. try.io.send_segments \in Nat
      BY <2>1, SlabFacts
    <3>3. c.send_segments # 0 /\ c.send_segments < max
      BY <1>4, <2>2, <2>8, <3>2
    <3>4. Sendable(c)
      BY <1>3, <2>2, <3>3, BelowLimitIsSendable DEF max
    <3> QED BY <2>5, <2>6, <3>1, <3>4 DEF Delivers
  <2> QED BY <2>7, <2>8
<1> QED BY <1>9, <1>10

LEMMA plain_send_packet_Delivers ==
    ASSUME NEW b, Slab(b), Sendable(b), NEW d \in Whole, NEW t \in plain_send_packet(b, d)
    PROVE  Delivers(t, b, d)
<1> DEFINE a == Attempt(b)
<1>1. a \in Tried /\ a.io = b /\ a.out = <<>> /\ a.ok
  BY AttemptIsTried
<1>2. t = [a EXCEPT !.out = <<d>>] \/ t = [a EXCEPT !.ok = FALSE]
  BY DEF plain_send_packet
<1> HIDE DEF a
<1>3. CASE t = [a EXCEPT !.out = <<d>>]
  <2>1. <<d>> \in Seq(Whole)
    OBVIOUS
  <2>2. t \in Tried /\ t.io = b /\ t.out = <<d>> /\ t.ok
    <3> DEFINE o == <<d>>
    <3>1. o \in Seq(Whole) /\ t = [a EXCEPT !.out = o]
      BY <1>3, <2>1
    <3> HIDE DEF o
    <3>2. t \in Tried /\ t.io = b /\ t.out = o /\ t.ok
      BY <1>1, <3>1, TriedExcept
    <3> QED BY <3>2 DEF o
  <2>3. PacketsOf(t) = PacketsIn(b.send_buf) \cup PacketsIn(d)
    BY <2>2, OneCarried DEF PacketsOf
  <2> QED BY <2>2, <2>3 DEF Delivers
<1>4. CASE t = [a EXCEPT !.ok = FALSE]
  <2>1. t \in Tried /\ t.io = b /\ t.out = <<>> /\ ~t.ok
    BY <1>1, <1>4, TriedExcept
  <2>2. PacketsOf(t) = PacketsIn(b.send_buf) /\ Carried(t.out) = {}
    BY <2>1, NothingCarried DEF PacketsOf
  <2> QED BY <2>1, <2>2 DEF Delivers
<1> QED BY <1>2, <1>3, <1>4

LEMMA write_message_Delivers ==
    ASSUME NEW b, Slab(b), Sendable(b), NEW d \in Whole, NEW t \in write_message(b, d)
    PROVE  Delivers(t, b, d)
<1> DEFINE a == Attempt(b)
<1>1. a \in Tried /\ a.io = b /\ a.out = <<>> /\ a.ok
  BY AttemptIsTried
<1>2. \/ t = [a EXCEPT !.ok = FALSE]
      \/ t \in plain_send_packet(b, d)
      \/ t \in send_packet(b, d)
  BY DEF write_message
<1> HIDE DEF a
<1>3. CASE t = [a EXCEPT !.ok = FALSE]
  <2>1. t \in Tried /\ t.io = b /\ t.out = <<>> /\ ~t.ok
    BY <1>1, <1>3, TriedExcept
  <2>2. PacketsOf(t) = PacketsIn(b.send_buf) /\ Carried(t.out) = {}
    BY <2>1, NothingCarried DEF PacketsOf
  <2> QED BY <2>1, <2>2 DEF Delivers
<1> QED BY <1>2, <1>3, plain_send_packet_Delivers, send_packet_Delivers

\* A message that is flushed at once leaves no slab behind, unless it fails.
LEMMA write_message_and_flush_Delivers ==
    ASSUME NEW b, Slab(b), Sendable(b), NEW d \in Whole,
           NEW t \in write_message_and_flush(b, d)
    PROVE  /\ t \in Tried
           /\ PacketsOf(t) \subseteq PacketsIn(b.send_buf) \cup PacketsIn(d)
           /\ t.ok => t.io.send_segments = 0
<1>1. PICK try \in write_message(b, d) : t \in IF try.ok THEN flush_pending(try) ELSE {try}
  BY DEF write_message_and_flush
<1>2. Delivers(try, b, d)
  BY <1>1, write_message_Delivers
<1>3. CASE try.ok
  <2>1. t \in flush_pending(try) /\ try \in Tried
    BY <1>1, <1>2, <1>3 DEF Delivers
  <2>2. /\ t \in Tried
        /\ PacketsOf(t) \subseteq PacketsOf(try)
        /\ t.ok => t.io.send_segments = 0
    BY <2>1, FlushTries
  <2> QED BY <1>2, <2>2 DEF Delivers
<1>4. CASE ~try.ok
  BY <1>1, <1>2, <1>4 DEF Delivers
<1> QED BY <1>3, <1>4

LEMMA ControlIs == Control \in Whole /\ PacketsIn(Control) = {}
<1>1. Control \in Whole
  BY EgressAssumption DEF Control, Whole, Names
<1>2. 0 \notin Packet
  BY EgressAssumption
<1>3. \A c \in ToSet(Control) : c[1] = 0
  BY DEF Control, Datagram, ToSet
<1> QED BY <1>1, <1>2, <1>3 DEF PacketsIn

\* Nothing is pending in a backend without a segment.
LEMMA EmptySlab ==
    ASSUME NEW b, Slab(b), b.send_segments = 0
    PROVE  PacketsIn(b.send_buf) = {} /\ Sendable(b)
  BY SlabFacts, NothingCarried DEF Sendable

------------------------------------------------------------------------------
(* The inductive invariant                                                 *)

\* A datagram on its way.
Sent ==
    [from : {"Peer"}, bytes : Whole]
        \cup [from : {"Stranger"}, bytes : {Datagram(Foreign, ControlSize)}]

NetPackets == Carried([i \in DOMAIN net |-> net[i].bytes])

\* What has left the queue for the UDP path, and is not yet at the other end.
OnUdp == PacketsIn(io.send_buf) \cup NetPackets

LoopTypes ==
    /\ side \in {"Client", "Server"}
    /\ {plain, running, tcp_alive, deferred} \subseteq BOOLEAN
    /\ active \in {"Tcp", "UdpQsp"}
    /\ udp \in {"None", "Active", "Retained"}
    /\ inbox \in Seq(Event) /\ Len(inbox) <= QueueSize
    /\ tcp_write \subseteq Packet

WireTypes ==
    /\ net \in Seq(Sent) /\ Len(net) <= NetSize
    /\ recv_queue \in Seq(Whole)

\* The active path of a running loop has a transport.
ActiveIsOwned == running /\ active = "UdpQsp" => udp = "Active"

\* A slab that was overtaken holds the queue back.
OvertakenIsDeferred == overtakes \in {0, 1} /\ (overtakes # 0 => deferred /\ io.send_segments # 0)

\* A packet is in one place: in one event of the queue, or on the UDP path.
QueueIsApart ==
    /\ \A i \in DOMAIN inbox : PacketsIn(inbox[i].bytes) \cap OnUdp = {}
    /\ \A i, j \in DOMAIN inbox :
          i # j => PacketsIn(inbox[i].bytes) \cap PacketsIn(inbox[j].bytes) = {}

EgressInv ==
    /\ LoopTypes /\ WireTypes
    /\ Slab(io) /\ Sendable(io)
    /\ ActiveIsOwned /\ NothingIsStranded /\ OvertakenIsDeferred
    /\ QueueIsApart /\ NoPacketTwice

LEMMA EgressInvImplies == EgressInv => SlabIsSound /\ DatagramsArriveWhole
<1> SUFFICES ASSUME EgressInv PROVE SlabIsSound /\ DatagramsArriveWhole
  OBVIOUS
<1>1. /\ io.send_segment_size \in 0..MAX_UDP_GSO_PAYLOAD
      /\ io.send_segments \in Nat /\ io.max_gso_segments \in Nat
      /\ Len(io.send_buf) = io.send_segment_size * io.send_segments
  BY SlabFacts DEF EgressInv
<1>2. overtakes \in Nat /\ overtakes <= 1
  BY DEF EgressInv, OvertakenIsDeferred
<1>3. TypeOK
  BY <1>1, <1>2 DEF EgressInv, LoopTypes, WireTypes, TypeOK
<1>4. SlabIsSendable
  BY DEF EgressInv, Sendable, SlabIsSendable
<1>5. SlabIsSound
  BY <1>2, <1>3, <1>4 DEF EgressInv, SlabIsSound, BatchIsOvertakenOnce
<1>6. ASSUME NEW d \in ToSet(recv_queue)
      PROVE  /\ d # <<>> /\ d[1][1] # Foreign
             /\ \A i \in DOMAIN d : d[i] = <<d[1][1], i, Len(d)>>
  <2>1. recv_queue \in Seq(Whole)
    BY DEF EgressInv, WireTypes
  <2>2. d \in Whole
    BY <1>6, <2>1 DEF ToSet
  <2>3. Foreign \notin Names
    BY EgressAssumption DEF Names
  <2> QED BY <2>2, <2>3, WholeIs
<1>7. DatagramsArriveWhole
  BY <1>6 DEF DatagramsArriveWhole
<1> QED BY <1>5, <1>7

LEMMA EgressInit == Init => EgressInv
<1> SUFFICES ASSUME Init PROVE EgressInv
  OBVIOUS
<1>1. /\ side \in {"Client", "Server"} /\ plain \in BOOLEAN /\ running = TRUE /\ tcp_alive = TRUE
      /\ active = "Tcp" /\ udp = "None" /\ io = NewIo /\ deferred = FALSE /\ inbox = <<>>
      /\ overtakes = 0 /\ net = <<>> /\ recv_queue = <<>> /\ tcp_write = {}
  BY DEF Init
<1>2. /\ Slab(NewIo) /\ NewIo.send_segments = 0 /\ Sendable(NewIo)
      /\ PacketsIn(NewIo.send_buf) = {}
  BY NewIoIsSlab, EmptySlab
<1>3. LoopTypes
  <2>1. inbox \in Seq(Event) /\ Len(inbox) <= QueueSize
    <3>1. <<>> \in Seq(Event) /\ Len(<<>>) = 0
      OBVIOUS
    <3> QED BY <1>1, <3>1, EgressAssumption
  <2>2. {plain, running, tcp_alive, deferred} \subseteq BOOLEAN
    BY <1>1
  <2> QED BY <1>1, <2>1, <2>2 DEF LoopTypes
<1>4. WireTypes
  BY <1>1, EgressAssumption DEF WireTypes
<1>5. ActiveIsOwned /\ NothingIsStranded /\ OvertakenIsDeferred
  BY <1>1, <1>2 DEF ActiveIsOwned, NothingIsStranded, OvertakenIsDeferred
<1>6. QueueIsApart
  BY <1>1 DEF QueueIsApart
<1>7. NoPacketTwice
  BY <1>1 DEF NoPacketTwice
<1> QED BY <1>1, <1>2, <1>3, <1>4, <1>5, <1>6, <1>7 DEF EgressInv

\* A step that adds at most these packets to the network.
Reaches(packets) ==
    /\ WireTypes'
    /\ NetPackets' \subseteq NetPackets \cup packets

LEMMA TransmitsReaches ==
    ASSUME WireTypes, NEW out \in Seq(Whole), Transmits(out)
    PROVE  Reaches(Carried(out))
<1> DEFINE more == [i \in DOMAIN out |-> [from |-> "Peer", bytes |-> out[i]]]
           all == net \o more
           upto == IF Len(all) < NetSize THEN Len(all) ELSE NetSize
<1>1. net \in Seq(Sent) /\ Len(net) <= NetSize /\ recv_queue \in Seq(Whole)
  BY DEF WireTypes
<1>2. net' = SubSeq(all, 1, upto) /\ recv_queue' = recv_queue
  BY DEF Transmits
<1>3. /\ more \in Seq(Sent) /\ DOMAIN more = DOMAIN out
      /\ \A i \in DOMAIN more : more[i].bytes = out[i]
  <2>1. \A i \in DOMAIN out : out[i] \in Whole
    OBVIOUS
  <2>2. \A i \in DOMAIN out : [from |-> "Peer", bytes |-> out[i]] \in Sent
    BY <2>1 DEF Sent
  <2>3. Len(out) \in Nat /\ DOMAIN out = 1..Len(out)
    OBVIOUS
  <2>4. more \in [1..Len(out) -> Sent]
    BY <2>2, <2>3
  <2> QED BY <2>3, <2>4
<1> HIDE DEF more
<1>4. all \in Seq(Sent) /\ ToSet(all) = ToSet(net) \cup ToSet(more)
  BY <1>1, <1>3, ToSetOfConcat
<1> HIDE DEF all
<1>5. upto \in Nat /\ upto <= Len(all) /\ upto <= NetSize /\ Len(all) \in Nat
  BY <1>4, EgressAssumption
<1> HIDE DEF upto
<1>6. /\ net' \in Seq(Sent) /\ Len(net') <= NetSize
      /\ \A i \in DOMAIN net' : net'[i] \in ToSet(all)
  <2>1. \A i \in 1..upto : all[i] \in Sent
    BY <1>4, <1>5
  <2>2. /\ net' \in Seq(Sent)
        /\ Len(net') = IF 1 <= upto THEN upto - 1 + 1 ELSE 0
        /\ \A i \in 1..upto - 1 + 1 : net'[i] = all[1 + i - 1]
    BY <1>2, <1>5, <2>1, SubSeqProperties
  <2>3. Len(net') = upto /\ upto - 1 + 1 = upto
    BY <1>5, <2>2
  <2>4. ASSUME NEW i \in DOMAIN net' PROVE net'[i] \in ToSet(all)
    <3>1. i \in 1..upto /\ 1 + i - 1 = i
      BY <2>2, <2>3, <1>5
    <3>2. i \in DOMAIN all
      BY <1>4, <1>5, <3>1
    <3>3. net'[i] = all[i]
      BY <2>2, <2>3, <3>1
    <3> QED BY <3>2, <3>3 DEF ToSet
  <2> QED BY <1>5, <2>2, <2>3, <2>4
<1>7. ASSUME NEW i \in DOMAIN net' PROVE PacketsIn(net'[i].bytes) \subseteq NetPackets \cup Carried(out)
  <2>1. CASE net'[i] \in ToSet(net)
    <3>1. PICK j \in DOMAIN net : net'[i] = net[j]
      BY <2>1 DEF ToSet
    <3> QED BY <3>1 DEF NetPackets, Carried, ToSet
  <2>2. CASE net'[i] \in ToSet(more)
    <3>1. PICK j \in DOMAIN more : net'[i] = more[j]
      BY <2>2 DEF ToSet
    <3>2. net'[i].bytes = out[j] /\ j \in DOMAIN out
      BY <1>3, <3>1
    <3> QED BY <3>2 DEF Carried, ToSet
  <2> QED BY <1>4, <1>6, <2>1, <2>2
<1>8. NetPackets' \subseteq NetPackets \cup Carried(out)
  BY <1>7 DEF NetPackets, Carried, ToSet
<1> QED BY <1>1, <1>2, <1>6, <1>8 DEF Reaches, WireTypes

LEMMA UnchangedReaches ==
    ASSUME WireTypes, UNCHANGED wireVars
    PROVE  Reaches({})
  BY DEF Reaches, WireTypes, NetPackets, wireVars

\* What a step takes from the queue.
Takes(scheduling) == scheduling \in {"NonBatchingTun", "BatchablePacket"}
TakenBy(scheduling) == IF Takes(scheduling) THEN PacketsIn(Head(inbox).bytes) ELSE {}

\* A step hands on what it took, and writes it to TCP only if it is not on UDP.
HandsOn(scheduling, written, packets) ==
    /\ PacketsIn(io'.send_buf) \cup packets \subseteq PacketsIn(io.send_buf) \cup TakenBy(scheduling)
    /\ written \subseteq TakenBy(scheduling)
    /\ written # {} => PacketsIn(io'.send_buf) \cup packets \subseteq PacketsIn(io.send_buf)

\* The paths after a step that goes on.
PathsAgree ==
    /\ tcp_alive' \in BOOLEAN /\ active' \in {"Tcp", "UdpQsp"}
    /\ udp' \in {"None", "Active", "Retained"}
    /\ Slab(io') /\ Sendable(io')
    /\ active' = "UdpQsp" => udp' = "Active"
    /\ io'.send_segments # 0 => active' = "UdpQsp"

\* What the end of an iteration needs: an event that adds nothing leaves a slab only
\* if it was pending, and a flush leaves none.
Schedules(scheduling) ==
    /\ scheduling \in {"UdpFlush", "BatchablePacket", "NonBatchingTun", "Unchanged"}
    /\ Takes(scheduling) => inbox # <<>> /\ ~deferred
    /\ scheduling = "NonBatchingTun" /\ io'.send_segments # 0 => has_pending_udp_flush
    /\ scheduling = "UdpFlush" => io'.send_segments = 0

LEMMA HeadIs ==
    ASSUME LoopTypes, inbox # <<>>
    PROVE  /\ Head(inbox) \in Event /\ Head(inbox) = inbox[1] /\ 1 \in DOMAIN inbox
           /\ Tail(inbox) \in Seq(Event) /\ Len(Tail(inbox)) <= QueueSize
           /\ DOMAIN Tail(inbox) = 1..Len(inbox) - 1
           /\ \A i \in DOMAIN Tail(inbox) : i + 1 \in DOMAIN inbox /\ Tail(inbox)[i] = inbox[i + 1]
<1>1. inbox \in Seq(Event) /\ Len(inbox) <= QueueSize /\ QueueSize \in Nat
  BY EgressAssumption DEF LoopTypes
<1>2. Len(inbox) \in Nat /\ Len(inbox) # 0 /\ DOMAIN inbox = 1..Len(inbox)
  BY <1>1
<1>3. /\ Tail(inbox) \in Seq(Event) /\ Len(Tail(inbox)) = Len(inbox) - 1
      /\ \A i \in 1..Len(Tail(inbox)) : Tail(inbox)[i] = inbox[i + 1]
  BY <1>1, HeadTailProperties
<1>4. DOMAIN Tail(inbox) = 1..Len(inbox) - 1
  BY <1>3
<1>5. Head(inbox) = inbox[1] /\ 1 \in DOMAIN inbox /\ inbox[1] \in Event
  BY <1>1, <1>2
<1>6. \A i \in DOMAIN Tail(inbox) : i + 1 \in DOMAIN inbox
  BY <1>2, <1>4
<1>7. Len(Tail(inbox)) <= QueueSize
  BY <1>1, <1>2, <1>3
<1>8. \A i \in DOMAIN Tail(inbox) : Tail(inbox)[i] = inbox[i + 1]
  BY <1>3, <1>4
<1> QED BY <1>3, <1>4, <1>5, <1>6, <1>7, <1>8

\* An iteration of the loop that goes on keeps the invariant.
LEMMA ContinuesKeeps ==
    ASSUME EgressInv, running, NEW scheduling, NEW written, NEW packets,
           Continues(scheduling, written),
           Reaches(packets), PathsAgree, Schedules(scheduling),
           HandsOn(scheduling, written, packets)
    PROVE  EgressInv'
<1>1. LoopTypes /\ WireTypes /\ OvertakenIsDeferred /\ QueueIsApart
  BY DEF EgressInv
<1>2. /\ deferred' = defer_tun(scheduling, deferred, has_pending_udp_flush, has_pending_udp_flush')
      /\ overtakes' = IF io'.send_segments = 0 THEN 0
                      ELSE IF scheduling = "NonBatchingTun" /\ overtakes < 2 THEN overtakes + 1
                      ELSE overtakes
      /\ inbox' = IF Takes(scheduling) THEN Tail(inbox) ELSE inbox
      /\ tcp_write' = written
      /\ side' = side /\ plain' = plain /\ running' = running
  BY DEF Continues, Takes
<1>3. scheduling \in {"UdpFlush", "BatchablePacket", "NonBatchingTun", "Unchanged"}
  BY DEF Schedules
<1>4. Takes(scheduling) => inbox # <<>> /\ ~deferred
  BY DEF Schedules
<1>5. io'.send_segments # 0 => has_pending_udp_flush'
  BY DEF PathsAgree, has_pending_udp_flush
<1>6. has_pending_udp_flush \in BOOLEAN /\ has_pending_udp_flush' \in BOOLEAN
  BY DEF has_pending_udp_flush
<1>7. deferred \in BOOLEAN
  BY <1>1 DEF LoopTypes
<1>8. deferred' \in BOOLEAN
  BY <1>2, <1>3, <1>6, <1>7 DEF defer_tun
<1>9. TakenBy(scheduling) \subseteq Packet
  BY DEF TakenBy, PacketsIn
<1>10. LoopTypes'
  <2>1. inbox' \in Seq(Event) /\ Len(inbox') <= QueueSize
    BY <1>1, <1>2, <1>4, HeadIs DEF LoopTypes
  <2>2. tcp_write' \subseteq Packet
    BY <1>2, <1>9 DEF HandsOn
  <2>3. side' \in {"Client", "Server"} /\ plain' \in BOOLEAN /\ running' \in BOOLEAN
    BY <1>1, <1>2 DEF LoopTypes
  <2> QED BY <1>8, <2>1, <2>2, <2>3 DEF LoopTypes, PathsAgree
<1>11. ActiveIsOwned'
  BY DEF ActiveIsOwned, PathsAgree
<1>12. NothingIsStranded'
  BY <1>5 DEF NothingIsStranded
<1>13. OvertakenIsDeferred'
  <2>1. overtakes \in {0, 1} /\ (overtakes # 0 => deferred)
    BY <1>1 DEF OvertakenIsDeferred
  <2>2. CASE io'.send_segments = 0
    BY <1>2, <2>2 DEF OvertakenIsDeferred
  <2>3. CASE io'.send_segments # 0
    <3>1. has_pending_udp_flush'
      BY <1>5, <2>3
    <3>2. CASE scheduling = "UdpFlush"
      BY <2>3, <3>2 DEF Schedules
    <3>3. CASE scheduling = "BatchablePacket"
      <4>1. overtakes = 0
        BY <1>4, <2>1, <3>3 DEF Takes
      <4>2. overtakes' = 0
        BY <1>2, <2>3, <3>3, <4>1
      <4> QED BY <4>2 DEF OvertakenIsDeferred
    <3>4. CASE scheduling = "NonBatchingTun"
      <4>1. overtakes = 0
        BY <1>4, <2>1, <3>4 DEF Takes
      <4>2. overtakes' = 1
        BY <1>2, <2>3, <3>4, <4>1
      <4>3. deferred' = (has_pending_udp_flush /\ has_pending_udp_flush')
        BY <1>2, <3>4 DEF defer_tun
      <4>4. has_pending_udp_flush
        BY <2>3, <3>4 DEF Schedules
      <4>5. deferred'
        BY <3>1, <4>3, <4>4, ZenonT(60)
      <4> QED BY <2>3, <4>2, <4>5 DEF OvertakenIsDeferred
    <3>5. CASE scheduling = "Unchanged"
      <4>1. overtakes' = overtakes
        BY <1>2, <2>3, <3>5
      <4>2. deferred' = (deferred /\ has_pending_udp_flush')
        BY <1>2, <3>5 DEF defer_tun
      <4>3. overtakes # 0 => deferred'
        BY <2>1, <3>1, <4>2
      <4> QED BY <2>1, <2>3, <4>1, <4>3 DEF OvertakenIsDeferred
    <3> QED BY <1>3, <3>2, <3>3, <3>4, <3>5
  <2> QED BY <2>2, <2>3
<1>14. OnUdp' \subseteq OnUdp \cup TakenBy(scheduling)
  BY DEF OnUdp, Reaches, HandsOn
<1>15. QueueIsApart'
  <2>1. /\ \A i \in DOMAIN inbox : PacketsIn(inbox[i].bytes) \cap OnUdp = {}
        /\ \A i, j \in DOMAIN inbox :
              i # j => PacketsIn(inbox[i].bytes) \cap PacketsIn(inbox[j].bytes) = {}
    BY <1>1 DEF QueueIsApart
  <2>2. CASE Takes(scheduling)
    <3>1. /\ inbox' = Tail(inbox) /\ 1 \in DOMAIN inbox
          /\ TakenBy(scheduling) = PacketsIn(inbox[1].bytes)
      BY <1>1, <1>2, <1>4, <2>2, HeadIs DEF TakenBy
    <3>2. /\ DOMAIN inbox' = 1..Len(inbox) - 1
          /\ \A i \in DOMAIN inbox' : i + 1 \in DOMAIN inbox /\ inbox'[i] = inbox[i + 1]
      BY <1>1, <1>4, <2>2, <3>1, HeadIs
    <3>3. ASSUME NEW i \in DOMAIN inbox'
          PROVE  PacketsIn(inbox'[i].bytes) \cap OnUdp' = {}
      <4>1. i + 1 \in DOMAIN inbox /\ inbox'[i] = inbox[i + 1] /\ i + 1 # 1
        BY <3>2
      <4>2. PacketsIn(inbox'[i].bytes) \cap OnUdp = {}
        BY <2>1, <4>1
      <4>3. PacketsIn(inbox'[i].bytes) \cap PacketsIn(inbox[1].bytes) = {}
        BY <2>1, <3>1, <4>1
      <4> QED BY <1>14, <3>1, <4>2, <4>3
    <3>4. ASSUME NEW i \in DOMAIN inbox', NEW j \in DOMAIN inbox', i # j
          PROVE  PacketsIn(inbox'[i].bytes) \cap PacketsIn(inbox'[j].bytes) = {}
      <4>1. /\ i + 1 \in DOMAIN inbox /\ inbox'[i] = inbox[i + 1]
            /\ j + 1 \in DOMAIN inbox /\ inbox'[j] = inbox[j + 1]
        BY <3>2
      <4>2. i + 1 # j + 1
        BY <3>2, <3>4
      <4> QED BY <2>1, <4>1, <4>2
    <3> QED BY <3>3, <3>4 DEF QueueIsApart
  <2>3. CASE ~Takes(scheduling)
    <3>1. inbox' = inbox /\ TakenBy(scheduling) = {}
      BY <1>2, <2>3 DEF TakenBy
    <3>2. OnUdp' \subseteq OnUdp
      BY <1>14, <3>1
    <3> QED BY <2>1, <3>1, <3>2 DEF QueueIsApart
  <2> QED BY <2>2, <2>3
<1>16. NoPacketTwice'
  <2>1. NoPacketTwice' <=> tcp_write' \cap OnUdp' = {}
    BY DEF NoPacketTwice, OnUdp, NetPackets
  <2>2. CASE written = {}
    BY <1>2, <2>1, <2>2
  <2>3. CASE written # {}
    <3>1. OnUdp' \subseteq OnUdp
      BY <2>3 DEF OnUdp, Reaches, HandsOn
    <3>2. Takes(scheduling) /\ written \subseteq PacketsIn(Head(inbox).bytes)
      BY <2>3 DEF HandsOn, TakenBy
    <3>3. 1 \in DOMAIN inbox /\ written \subseteq PacketsIn(inbox[1].bytes)
      BY <1>1, <1>4, <3>2, HeadIs
    <3>4. PacketsIn(inbox[1].bytes) \cap OnUdp = {}
      BY <1>1, <3>3 DEF QueueIsApart
    <3> QED BY <1>2, <2>1, <3>1, <3>3, <3>4
  <2> QED BY <2>2, <2>3
<1> QED BY <1>10, <1>11, <1>12, <1>13, <1>15, <1>16 DEF EgressInv, Reaches, PathsAgree

------------------------------------------------------------------------------
(* The outcomes of a step                                                  *)

LEMMA EndsKeeps ==
    ASSUME EgressInv, NEW last \in Tried, Ends(last)
    PROVE  EgressInv'
<1> DEFINE pending == IF side = "Client" /\ (active # "UdpQsp" \/ udp # "Active")
                      THEN {last} ELSE flush_pending([last EXCEPT !.ok = TRUE])
<1>1. PICK final \in pending :
            /\ Transmits(final.out)
            /\ running' = FALSE
            /\ io' = NewIo /\ udp' = "None" /\ inbox' = <<>>
            /\ deferred' = FALSE /\ overtakes' = 0
            /\ tcp_write' = {}
            /\ side' = side /\ plain' = plain /\ tcp_alive' = tcp_alive /\ active' = active
  BY DEF Ends
<1>2. final \in Tried
  <2>1. [last EXCEPT !.ok = TRUE] \in Tried
    BY TriedExcept
  <2> QED BY <1>1, <2>1, FlushTries
<1> HIDE DEF pending
<1>3. final.out \in Seq(Whole)
  BY <1>2, TriedIs
<1>4. Reaches(Carried(final.out))
  BY <1>1, <1>3, TransmitsReaches DEF EgressInv
<1>5. /\ Slab(NewIo) /\ NewIo.send_segments = 0 /\ Sendable(NewIo)
  BY NewIoIsSlab, EmptySlab
<1>6. LoopTypes'
  <2>1. inbox' \in Seq(Event) /\ Len(inbox') <= QueueSize
    <3>1. <<>> \in Seq(Event) /\ Len(<<>>) = 0
      OBVIOUS
    <3> QED BY <1>1, <3>1, EgressAssumption
  <2>2. {plain', running', tcp_alive', deferred'} \subseteq BOOLEAN
    BY <1>1 DEF EgressInv, LoopTypes
  <2>3. /\ side' \in {"Client", "Server"} /\ active' \in {"Tcp", "UdpQsp"}
        /\ udp' \in {"None", "Active", "Retained"} /\ tcp_write' \subseteq Packet
    BY <1>1 DEF EgressInv, LoopTypes
  <2> QED BY <2>1, <2>2, <2>3 DEF LoopTypes
<1>7. ActiveIsOwned' /\ NothingIsStranded' /\ OvertakenIsDeferred'
  BY <1>1, <1>5 DEF ActiveIsOwned, NothingIsStranded, OvertakenIsDeferred
<1>8. QueueIsApart'
  BY <1>1 DEF QueueIsApart
<1>9. NoPacketTwice'
  BY <1>1 DEF NoPacketTwice
<1>10. Slab(io)' /\ Sendable(io)'
  BY <1>1, <1>5
<1> QED BY <1>4, <1>6, <1>7, <1>8, <1>9, <1>10 DEF EgressInv, Reaches

\* A step of this kind may be taken.
Due(scheduling) ==
    /\ scheduling \in {"UdpFlush", "BatchablePacket", "NonBatchingTun", "Unchanged"}
    /\ Takes(scheduling) => inbox # <<>> /\ ~deferred

LEMMA WritesTcpKeeps ==
    ASSUME EgressInv, running, NEW scheduling, Due(scheduling),
           NEW packets, packets \subseteq TakenBy(scheduling),
           NEW now_udp \in {"None", "Active", "Retained"},
           NEW backend, Slab(backend), backend.send_segments = 0,
           NEW out \in Seq(Whole), Carried(out) \subseteq PacketsIn(io.send_buf),
           WritesTcp(packets, now_udp, backend, out, scheduling)
    PROVE  EgressInv'
<1>1. /\ active' = "Tcp" /\ udp' = now_udp /\ io' = backend /\ tcp_alive' = tcp_alive
      /\ Transmits(out) /\ Continues(scheduling, packets)
  BY DEF WritesTcp
<1>2. PacketsIn(io'.send_buf) = {} /\ Sendable(io') /\ Slab(io') /\ io'.send_segments = 0
  BY <1>1, EmptySlab
<1>3. Reaches(Carried(out))
  BY <1>1, TransmitsReaches DEF EgressInv
<1>4. tcp_alive' \in BOOLEAN
  BY <1>1 DEF EgressInv, LoopTypes
<1>5. PathsAgree
  BY <1>1, <1>2, <1>4 DEF PathsAgree
<1>6. Schedules(scheduling)
  BY <1>2 DEF Schedules, Due
<1>7. HandsOn(scheduling, packets, Carried(out))
  BY <1>2 DEF HandsOn
<1> QED BY <1>1, <1>3, <1>5, <1>6, <1>7, ContinuesKeeps

LEMMA UdpFailsKeeps ==
    ASSUME EgressInv, running, NEW scheduling, Due(scheduling),
           NEW retried, retried \subseteq TakenBy(scheduling),
           NEW try \in Tried, Carried(try.out) \subseteq PacketsIn(io.send_buf),
           UdpFails(try, retried, scheduling)
    PROVE  EgressInv'
<1>1. try.out \in Seq(Whole)
  BY TriedIs
<1>2. /\ Slab(NewIo) /\ NewIo.send_segments = 0 /\ Sendable(NewIo)
      /\ PacketsIn(NewIo.send_buf) = {}
  BY NewIoIsSlab, EmptySlab
<1>3. CASE /\ udp = "Retained"
           /\ udp' = "None" /\ io' = NewIo
           /\ Transmits(try.out)
           /\ UNCHANGED <<tcp_alive, active>>
           /\ Continues(scheduling, {})
  <2>1. Reaches(Carried(try.out))
    BY <1>1, <1>3, TransmitsReaches DEF EgressInv
  <2>2. active # "UdpQsp"
    BY <1>3 DEF EgressInv, ActiveIsOwned
  <2>3. tcp_alive' \in BOOLEAN /\ active' \in {"Tcp", "UdpQsp"} /\ active' # "UdpQsp"
    BY <1>3, <2>2 DEF EgressInv, LoopTypes
  <2>4. PathsAgree
    BY <1>2, <1>3, <2>3 DEF PathsAgree
  <2>5. Schedules(scheduling)
    BY <1>2, <1>3 DEF Schedules, Due
  <2>6. HandsOn(scheduling, {}, Carried(try.out))
    BY <1>2, <1>3 DEF HandsOn
  <2> QED BY <1>3, <2>1, <2>4, <2>5, <2>6, ContinuesKeeps
<1>4. CASE WritesTcp(retried, "None", NewIo, try.out, scheduling)
  BY <1>1, <1>2, <1>4, WritesTcpKeeps
<1>5. CASE Ends(try)
  BY <1>5, EndsKeeps
<1>6. CASE Ends([try EXCEPT !.io = NewIo])
  <2>1. [try EXCEPT !.io = NewIo] \in Tried
    BY <1>2, TriedExcept
  <2> QED BY <1>6, <2>1, EndsKeeps
<1> QED BY <1>3, <1>4, <1>5, <1>6 DEF UdpFails

LEMMA SendsUdpKeeps ==
    ASSUME EgressInv, running, NEW scheduling, Due(scheduling),
           NEW retried, retried \subseteq TakenBy(scheduling),
           NEW attempts,
           \A t \in attempts :
              /\ t \in Tried
              /\ t.ok => /\ Sendable(t.io)
                         /\ PacketsOf(t) \subseteq PacketsIn(io.send_buf) \cup TakenBy(scheduling)
                         /\ t.io.send_segments # 0 => active = "UdpQsp" /\ scheduling = "BatchablePacket"
              /\ ~t.ok => Carried(t.out) \subseteq PacketsIn(io.send_buf),
           SendsUdp(attempts, retried, scheduling)
    PROVE  EgressInv'
<1>1. PICK try \in attempts :
        \/ /\ try.ok
           /\ io' = try.io
           /\ Transmits(try.out)
           /\ UNCHANGED <<tcp_alive, active, udp>>
           /\ Continues(scheduling, {})
        \/ ~try.ok /\ UdpFails(try, retried, scheduling)
  BY DEF SendsUdp
<1>2. try \in Tried /\ Slab(try.io) /\ try.out \in Seq(Whole)
  BY TriedIs
<1>3. CASE /\ try.ok
           /\ io' = try.io
           /\ Transmits(try.out)
           /\ UNCHANGED <<tcp_alive, active, udp>>
           /\ Continues(scheduling, {})
  <2>1. Reaches(Carried(try.out))
    BY <1>2, <1>3, TransmitsReaches DEF EgressInv
  <2>2. /\ Sendable(try.io)
        /\ PacketsOf(try) \subseteq PacketsIn(io.send_buf) \cup TakenBy(scheduling)
        /\ try.io.send_segments # 0 => active = "UdpQsp" /\ scheduling = "BatchablePacket"
    BY <1>3
  <2>3. PathsAgree
    BY <1>2, <1>3, <2>2 DEF PathsAgree, EgressInv, LoopTypes, ActiveIsOwned
  <2>4. Schedules(scheduling)
    BY <1>3, <2>2 DEF Schedules, Due
  <2>5. HandsOn(scheduling, {}, Carried(try.out))
    BY <1>3, <2>2 DEF HandsOn, PacketsOf
  <2> QED BY <1>3, <2>1, <2>3, <2>4, <2>5, ContinuesKeeps
<1>4. CASE ~try.ok /\ UdpFails(try, retried, scheduling)
  BY <1>2, <1>4, UdpFailsKeeps
<1> QED BY <1>1, <1>3, <1>4

LEMMA SendsControlKeeps ==
    ASSUME EgressInv, running, NEW scheduling, Due(scheduling), SendsControl(scheduling)
    PROVE  EgressInv'
<1> DEFINE attempts == write_message_and_flush(io, Control)
<1>1. SendsUdp(attempts, {}, scheduling)
  BY DEF SendsControl
<1>2. Slab(io) /\ Sendable(io)
  BY DEF EgressInv
<1>3. ASSUME NEW t \in attempts
      PROVE  /\ t \in Tried
             /\ PacketsOf(t) \subseteq PacketsIn(io.send_buf)
             /\ t.ok => t.io.send_segments = 0
  BY <1>2, ControlIs, write_message_and_flush_Delivers
<1>4. ASSUME NEW t \in attempts
      PROVE  /\ t \in Tried
             /\ t.ok => /\ Sendable(t.io)
                        /\ PacketsOf(t) \subseteq PacketsIn(io.send_buf) \cup TakenBy(scheduling)
                        /\ t.io.send_segments # 0 => active = "UdpQsp" /\ scheduling = "BatchablePacket"
             /\ ~t.ok => Carried(t.out) \subseteq PacketsIn(io.send_buf)
  BY <1>3 DEF Sendable, PacketsOf
<1> HIDE DEF attempts
<1> QED BY <1>1, <1>4, SendsUdpKeeps

LEMMA IgnoresKeeps ==
    ASSUME EgressInv, running, NEW scheduling, Due(scheduling), scheduling # "UdpFlush",
           Ignores(scheduling)
    PROVE  EgressInv'
<1>1. /\ tcp_alive' = tcp_alive /\ active' = active /\ udp' = udp /\ io' = io
      /\ UNCHANGED wireVars /\ Continues(scheduling, {})
  BY DEF Ignores
<1>2. Reaches({})
  BY <1>1, UnchangedReaches DEF EgressInv
<1>3. io.send_segments # 0 => has_pending_udp_flush
  BY DEF EgressInv, NothingIsStranded
<1>4. PathsAgree
  BY <1>1, <1>3 DEF PathsAgree, EgressInv, LoopTypes, ActiveIsOwned, has_pending_udp_flush
<1>5. Schedules(scheduling)
  BY <1>1, <1>3 DEF Schedules, Due
<1>6. HandsOn(scheduling, {}, {})
  BY <1>1 DEF HandsOn
<1> QED BY <1>1, <1>2, <1>4, <1>5, <1>6, ContinuesKeeps

\* A step after which nothing is pending.
LEMMA EmptyPathKeeps ==
    ASSUME EgressInv, running, NEW scheduling, Due(scheduling),
           NEW packets, packets \subseteq PacketsIn(io.send_buf),
           Slab(io'), io'.send_segments = 0, Reaches(packets),
           tcp_alive' \in BOOLEAN, active' \in {"Tcp", "UdpQsp"},
           udp' \in {"None", "Active", "Retained"},
           active' = "UdpQsp" => udp' = "Active",
           Continues(scheduling, {})
    PROVE  EgressInv'
<1>1. PacketsIn(io'.send_buf) = {} /\ Sendable(io')
  BY EmptySlab
<1>2. PathsAgree
  BY <1>1 DEF PathsAgree
<1>3. Schedules(scheduling)
  BY DEF Schedules, Due
<1>4. HandsOn(scheduling, {}, packets)
  BY <1>1 DEF HandsOn
<1> QED BY <1>2, <1>3, <1>4, ContinuesKeeps

LEMMA NothingPendingOnTcp ==
    ASSUME EgressInv, active = "Tcp"
    PROVE  io.send_segments = 0
  BY DEF EgressInv, NothingIsStranded, has_pending_udp_flush

LEMMA EndsNowKeeps ==
    ASSUME EgressInv, NEW b, Slab(b), Ends(Attempt(b))
    PROVE  EgressInv'
  BY AttemptIsTried, EndsKeeps

------------------------------------------------------------------------------
(* The actions                                                             *)

LEMMA EventIs ==
    ASSUME NEW event \in Event, event.kind = "TunPacket"
    PROVE  event.bytes \in Whole
<1>1. event \in [kind : {"TunPacket"}, bytes : {Datagram(p, n) : p \in Packet, n \in Sizes}]
  BY DEF Event
<1>2. PICK p \in Packet, n \in Sizes : event.bytes = Datagram(p, n)
  BY <1>1
<1>3. n \in 1..MAX_UDP_GSO_PAYLOAD
  BY EgressAssumption
<1> QED BY <1>2, <1>3 DEF Whole, Names

LEMMA TakeEventKeeps ==
    ASSUME EgressInv, TakeEvent
    PROVE  EgressInv'
<1> DEFINE event == Head(inbox)
           s == tun_scheduling(event)
<1>1. running /\ ~deferred /\ inbox # <<>> /\ (handle_tun_packet(event) \/ handle_udp_claim(event))
  BY DEF TakeEvent
<1>2. event \in Event
  BY <1>1, HeadIs DEF EgressInv
<1>3. /\ Due(s) /\ s # "UdpFlush" /\ TakenBy(s) = PacketsIn(event.bytes)
      /\ s = IF event.kind = "TunPacket" /\ active = "UdpQsp"
             THEN "BatchablePacket" ELSE "NonBatchingTun"
  BY <1>1 DEF tun_scheduling, Due, Takes, TakenBy
<1>4. Slab(io) /\ Sendable(io)
  BY DEF EgressInv
<1>5. active \in {"Tcp", "UdpQsp"} /\ udp \in {"None", "Active", "Retained"}
  BY DEF EgressInv, LoopTypes
<1> HIDE DEF event, s
<1>6. CASE Ignores(s)
  BY <1>1, <1>3, <1>6, IgnoresKeeps
<1>7. CASE SendsControl(s)
  BY <1>1, <1>3, <1>7, SendsControlKeeps
<1>8. CASE event.kind = "TunPacket" /\ active = "Tcp" /\ Ends(Attempt(io))
  BY <1>4, <1>8, EndsNowKeeps
<1>9. CASE /\ event.kind = "TunPacket" /\ active = "Tcp"
           /\ WritesTcp(PacketsIn(event.bytes), udp, io, <<>>, s)
  <2>1. io.send_segments = 0
    BY <1>9, NothingPendingOnTcp
  <2>2. <<>> \in Seq(Whole) /\ Carried(<<>>) \subseteq PacketsIn(io.send_buf)
    BY NothingCarried
  <2> QED BY <1>1, <1>3, <1>4, <1>5, <1>9, <2>1, <2>2, WritesTcpKeeps
<1>10. CASE /\ event.kind = "TunPacket" /\ active = "UdpQsp"
            /\ SendsUdp(write_message(io, event.bytes), PacketsIn(event.bytes), s)
  <2> DEFINE attempts == write_message(io, event.bytes)
  <2>1. event.bytes \in Whole
    BY <1>2, <1>10, EventIs
  <2>2. s = "BatchablePacket"
    BY <1>3, <1>10
  <2>3. ASSUME NEW t \in attempts
        PROVE  /\ t \in Tried
               /\ t.ok => /\ Sendable(t.io)
                          /\ PacketsOf(t) \subseteq PacketsIn(io.send_buf) \cup TakenBy(s)
                          /\ t.io.send_segments # 0 => active = "UdpQsp" /\ s = "BatchablePacket"
               /\ ~t.ok => Carried(t.out) \subseteq PacketsIn(io.send_buf)
    <3>1. Delivers(t, io, event.bytes)
      BY <1>4, <2>1, write_message_Delivers
    <3> QED BY <1>3, <1>10, <2>2, <3>1 DEF Delivers
  <2>4. SendsUdp(attempts, PacketsIn(event.bytes), s)
    BY <1>10
  <2> HIDE DEF attempts
  <2> QED BY <1>1, <1>3, <2>3, <2>4, SendsUdpKeeps
<1>11. CASE handle_tun_packet(event)
  BY <1>6, <1>8, <1>9, <1>10, <1>11 DEF handle_tun_packet, s
<1>12. CASE handle_udp_claim(event)
  BY <1>6, <1>7, <1>12 DEF handle_udp_claim, s
<1> QED BY <1>1, <1>11, <1>12 DEF event

LEMMA UdpFlushReadyKeeps ==
    ASSUME EgressInv, UdpFlushReady
    PROVE  EgressInv'
<1> DEFINE attempts == flush_pending(Attempt(io))
<1>1. running /\ SendsUdp(attempts, {}, "UdpFlush")
  BY DEF UdpFlushReady
<1>2. /\ Attempt(io) \in Tried /\ Attempt(io).io = io /\ Attempt(io).out = <<>> /\ Attempt(io).ok
  BY AttemptIsTried DEF EgressInv
<1>3. PacketsOf(Attempt(io)) = PacketsIn(io.send_buf)
  BY <1>2, NothingCarried DEF PacketsOf
<1>4. ASSUME NEW t \in attempts
      PROVE  /\ t \in Tried
             /\ t.ok => /\ Sendable(t.io)
                        /\ PacketsOf(t) \subseteq PacketsIn(io.send_buf) \cup TakenBy("UdpFlush")
                        /\ t.io.send_segments # 0 => active = "UdpQsp" /\ "UdpFlush" = "BatchablePacket"
             /\ ~t.ok => Carried(t.out) \subseteq PacketsIn(io.send_buf)
  <2>1. /\ t \in Tried /\ PacketsOf(t) \subseteq PacketsIn(io.send_buf)
        /\ t.ok => t.io.send_segments = 0
    BY <1>2, <1>3, FlushTries
  <2> QED BY <2>1 DEF Sendable, PacketsOf
<1>5. Due("UdpFlush")
  BY DEF Due, Takes
<1> HIDE DEF attempts
<1> QED BY <1>1, <1>4, <1>5, SendsUdpKeeps

LEMMA UnchangedIsDue == Due("Unchanged") /\ TakenBy("Unchanged") = {}
  BY DEF Due, Takes, TakenBy

LEMMA PingTickKeeps ==
    ASSUME EgressInv, PingTick
    PROVE  EgressInv'
<1>1. running /\ (Ignores("Unchanged") \/ Ends(Attempt(io)) \/ SendsControl("Unchanged"))
  BY DEF PingTick
<1>2. Slab(io)
  BY DEF EgressInv
<1> QED BY <1>1, <1>2, UnchangedIsDue, IgnoresKeeps, EndsNowKeeps, SendsControlKeeps

LEMMA UdpPingKeeps ==
    ASSUME EgressInv, UdpPing \/ UpgradeProbe
    PROVE  EgressInv'
<1>1. running /\ SendsControl("Unchanged")
  BY DEF UdpPing, UpgradeProbe
<1> QED BY <1>1, UnchangedIsDue, SendsControlKeeps

LEMMA UdpReadFailsKeeps ==
    ASSUME EgressInv, UdpReadFails
    PROVE  EgressInv'
<1> DEFINE try == [Attempt(io) EXCEPT !.ok = FALSE]
<1>1. running /\ UdpFails(try, {}, "Unchanged")
  BY DEF UdpReadFails
<1>2. try \in Tried /\ try.out = <<>>
  <2>1. Attempt(io) \in Tried /\ Attempt(io).out = <<>>
    BY AttemptIsTried DEF EgressInv
  <2> QED BY <2>1, TriedExcept
<1>3. Carried(try.out) \subseteq PacketsIn(io.send_buf)
  BY <1>2, NothingCarried
<1> HIDE DEF try
<1> QED BY <1>1, <1>2, <1>3, UnchangedIsDue, UdpFailsKeeps

LEMMA RegisterKeeps ==
    ASSUME EgressInv, Register
    PROVE  EgressInv'
<1>1. /\ running /\ active = "Tcp" /\ udp' = "Active" /\ io' = NewIo
      /\ tcp_alive' = tcp_alive /\ active' = active /\ UNCHANGED wireVars
      /\ Continues("Unchanged", {})
  BY DEF Register
<1>2. Reaches({})
  BY <1>1, UnchangedReaches DEF EgressInv
<1>3. Slab(io') /\ io'.send_segments = 0
  BY <1>1, NewIoIsSlab
<1>4. /\ tcp_alive' \in BOOLEAN /\ active' \in {"Tcp", "UdpQsp"}
      /\ udp' \in {"None", "Active", "Retained"} /\ (active' = "UdpQsp" => udp' = "Active")
  BY <1>1 DEF EgressInv, LoopTypes
<1>5. {} \subseteq PacketsIn(io.send_buf)
  OBVIOUS
<1> QED BY <1>1, <1>2, <1>3, <1>4, <1>5, UnchangedIsDue, EmptyPathKeeps

LEMMA SwitchToUdpKeeps ==
    ASSUME EgressInv, SwitchToUdp
    PROVE  EgressInv'
<1>1. /\ running /\ active = "Tcp" /\ udp = "Active" /\ active' = "UdpQsp" /\ udp' = udp /\ io' = io
      /\ tcp_alive' = tcp_alive /\ UNCHANGED wireVars
      /\ Continues("Unchanged", {})
  BY DEF SwitchToUdp
<1>2. Reaches({})
  BY <1>1, UnchangedReaches DEF EgressInv
<1>3. Slab(io') /\ io'.send_segments = 0
  BY <1>1, NothingPendingOnTcp DEF EgressInv
<1>4. /\ tcp_alive' \in BOOLEAN /\ active' \in {"Tcp", "UdpQsp"}
      /\ udp' \in {"None", "Active", "Retained"} /\ (active' = "UdpQsp" => udp' = "Active")
  BY <1>1 DEF EgressInv, LoopTypes
<1>5. {} \subseteq PacketsIn(io.send_buf)
  OBVIOUS
<1> QED BY <1>1, <1>2, <1>3, <1>4, <1>5, UnchangedIsDue, EmptyPathKeeps

\* The fallbacks leave an empty backend behind.
LEMMA FallsBackKeeps ==
    ASSUME EgressInv, running, NEW now_udp \in {"None", "Active", "Retained"},
           NEW b, Slab(b), b.send_segments = 0, WritesTcp({}, now_udp, b, <<>>, "Unchanged")
    PROVE  EgressInv'
<1>1. <<>> \in Seq(Whole) /\ Carried(<<>>) \subseteq PacketsIn(io.send_buf)
  BY NothingCarried
<1>2. {} \subseteq TakenBy("Unchanged")
  OBVIOUS
<1> QED BY <1>1, <1>2, UnchangedIsDue, WritesTcpKeeps

LEMMA FallbackDiscardsKeeps ==
    ASSUME EgressInv, running, FallbackDiscards
    PROVE  EgressInv'
<1> DEFINE b == discard_pending_send(io)
<1>1. Slab(b) /\ b.send_segments = 0
  BY ClearedIsSlab DEF EgressInv, discard_pending_send
<1>2. Kept \in {"None", "Active", "Retained"}
  BY DEF EgressInv, LoopTypes, Kept
<1>3. WritesTcp({}, Kept, b, <<>>, "Unchanged")
  BY DEF FallbackDiscards
<1> HIDE DEF b
<1> QED BY <1>1, <1>2, <1>3, FallsBackKeeps

LEMMA FallbackToTcpKeeps ==
    ASSUME EgressInv, FallbackToTcp
    PROVE  EgressInv'
<1>1. running /\ (FallbackDiscards \/ Ends(Attempt(discard_pending_send(io))))
  BY DEF FallbackToTcp
<1>2. Slab(discard_pending_send(io))
  BY ClearedIsSlab DEF EgressInv, discard_pending_send
<1> QED BY <1>1, <1>2, FallbackDiscardsKeeps, EndsNowKeeps

LEMMA UdpLivenessTimeoutKeeps ==
    ASSUME EgressInv, UdpLivenessTimeout
    PROVE  EgressInv'
<1>1. /\ running
      /\ \/ FallbackDiscards \/ Ends(Attempt(io))
         \/ WritesTcp({}, "None", NewIo, <<>>, "Unchanged") \/ Ends(Attempt(NewIo))
  BY DEF UdpLivenessTimeout
<1>2. Slab(io) /\ Slab(NewIo) /\ NewIo.send_segments = 0
  BY NewIoIsSlab DEF EgressInv
<1>3. CASE WritesTcp({}, "None", NewIo, <<>>, "Unchanged")
  BY <1>1, <1>2, <1>3, FallsBackKeeps
<1> QED BY <1>1, <1>2, <1>3, FallbackDiscardsKeeps, EndsNowKeeps

LEMMA TcpEofKeeps ==
    ASSUME EgressInv, TcpEof
    PROVE  EgressInv'
<1>1. running
  BY DEF TcpEof
<1>2. CASE /\ active = "UdpQsp"
           /\ tcp_alive' = FALSE
           /\ UNCHANGED <<active, udp, io, wireVars>>
           /\ Continues("Unchanged", {})
  <2>1. Reaches({})
    BY <1>2, UnchangedReaches DEF EgressInv
  <2>2. PathsAgree
    BY <1>1, <1>2 DEF PathsAgree, EgressInv, LoopTypes, ActiveIsOwned
  <2>3. Schedules("Unchanged")
    BY DEF Schedules, Takes
  <2>4. HandsOn("Unchanged", {}, {})
    BY <1>2 DEF HandsOn
  <2> QED BY <1>1, <1>2, <2>1, <2>2, <2>3, <2>4, ContinuesKeeps
<1>3. CASE Ends(Attempt(io))
  BY <1>3, EndsNowKeeps DEF EgressInv
<1> QED BY <1>2, <1>3 DEF TcpEof

LEMMA ExitKeeps ==
    ASSUME EgressInv, Exit
    PROVE  EgressInv'
  BY EndsNowKeeps DEF EgressInv, Exit

\* A ping on the path, or on a new socket, leaves nothing pending.
LEMMA MovesKeeps ==
    ASSUME EgressInv, running, active = "UdpQsp",
           NEW b, Slab(b), b.send_segments = 0,
           NEW out \in Seq(Whole), Carried(out) \subseteq PacketsIn(io.send_buf),
           io' = b, Transmits(out), UNCHANGED <<tcp_alive, active, udp>>,
           Continues("Unchanged", {})
    PROVE  EgressInv'
<1>1. Reaches(Carried(out))
  BY TransmitsReaches DEF EgressInv
<1>2. /\ tcp_alive' \in BOOLEAN /\ active' \in {"Tcp", "UdpQsp"}
      /\ udp' \in {"None", "Active", "Retained"} /\ (active' = "UdpQsp" => udp' = "Active")
  BY DEF EgressInv, LoopTypes, ActiveIsOwned
<1>3. Slab(io') /\ io'.send_segments = 0
  OBVIOUS
<1> QED BY <1>1, <1>2, <1>3, UnchangedIsDue, EmptyPathKeeps

LEMMA NetworkChangedKeeps ==
    ASSUME EgressInv, NetworkChanged
    PROVE  EgressInv'
<1>1. running /\ Slab(io) /\ Sendable(io)
  BY DEF EgressInv, NetworkChanged
<1>2. CASE Ends(Attempt(io))
  BY <1>1, <1>2, EndsNowKeeps
<1>3. CASE /\ active = "UdpQsp"
           /\ \E first \in write_message_and_flush(io, Control) :
                \/ /\ first.ok
                   /\ io' = first.io /\ Transmits(first.out)
                   /\ UNCHANGED <<tcp_alive, active, udp>>
                   /\ Continues("Unchanged", {})
                \/ \E moved \in replace_io(first) :
                      \E second \in write_message_and_flush(NewIo, Control) :
                         LET out == moved.out \o second.out
                         IN  \/ /\ second.ok
                                /\ io' = second.io /\ Transmits(out)
                                /\ UNCHANGED <<tcp_alive, active, udp>>
                                /\ Continues("Unchanged", {})
                             \/ tcp_alive /\ WritesTcp({}, "None", NewIo, out, "Unchanged")
                             \/ Ends([second EXCEPT !.out = out])
  <2>1. PICK first \in write_message_and_flush(io, Control) :
                \/ /\ first.ok
                   /\ io' = first.io /\ Transmits(first.out)
                   /\ UNCHANGED <<tcp_alive, active, udp>>
                   /\ Continues("Unchanged", {})
                \/ \E moved \in replace_io(first) :
                      \E second \in write_message_and_flush(NewIo, Control) :
                         LET out == moved.out \o second.out
                         IN  \/ /\ second.ok
                                /\ io' = second.io /\ Transmits(out)
                                /\ UNCHANGED <<tcp_alive, active, udp>>
                                /\ Continues("Unchanged", {})
                             \/ tcp_alive /\ WritesTcp({}, "None", NewIo, out, "Unchanged")
                             \/ Ends([second EXCEPT !.out = out])
    BY <1>3
  <2>2. /\ first \in Tried
        /\ PacketsOf(first) \subseteq PacketsIn(io.send_buf)
        /\ first.ok => first.io.send_segments = 0
    BY <1>1, ControlIs, write_message_and_flush_Delivers
  <2>3. Slab(first.io) /\ first.out \in Seq(Whole)
    BY <2>2, TriedIs
  <2>4. CASE /\ first.ok
             /\ io' = first.io /\ Transmits(first.out)
             /\ UNCHANGED <<tcp_alive, active, udp>>
             /\ Continues("Unchanged", {})
    <3>1. Carried(first.out) \subseteq PacketsIn(io.send_buf) /\ first.io.send_segments = 0
      BY <2>2, <2>4 DEF PacketsOf
    <3> QED BY <1>1, <1>3, <2>3, <2>4, <3>1, MovesKeeps
  <2>5. ASSUME NEW moved \in replace_io(first),
               NEW second \in write_message_and_flush(NewIo, Control),
               \/ /\ second.ok
                  /\ io' = second.io /\ Transmits(moved.out \o second.out)
                  /\ UNCHANGED <<tcp_alive, active, udp>>
                  /\ Continues("Unchanged", {})
               \/ tcp_alive /\ WritesTcp({}, "None", NewIo, moved.out \o second.out, "Unchanged")
               \/ Ends([second EXCEPT !.out = moved.out \o second.out])
        PROVE  EgressInv'
    <3> DEFINE out == moved.out \o second.out
    <3>1. /\ Slab(NewIo) /\ NewIo.send_segments = 0 /\ Sendable(NewIo)
          /\ PacketsIn(NewIo.send_buf) = {}
      BY NewIoIsSlab, EmptySlab
    <3>2. /\ second \in Tried
          /\ PacketsOf(second) = {}
          /\ second.ok => second.io.send_segments = 0
      BY <3>1, ControlIs, write_message_and_flush_Delivers
    <3>3. Slab(second.io) /\ second.out \in Seq(Whole)
      BY <3>2, TriedIs
    <3>4. PICK s \in flush_pending(first) : moved = [s EXCEPT !.io = NewIo]
      BY DEF replace_io
    <3>5. s \in Tried /\ PacketsOf(s) \subseteq PacketsOf(first)
      BY <2>2, FlushTries
    <3>6. moved.out = s.out /\ s.out \in Seq(Whole)
      BY <3>1, <3>4, <3>5, TriedExcept, TriedIs
    <3>7. out \in Seq(Whole) /\ Carried(out) = Carried(s.out) \cup Carried(second.out)
      BY <3>3, <3>6, CarriedOfConcat
    <3>8. Carried(out) \subseteq PacketsIn(io.send_buf)
      BY <2>2, <3>2, <3>5, <3>7 DEF PacketsOf
    <3>9. \/ /\ second.ok
             /\ io' = second.io /\ Transmits(out)
             /\ UNCHANGED <<tcp_alive, active, udp>>
             /\ Continues("Unchanged", {})
          \/ WritesTcp({}, "None", NewIo, out, "Unchanged")
          \/ Ends([second EXCEPT !.out = out])
      BY <2>5
    <3> HIDE DEF out
    <3>10. CASE /\ second.ok
                /\ io' = second.io /\ Transmits(out)
                /\ UNCHANGED <<tcp_alive, active, udp>>
                /\ Continues("Unchanged", {})
      <4>1. second.io.send_segments = 0
        BY <3>2, <3>10
      <4> QED BY <1>1, <1>3, <3>3, <3>7, <3>8, <3>10, <4>1, MovesKeeps
    <3>11. CASE WritesTcp({}, "None", NewIo, out, "Unchanged")
      <4>1. {} \subseteq TakenBy("Unchanged")
        OBVIOUS
      <4> QED BY <1>1, <3>1, <3>7, <3>8, <3>11, <4>1, UnchangedIsDue, WritesTcpKeeps
    <3>12. CASE Ends([second EXCEPT !.out = out])
      <4>1. [second EXCEPT !.out = out] \in Tried
        BY <3>2, <3>7, TriedExcept
      <4> QED BY <3>12, <4>1, EndsKeeps
    <3> QED BY <3>9, <3>10, <3>11, <3>12
  <2> QED BY <2>1, <2>4, <2>5
<1> QED BY <1>2, <1>3 DEF NetworkChanged

\* An event behind the queue, of a packet that is nowhere else.
LEMMA ArrivesKeeps ==
    ASSUME EgressInv, NEW event \in Event, PacketsIn(event.bytes) \cap InUse = {},
           Arrives(event)
    PROVE  EgressInv'
<1>1. /\ Len(inbox) < QueueSize /\ inbox' = Append(inbox, event) /\ tcp_write' = {}
      /\ side' = side /\ plain' = plain /\ running' = running /\ tcp_alive' = tcp_alive
      /\ active' = active /\ udp' = udp /\ io' = io /\ deferred' = deferred
      /\ overtakes' = overtakes /\ net' = net /\ recv_queue' = recv_queue
  BY DEF Arrives, wireVars
<1>2. inbox \in Seq(Event) /\ Len(inbox) \in Nat /\ QueueSize \in Nat
  BY EgressAssumption DEF EgressInv, LoopTypes
<1>3. /\ inbox' \in Seq(Event) /\ Len(inbox') = Len(inbox) + 1
      /\ DOMAIN inbox' = 1..Len(inbox) + 1 /\ DOMAIN inbox = 1..Len(inbox)
      /\ inbox'[Len(inbox) + 1] = event
      /\ \A i \in DOMAIN inbox : inbox'[i] = inbox[i]
  BY <1>1, <1>2
<1>4. LoopTypes'
  <2>1. Len(inbox') <= QueueSize
    BY <1>1, <1>2, <1>3
  <2> QED BY <1>1, <1>3, <2>1 DEF EgressInv, LoopTypes
<1>5. WireTypes' /\ Slab(io)' /\ Sendable(io)'
  BY <1>1 DEF EgressInv, WireTypes
<1>6. ActiveIsOwned' /\ NothingIsStranded' /\ OvertakenIsDeferred'
  BY <1>1 DEF EgressInv, ActiveIsOwned, NothingIsStranded, OvertakenIsDeferred,
              has_pending_udp_flush
<1>7. NoPacketTwice'
  BY <1>1 DEF NoPacketTwice
<1>8. OnUdp' = OnUdp
  BY <1>1 DEF OnUdp, NetPackets
<1>9. PacketsIn(event.bytes) \cap OnUdp = {}
  BY DEF InUse, OnUdp, NetPackets
<1>10. ASSUME NEW i \in DOMAIN inbox
       PROVE  PacketsIn(event.bytes) \cap PacketsIn(inbox[i].bytes) = {}
  <2>1. PacketsIn(inbox[i].bytes) \subseteq Carried([j \in DOMAIN inbox |-> inbox[j].bytes])
    BY DEF Carried, ToSet
  <2> QED BY <2>1 DEF InUse
<1>11. /\ \A i \in DOMAIN inbox : PacketsIn(inbox[i].bytes) \cap OnUdp = {}
       /\ \A i, j \in DOMAIN inbox :
              i # j => PacketsIn(inbox[i].bytes) \cap PacketsIn(inbox[j].bytes) = {}
  BY DEF EgressInv, QueueIsApart
<1>12. \A i \in DOMAIN inbox' : i \in DOMAIN inbox \/ i = Len(inbox) + 1
  BY <1>2, <1>3
<1>13. \A i \in DOMAIN inbox' : PacketsIn(inbox'[i].bytes) \cap OnUdp' = {}
  BY <1>3, <1>8, <1>9, <1>11, <1>12
<1>14. ASSUME NEW i \in DOMAIN inbox', NEW j \in DOMAIN inbox', i # j
       PROVE  PacketsIn(inbox'[i].bytes) \cap PacketsIn(inbox'[j].bytes) = {}
  <2>1. CASE i \in DOMAIN inbox /\ j \in DOMAIN inbox
    BY <1>3, <1>11, <1>14, <2>1
  <2>2. CASE i \in DOMAIN inbox /\ j = Len(inbox) + 1
    BY <1>3, <1>10, <2>2
  <2>3. CASE i = Len(inbox) + 1 /\ j \in DOMAIN inbox
    BY <1>3, <1>10, <2>3
  <2> QED BY <1>12, <1>14, <2>1, <2>2, <2>3
<1>15. QueueIsApart'
  BY <1>13, <1>14 DEF QueueIsApart
<1> QED BY <1>4, <1>5, <1>6, <1>7, <1>15 DEF EgressInv

LEMMA TunPacketArrivesKeeps ==
    ASSUME EgressInv, TunPacketArrives
    PROVE  EgressInv'
<1>1. ASSUME NEW p \in Packet \ InUse, NEW n \in Sizes,
             Arrives([kind |-> "TunPacket", bytes |-> Datagram(p, n)])
      PROVE  EgressInv'
  <2> DEFINE event == [kind |-> "TunPacket", bytes |-> Datagram(p, n)]
  <2>1. event \in Event
    BY DEF Event
  <2>2. \A c \in ToSet(Datagram(p, n)) : c[1] = p
    BY DEF Datagram, ToSet
  <2>3. PacketsIn(event.bytes) \subseteq {p}
    BY <2>2 DEF PacketsIn
  <2>4. PacketsIn(event.bytes) \cap InUse = {}
    BY <2>3
  <2> HIDE DEF event
  <2> QED BY <1>1, <2>1, <2>4, ArrivesKeeps DEF event
<1>2. ASSUME Arrives([kind |-> "Unsendable", bytes |-> <<>>])
      PROVE  EgressInv'
  <2> DEFINE event == [kind |-> "Unsendable", bytes |-> <<>>]
  <2>1. event \in Event /\ event.bytes = <<>>
    BY DEF Event
  <2>2. PacketsIn(event.bytes) \cap InUse = {}
    BY <2>1, NothingCarried
  <2> HIDE DEF event
  <2> QED BY <1>2, <2>1, <2>2, ArrivesKeeps DEF event
<1> QED BY <1>1, <1>2 DEF TunPacketArrives

LEMMA ClaimArrivesKeeps ==
    ASSUME EgressInv, ClaimArrives
    PROVE  EgressInv'
<1>1. PICK kind \in {"ClaimData", "ClaimPing"} : Arrives([kind |-> kind, bytes |-> <<>>])
  BY DEF ClaimArrives
<1> DEFINE event == [kind |-> kind, bytes |-> <<>>]
<1>2. event \in Event /\ event.bytes = <<>>
  BY DEF Event
<1>3. PacketsIn(event.bytes) \cap InUse = {}
  BY <1>2, NothingCarried
<1> HIDE DEF event
<1> QED BY <1>1, <1>2, <1>3, ArrivesKeeps DEF event

\* A step of the network or of the other end.
LEMMA WireStepKeeps ==
    ASSUME EgressInv, UNCHANGED loopVars, tcp_write' = {}, Reaches({})
    PROVE  EgressInv'
<1>1. /\ side' = side /\ plain' = plain /\ running' = running /\ tcp_alive' = tcp_alive
      /\ active' = active /\ udp' = udp /\ io' = io /\ deferred' = deferred
      /\ inbox' = inbox /\ overtakes' = overtakes
  BY DEF loopVars
<1>2. LoopTypes' /\ Slab(io)' /\ Sendable(io)'
  BY <1>1 DEF EgressInv, LoopTypes
<1>3. ActiveIsOwned' /\ NothingIsStranded' /\ OvertakenIsDeferred'
  BY <1>1 DEF EgressInv, ActiveIsOwned, NothingIsStranded, OvertakenIsDeferred,
              has_pending_udp_flush
<1>4. OnUdp' \subseteq OnUdp
  BY <1>1 DEF OnUdp, Reaches
<1>5. QueueIsApart'
  BY <1>1, <1>4 DEF EgressInv, QueueIsApart
<1>6. NoPacketTwice'
  BY DEF NoPacketTwice
<1> QED BY <1>2, <1>3, <1>5, <1>6 DEF EgressInv, Reaches

\* A part of the network.
LEMMA NetPacketsOfPart ==
    ASSUME net' \in Seq(Sent), \A i \in DOMAIN net' : \E j \in DOMAIN net : net'[i] = net[j]
    PROVE  NetPackets' \subseteq NetPackets
<1>1. ASSUME NEW i \in DOMAIN net' PROVE PacketsIn(net'[i].bytes) \subseteq NetPackets
  <2>1. PICK j \in DOMAIN net : net'[i] = net[j]
    OBVIOUS
  <2> QED BY <2>1 DEF NetPackets, Carried, ToSet
<1> QED BY <1>1 DEF NetPackets, Carried, ToSet

LEMMA LosesKeeps ==
    ASSUME EgressInv, Loses
    PROVE  EgressInv'
<1>1. net # <<>> /\ net' = Tail(net) /\ tcp_write' = {} /\ UNCHANGED loopVars
        /\ recv_queue' = recv_queue
  BY DEF Loses
<1>2. net \in Seq(Sent) /\ Len(net) <= NetSize /\ recv_queue \in Seq(Whole) /\ NetSize \in Nat
  BY EgressAssumption DEF EgressInv, WireTypes
<1>3. /\ net' \in Seq(Sent) /\ Len(net') = Len(net) - 1 /\ Len(net) \in Nat /\ Len(net) # 0
      /\ \A i \in 1..Len(net') : net'[i] = net[i + 1]
  BY <1>1, <1>2, HeadTailProperties
<1>4. \A i \in DOMAIN net' : \E j \in DOMAIN net : net'[i] = net[j]
  <2>1. \A i \in DOMAIN net' : i + 1 \in DOMAIN net /\ net'[i] = net[i + 1]
    BY <1>2, <1>3, SMTT(60)
  <2> QED BY <2>1
<1>5. NetPackets' \subseteq NetPackets
  BY <1>3, <1>4, NetPacketsOfPart
<1>6. Len(net') <= NetSize
  BY <1>2, <1>3
<1>7. Reaches({})
  BY <1>1, <1>2, <1>3, <1>5, <1>6 DEF Reaches, WireTypes
<1> QED BY <1>1, <1>7, WireStepKeeps

LEMMA StrangerSendsKeeps ==
    ASSUME EgressInv, StrangerSends
    PROVE  EgressInv'
<1> DEFINE d == [from |-> "Stranger", bytes |-> Datagram(Foreign, ControlSize)]
<1>1. Len(net) < NetSize /\ net' = Append(net, d) /\ tcp_write' = {} /\ UNCHANGED loopVars
        /\ recv_queue' = recv_queue
  BY DEF StrangerSends
<1>2. net \in Seq(Sent) /\ Len(net) \in Nat /\ recv_queue \in Seq(Whole) /\ NetSize \in Nat
  BY EgressAssumption DEF EgressInv, WireTypes
<1>3. d \in Sent /\ d.bytes = Datagram(Foreign, ControlSize)
  BY DEF Sent
<1>4. PacketsIn(d.bytes) = {}
  <2>1. \A c \in ToSet(Datagram(Foreign, ControlSize)) : c[1] = Foreign
    BY DEF Datagram, ToSet
  <2>2. Foreign \notin Packet
    BY EgressAssumption
  <2> QED BY <1>3, <2>1, <2>2 DEF PacketsIn
<1> HIDE DEF d
<1>5. /\ net' \in Seq(Sent) /\ Len(net') = Len(net) + 1 /\ net'[Len(net) + 1] = d
      /\ \A i \in 1..Len(net) : net'[i] = net[i]
  BY <1>1, <1>2, <1>3
<1>6. ASSUME NEW i \in DOMAIN net' PROVE PacketsIn(net'[i].bytes) \subseteq NetPackets
  <2>1. i \in DOMAIN net \/ i = Len(net) + 1
    BY <1>2, <1>5
  <2>2. CASE i \in DOMAIN net
    <3>1. net'[i] = net[i]
      BY <1>2, <1>5, <2>2
    <3> QED BY <2>2, <3>1 DEF NetPackets, Carried, ToSet
  <2> QED BY <1>4, <1>5, <2>1, <2>2
<1>7. NetPackets' \subseteq NetPackets
  BY <1>6 DEF NetPackets, Carried, ToSet
<1>8. Len(net') <= NetSize
  BY <1>1, <1>2, <1>5
<1>9. Reaches({})
  BY <1>1, <1>2, <1>5, <1>7, <1>8 DEF Reaches, WireTypes
<1> QED BY <1>1, <1>9, WireStepKeeps

\* What is taken from a merged buffer is what the peer put into its datagrams.
LEMMA MergedIsSplit ==
    ASSUME WireTypes, NEW first \in 1..Len(net), NEW last \in first..Len(net), Merged(first, last)
    PROVE  queue_peer_datagrams(first, last) \in Seq(Whole)
<1>1. net \in Seq(Sent) /\ Len(net) \in Nat
  BY DEF WireTypes
<1>2. CASE net[first].from # "Peer"
  BY <1>2 DEF queue_peer_datagrams
<1>3. CASE net[first].from = "Peer"
  <2> DEFINE m == last - first + 1
             parts == [i \in 1..m |-> net[first + i - 1].bytes]
             w == Len(net[first].bytes)
  <2>1. m \in Nat /\ m > 0 /\ first \in Nat /\ last \in Nat
    BY <1>1
  <2>2. \A i \in first..last : net[i].bytes \in Whole
    <3>1. ASSUME NEW i \in first..last PROVE net[i].bytes \in Whole
      <4>1. net[i].from = "Peer"
        BY <1>3 DEF Merged
      <4>2. net[i] \in Sent
        BY <1>1
      <4> QED BY <4>1, <4>2 DEF Sent
    <3> QED BY <3>1
  <2>3. \A i \in first..last - 1 : Len(net[i].bytes) = w
    BY DEF Merged
  <2>4. Len(net[last].bytes) <= w
    BY DEF Merged
  <2>5. net[first].bytes \in Whole /\ net[last].bytes \in Whole
    <3>1. first \in first..last /\ last \in first..last
      BY <2>1
    <3> QED BY <2>2, <3>1
  <2>6. w \in Nat /\ w > 0
    BY <2>5, WholeIs, EgressAssumption
  <2>7. ASSUME NEW i \in 1..m
        PROVE  /\ parts[i] = net[first + i - 1].bytes
               /\ first + i - 1 \in first..last
               /\ i < m => first + i - 1 \in first..last - 1
               /\ i = m => first + i - 1 = last
    BY <2>1
  <2> HIDE DEF parts, m, w
  <2>8. ASSUME NEW i \in 1..m
        PROVE  /\ parts[i] \in Whole /\ parts[i] \in Seq(Cell) /\ Len(parts[i]) \in 1..w
               /\ i < m => Len(parts[i]) = w
    <3>1. parts[i] \in Whole
      BY <2>2, <2>7
    <3>2. parts[i] \in Seq(Cell) /\ Len(parts[i]) \in 1..MAX_UDP_GSO_PAYLOAD
      BY <3>1, WholeIs
    <3>3. i < m => Len(parts[i]) = w
      BY <2>3, <2>7
    <3>4. i = m => Len(parts[i]) <= w
      BY <2>4, <2>7
    <3>5. i < m \/ i = m
      BY <2>1
    <3> QED BY <2>6, <3>1, <3>2, <3>3, <3>4, <3>5
  <2>9. parts \in Seq(Whole) /\ parts \in Seq(Seq(Cell)) /\ Len(parts) = m
    <3>1. DOMAIN parts = 1..m /\ parts = [i \in 1..m |-> parts[i]]
      BY DEF parts
    <3>2. parts \in [1..m -> Whole] /\ parts \in [1..m -> Seq(Cell)]
      BY <2>8, <3>1
    <3> QED BY <2>1, <3>2
  <2>10. Strided(parts, Len(parts), w)
    BY <2>8, <2>9 DEF Strided
  <2>11. Joined(parts, Len(parts), w, FlattenSeq(parts))
    BY <2>1, <2>6, <2>9, <2>10, FlattenJoins
  <2>12. Pieces(FlattenSeq(parts), w) = parts
    BY <2>1, <2>6, <2>9, <2>10, <2>11, PiecesOfJoined
  <2>13. queue_peer_datagrams(first, last) = gro_datagram_ranges(FlattenSeq(parts), w)
    BY <1>3 DEF queue_peer_datagrams, parts, m, w
  <2>14. gro_datagram_ranges(FlattenSeq(parts), w) = parts
    BY <2>6, <2>12 DEF gro_datagram_ranges
  <2> QED BY <2>9, <2>13, <2>14
<1> QED BY <1>2, <1>3

LEMMA recv_one_batch_Keeps ==
    ASSUME EgressInv, recv_one_batch
    PROVE  EgressInv'
<1>k. PICK k \in DOMAIN net : \E cut \in 0..k - 1 :
          /\ Merged(cut + 1, k) /\ (cut > 0 => Merged(1, cut))
          /\ recv_queue' = (IF cut = 0 THEN <<>> ELSE queue_peer_datagrams(1, cut))
                              \o queue_peer_datagrams(cut + 1, k)
          /\ net' = SubSeq(net, k + 1, Len(net))
  BY DEF recv_one_batch
<1>1. PICK cut \in 0..k - 1 :
          /\ Merged(cut + 1, k) /\ (cut > 0 => Merged(1, cut))
          /\ recv_queue' = (IF cut = 0 THEN <<>> ELSE queue_peer_datagrams(1, cut))
                              \o queue_peer_datagrams(cut + 1, k)
          /\ net' = SubSeq(net, k + 1, Len(net))
  BY <1>k
<1>2. tcp_write' = {} /\ UNCHANGED loopVars
  BY DEF recv_one_batch
<1>3. WireTypes /\ net \in Seq(Sent) /\ Len(net) <= NetSize /\ Len(net) \in Nat /\ NetSize \in Nat
  BY EgressAssumption DEF EgressInv, WireTypes
<1>4. k \in 1..Len(net) /\ k \in Nat /\ cut \in Nat /\ cut < k
  BY <1>3
<1>5. queue_peer_datagrams(cut + 1, k) \in Seq(Whole)
  <2>1. cut + 1 \in 1..Len(net) /\ k \in (cut + 1)..Len(net)
    BY <1>3, <1>4
  <2> QED BY <1>1, <1>3, <2>1, MergedIsSplit
<1>6. (IF cut = 0 THEN <<>> ELSE queue_peer_datagrams(1, cut)) \in Seq(Whole)
  <2>1. CASE cut = 0
    BY <2>1
  <2>2. CASE cut # 0
    <3>1. 1 \in 1..Len(net) /\ cut \in 1..Len(net) /\ cut > 0
      BY <1>3, <1>4, <2>2
    <3>2. queue_peer_datagrams(1, cut) \in Seq(Whole)
      BY <1>1, <1>3, <3>1, MergedIsSplit
    <3> QED BY <2>2, <3>2
  <2> QED BY <2>1, <2>2
<1>7. recv_queue' \in Seq(Whole)
  BY <1>1, <1>5, <1>6
<1>8. /\ net' \in Seq(Sent) /\ Len(net') = Len(net) - k
      /\ \A i \in 1..Len(net) - k : net'[i] = net[k + i]
  <2>1. \A i \in (k + 1)..Len(net) : net[i] \in Sent
    BY <1>3, <1>4, SMTT(60)
  <2>2. k + 1 \in Int /\ Len(net) \in Int
    BY <1>3, <1>4
  <2>3. /\ net' \in Seq(Sent)
        /\ Len(net') = IF k + 1 <= Len(net) THEN Len(net) - (k + 1) + 1 ELSE 0
        /\ \A i \in 1..Len(net) - (k + 1) + 1 : net'[i] = net[(k + 1) + i - 1]
    <3> DEFINE m == k + 1
               n == Len(net)
               part == SubSeq(net, m, n)
    <3>1. m \in Int /\ n \in Int /\ \A i \in m..n : net[i] \in Sent
      BY <2>1, <2>2
    <3> HIDE DEF m, n
    <3>2. /\ part \in Seq(Sent)
          /\ Len(part) = IF m <= n THEN n - m + 1 ELSE 0
          /\ \A i \in 1..n - m + 1 : part[i] = net[m + i - 1]
      BY <3>1, SubSeqProperties
    <3>3. net' = part
      BY <1>1 DEF m, n
    <3> HIDE DEF part
    <3> QED BY <3>2, <3>3 DEF m, n
  <2>4. Len(net) - (k + 1) + 1 = Len(net) - k
    BY <1>3, <1>4
  <2>5. \A i \in 1..Len(net) - k : (k + 1) + i - 1 = k + i
    BY <1>3, <1>4
  <2>6. \A i \in 1..Len(net) - k : net'[i] = net[k + i]
    BY <2>3, <2>4, <2>5
  <2> QED BY <1>3, <1>4, <2>3, <2>6, SMTT(60)
<1>9. \A i \in DOMAIN net' : \E j \in DOMAIN net : net'[i] = net[j]
  <2>1. \A i \in DOMAIN net' : k + i \in DOMAIN net /\ net'[i] = net[k + i]
    BY <1>3, <1>4, <1>8, SMTT(60)
  <2> QED BY <2>1
<1>10. NetPackets' \subseteq NetPackets
  BY <1>8, <1>9, NetPacketsOfPart
<1>11. Len(net') <= NetSize
  BY <1>3, <1>4, <1>8
<1>12. Reaches({})
  BY <1>7, <1>8, <1>10, <1>11 DEF Reaches, WireTypes
<1> QED BY <1>2, <1>12, WireStepKeeps

LEMMA recv_packet_Keeps ==
    ASSUME EgressInv, recv_packet
    PROVE  EgressInv'
<1>1. recv_queue # <<>> /\ recv_queue' = Tail(recv_queue) /\ tcp_write' = {}
        /\ UNCHANGED loopVars /\ net' = net
  BY DEF recv_packet
<1>2. WireTypes /\ recv_queue \in Seq(Whole)
  BY DEF EgressInv, WireTypes
<1>3. recv_queue' \in Seq(Whole)
  BY <1>1, <1>2
<1>4. Reaches({})
  BY <1>1, <1>2, <1>3 DEF Reaches, WireTypes, NetPackets
<1> QED BY <1>1, <1>4, WireStepKeeps

LEMMA EgressStutters ==
    ASSUME EgressInv, UNCHANGED vars
    PROVE  EgressInv'
<1>1. /\ UNCHANGED loopVars /\ UNCHANGED wireVars /\ tcp_write' = tcp_write
  BY DEF vars
<1>2. /\ side' = side /\ plain' = plain /\ running' = running /\ tcp_alive' = tcp_alive
      /\ active' = active /\ udp' = udp /\ io' = io /\ deferred' = deferred
      /\ inbox' = inbox /\ overtakes' = overtakes /\ net' = net /\ recv_queue' = recv_queue
  BY <1>1 DEF loopVars, wireVars
<1> QED BY <1>1, <1>2 DEF EgressInv, LoopTypes, WireTypes, ActiveIsOwned, NothingIsStranded,
        OvertakenIsDeferred, QueueIsApart, NoPacketTwice, OnUdp, NetPackets,
        has_pending_udp_flush

LEMMA EgressStep ==
    ASSUME EgressInv, [Next]_vars
    PROVE  EgressInv'
<1>1. CASE Next
  BY <1>1, TakeEventKeeps, UdpFlushReadyKeeps, PingTickKeeps, UdpPingKeeps, UdpReadFailsKeeps,
     RegisterKeeps, SwitchToUdpKeeps, FallbackToTcpKeeps, UdpLivenessTimeoutKeeps, TcpEofKeeps,
     NetworkChangedKeeps, ExitKeeps, TunPacketArrivesKeeps, ClaimArrivesKeeps, LosesKeeps,
     StrangerSendsKeeps, recv_one_batch_Keeps, recv_packet_Keeps DEF Next
<1>2. CASE UNCHANGED vars
  BY <1>2, EgressStutters
<1> QED BY <1>1, <1>2

LEMMA EgressInvariant == Spec => []EgressInv
<1>1. Init => EgressInv
  BY EgressInit
<1>2. EgressInv /\ [Next]_vars => EgressInv'
  BY EgressStep
<1> QED BY <1>1, <1>2, PTL DEF Spec

\* The send slab of either end, for every packet size, segment limit and payload limit,
\* and any length of the queue and of the network: what is pending can be sent and will
\* be, no packet of it went over TCP too, and at most one event overtakes it.
THEOREM SlabStaysSound == Spec => []SlabIsSound
<1>1. EgressInv => SlabIsSound
  BY EgressInvImplies
<1> QED BY <1>1, EgressInvariant, PTL

\* What queue_peer_datagrams hands to the receiver is one datagram of the sender each,
\* whatever send_packet put into one transmit, wherever the kernel cut it, and however
\* neighbours were merged on the way.
THEOREM DatagramsStayWhole == Spec => []DatagramsArriveWhole
<1>1. EgressInv => DatagramsArriveWhole
  BY EgressInvImplies
<1> QED BY <1>1, EgressInvariant, PTL
==============================================================================
