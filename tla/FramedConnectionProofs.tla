----------------------- MODULE FramedConnectionProofs -----------------------
(***************************************************************************)
(* Proofs about FramedConnection, for every configuration, allowlist,      *)
(* limit and set of foreign frames and every number of messages: the       *)
(* channel of an end is sound whoever is at the other end, two ends that   *)
(* run this code agree, the connection implements MessagePipe, and the     *)
(* claims of the server are genuine.                                       *)
(*                                                                         *)
(* None of this is inductive.  Of one end, ChannelInv knows what its       *)
(* buffer, its phase and its key counters have to do with each other.  Of  *)
(* two ends that run this code, Conv knows more: in each direction the     *)
(* bytes taken, in the buffer, on their way and lost are, in this order,   *)
(* the frames that were written (FlowOf), and the i-th message written is  *)
(* one that the code may write as its i-th (Script).  So what an end finds *)
(* in its buffer is the next message of its peer, which its limits admit   *)
(* and its checks let pass.                                                *)
(*                                                                         *)
(* The first parts prove what the proofs need of the codec of Wire:        *)
(* numbers and their bytes, a frame and what is decoded from it, payloads  *)
(* and their only encoding.  The last ones are about the first flight:     *)
(* where its records are, which cells of the message the reader has found  *)
(* in a part of it (ReadUpTo), and so what the classifier says of it.      *)
(***************************************************************************)
EXTENDS FramedConnection, SequenceTheorems, WellFoundedInduction, TLAPS

------------------------------------------------------------------------------
(* Numbers and their bytes                                                 *)

\* Induction over the numbers, with the set of those that have the property.
LEMMA NumbersFrom0 ==
    ASSUME NEW S, 0 \in S, \A n \in Nat : n \in S => n + 1 \in S
    PROVE  Nat \subseteq S
<1> DEFINE rest == Nat \ S
<1>1. SUFFICES ASSUME rest # {} PROVE FALSE
  OBVIOUS
<1>2. PICK n \in rest : \A m \in rest : n <= m
  <2> DEFINE R == OpToRel(<, Nat)
  <2>1. IsWellFoundedOn(R, Nat)
    BY NatLessThanWellFounded, ZenonT(60)
  <2>2. \A x, y \in Nat : x < y => <<x, y>> \in R
    BY DEF OpToRel
  <2>3. rest \subseteq Nat
    OBVIOUS
  <2> HIDE DEF R, rest
  <2>4. \E x \in rest : \A y \in rest : ~(<<y, x>> \in R)
    BY <1>1, <2>1, <2>3, WFMin
  <2>5. PICK x \in rest : \A y \in rest : ~(<<y, x>> \in R)
    BY <2>4
  <2>6. \A y \in rest : x <= y
    <3>1. SUFFICES ASSUME NEW y \in rest PROVE x <= y
      OBVIOUS
    <3>2. x \in Nat /\ y \in Nat
      BY <2>3
    <3>3. ~(y < x)
      BY <2>2, <2>5, <3>2
    <3> QED BY <3>2, <3>3
  <2> QED BY <2>6
<1>3. n # 0 /\ n - 1 \in Nat
  BY DEF rest
<1>4. n - 1 \in S
  BY <1>2, <1>3
<1> QED BY <1>2, <1>3, <1>4


\* A function over the numbers up to `m` that is known by a first value and a step.
Unrolls(f, V, first, m, step) ==
    /\ f \in [0..m -> V] /\ f[0] = first
    /\ \A k \in 1..m : f[k] = step[k][f[k - 1]]

LEMMA StepsExist ==
    ASSUME NEW V, NEW first \in V, NEW m \in Nat, NEW step \in [Nat -> [V -> V]]
    PROVE  \E f : Unrolls(f, V, first, m, step)
<1> DEFINE S == {n \in Nat : \E f : Unrolls(f, V, first, n, step)}
<1>1. 0 \in S
  <2> DEFINE f == [k \in 0..0 |-> first]
  <2>1. f \in [0..0 -> V] /\ f[0] = first
    OBVIOUS
  <2> HIDE DEF f
  <2>2. Unrolls(f, V, first, 0, step)
    BY <2>1 DEF Unrolls
  <2> QED BY <2>2
<1>2. ASSUME NEW n \in Nat, n \in S PROVE n + 1 \in S
  <2>1. PICK g : Unrolls(g, V, first, n, step)
    BY <1>2
  <2> DEFINE last == step[n + 1][g[n]]
             f == [k \in 0..n + 1 |-> IF k = n + 1 THEN last ELSE g[k]]
  <2>2. g[n] \in V /\ last \in V
    BY <2>1 DEF Unrolls
  <2> HIDE DEF last
  <2>3. f \in [0..n + 1 -> V] /\ f[0] = first
    BY <2>1, <2>2 DEF Unrolls
  <2>4. ASSUME NEW k \in 1..n + 1 PROVE f[k] = step[k][f[k - 1]]
    <3>1. CASE k = n + 1
      <4>1. f[k] = last /\ f[k - 1] = g[n]
        BY <3>1
      <4> HIDE DEF f
      <4> QED BY <3>1, <4>1 DEF last
    <3>2. CASE k # n + 1
      <4>1. f[k] = g[k] /\ f[k - 1] = g[k - 1] /\ k \in 1..n
        BY <3>2
      <4> HIDE DEF f
      <4> QED BY <2>1, <4>1 DEF Unrolls
    <3> QED BY <3>1, <3>2
  <2> HIDE DEF f
  <2>5. Unrolls(f, V, first, n + 1, step)
    BY <2>3, <2>4 DEF Unrolls
  <2> QED BY <2>5
<1>3. Nat \subseteq S
  <2> HIDE DEF S
  <2> QED BY <1>1, <1>2, NumbersFrom0
<1> QED BY <1>3

\* What Shifted computes.
Shifts(f, n, w) ==
    /\ f \in [0..w -> Nat] /\ f[0] = n
    /\ \A k \in 1..w : f[k] = f[k - 1] \div 256

LEMMA ShiftedIs ==
    ASSUME NEW n \in Nat, NEW w \in Nat
    PROVE  Shifts(Shifted(n, w), n, w)
<1> DEFINE Is(f) == f = [k \in 0..w |-> IF k = 0 THEN n ELSE f[k - 1] \div 256]
           step == [k \in Nat |-> [v \in Nat |-> v \div 256]]
<1>1. step \in [Nat -> [Nat -> Nat]]
  OBVIOUS
<1>2. \A k, v \in Nat : step[k][v] = v \div 256
  OBVIOUS
<1> HIDE DEF step
<1>a. PICK g : Unrolls(g, Nat, n, w, step)
  BY <1>1, StepsExist
<1>4. /\ g \in [0..w -> Nat] /\ g[0] = n
      /\ \A k \in 1..w : g[k] = step[k][g[k - 1]]
  BY <1>a DEF Unrolls
<1>5. Is(g)
  <2>1. ASSUME NEW k \in 0..w PROVE g[k] = IF k = 0 THEN n ELSE g[k - 1] \div 256
    <3>1. CASE k # 0
      <4>1. k \in 1..w /\ k \in Nat /\ g[k - 1] \in Nat
        BY <1>4, <3>1
      <4>2. g[k] = step[k][g[k - 1]]
        BY <1>4, <4>1
      <4>3. step[k][g[k - 1]] = g[k - 1] \div 256
        BY <1>2, <4>1
      <4> QED BY <3>1, <4>2, <4>3
    <3> QED BY <1>4, <3>1
  <2>2. g = [k \in 0..w |-> g[k]]
    BY <1>4
  <2> QED BY <2>1, <2>2
<1> DEFINE f == CHOOSE h : Is(h)
<1>6. Is(f)
  BY <1>5
<1>7. Shifted(n, w) = f
  BY DEF Shifted
<1> HIDE DEF f
<1>8. f[0] = n /\ \A k \in 1..w : f[k] = f[k - 1] \div 256
  BY <1>6
<1>9. \A k \in 0..w : f[k] \in Nat
  <2> DEFINE S == {k \in Nat : k <= w => f[k] \in Nat}
  <2>1. 0 \in S
    BY <1>8
  <2>2. ASSUME NEW k \in Nat, k \in S PROVE k + 1 \in S
    <3>1. CASE k + 1 <= w
      <4>1. f[k] \in Nat
        BY <2>2, <3>1
      <4>2. f[k + 1] = f[k] \div 256
        <5>1. k + 1 \in 1..w /\ (k + 1) - 1 = k
          BY <3>1
        <5> QED BY <1>8, <5>1
      <4> QED BY <4>1, <4>2
    <3>2. CASE ~(k + 1 <= w)
      BY <3>2
    <3> QED BY <3>1, <3>2
  <2> HIDE DEF S
  <2>3. Nat \subseteq S
    BY <2>1, <2>2, NumbersFrom0
  <2> QED BY <2>3 DEF S
<1>10. f = [k \in 0..w |-> f[k]]
  <2>1. DOMAIN f = 0..w
    BY <1>6
  <2> QED BY <1>6, <2>1
<1>11. f \in [0..w -> Nat]
  BY <1>9, <1>10
<1>12. Shifts(f, n, w)
  BY <1>8, <1>11 DEF Shifts
<1> QED BY <1>7, <1>12

\* What from_be_bytes computes.
BeValue(f, bytes) ==
    /\ f \in [0..Len(bytes) -> Nat] /\ f[0] = 0
    /\ \A i \in 1..Len(bytes) : f[i] = 256 * f[i - 1] + bytes[i]

LEMMA ByteIsNat == Byte \subseteq Nat
  BY DEF Byte

LEMMA FromBeIs ==
    ASSUME NEW bytes \in Seq(Byte)
    PROVE  \E f : BeValue(f, bytes) /\ from_be_bytes(bytes) = f[Len(bytes)]
<1> DEFINE w == Len(bytes)
           Is(f) == f = [i \in 0..w |-> IF i = 0 THEN 0 ELSE 256 * f[i - 1] + bytes[i]]
           step == [i \in Nat |-> [v \in Nat |->
                        IF i \in 1..w THEN 256 * v + bytes[i] ELSE v]]
<1>1. w \in Nat /\ \A i \in 1..w : bytes[i] \in Nat
  <2>1. w \in Nat /\ \A i \in 1..w : bytes[i] \in Byte
    OBVIOUS
  <2> HIDE DEF w
  <2> QED BY <2>1, ByteIsNat
<1>2. step \in [Nat -> [Nat -> Nat]]
  <2> SUFFICES ASSUME NEW i \in Nat, NEW v \in Nat
               PROVE (IF i \in 1..w THEN 256 * v + bytes[i] ELSE v) \in Nat
    BY Zenon
  <2> QED BY <1>1
<1>3. \A i \in 1..w : \A v \in Nat : step[i][v] = 256 * v + bytes[i]
  BY <1>1
<1> HIDE DEF step
<1>a. PICK g : Unrolls(g, Nat, 0, w, step)
  BY <1>1, <1>2, StepsExist
<1>5. /\ g \in [0..w -> Nat] /\ g[0] = 0
      /\ \A i \in 1..w : g[i] = step[i][g[i - 1]]
  BY <1>a DEF Unrolls
<1>c. \A i \in 1..w : g[i - 1] \in Nat
  <2>1. g \in [0..w -> Nat]
    BY <1>5
  <2> HIDE DEF w
  <2> QED BY <1>1, <2>1
<1>b. \A i \in 1..w : g[i] = 256 * g[i - 1] + bytes[i]
  <2> SUFFICES ASSUME NEW i \in 1..w PROVE g[i] = 256 * g[i - 1] + bytes[i]
    OBVIOUS
  <2>1. g[i - 1] \in Nat
    BY <1>c
  <2>2. g[i] = step[i][g[i - 1]]
    BY <1>5
  <2>3. step[i][g[i - 1]] = 256 * g[i - 1] + bytes[i]
    BY <1>3, <2>1
  <2> QED BY <2>2, <2>3
<1>8. Is(g)
  <2>1. ASSUME NEW i \in 0..w PROVE g[i] = IF i = 0 THEN 0 ELSE 256 * g[i - 1] + bytes[i]
    <3>1. CASE i # 0
      <4>1. i \in 1..w
        BY <1>1, <3>1
      <4> QED BY <1>b, <3>1, <4>1
    <3> QED BY <1>5, <3>1
  <2>2. g = [i \in 0..w |-> g[i]]
    BY <1>5
  <2> QED BY <2>1, <2>2
<1> DEFINE f == CHOOSE h : Is(h)
<1>9. Is(f)
  BY <1>8
<1>10. from_be_bytes(bytes) = f[w]
  BY DEF from_be_bytes
<1> HIDE DEF f
<1> HIDE DEF w
<1>11. f[0] = 0 /\ \A i \in 1..w : f[i] = 256 * f[i - 1] + bytes[i]
  BY <1>1, <1>9
<1>12. \A i \in 0..w : f[i] \in Nat
  <2> DEFINE S == {i \in Nat : i <= w => f[i] \in Nat}
  <2>1. 0 \in S
    BY <1>11
  <2>2. ASSUME NEW i \in Nat, i \in S PROVE i + 1 \in S
    <3>1. CASE i + 1 <= w
      <4>1. f[i] \in Nat
        BY <1>1, <2>2, <3>1
      <4>2. i + 1 \in 1..w /\ (i + 1) - 1 = i
        BY <1>1, <3>1
      <4>3. f[i + 1] = 256 * f[i] + bytes[i + 1]
        BY <1>11, <4>2
      <4> QED BY <1>1, <4>1, <4>2, <4>3
    <3>2. CASE ~(i + 1 <= w)
      BY <3>2
    <3> QED BY <3>1, <3>2
  <2> HIDE DEF S
  <2>3. Nat \subseteq S
    BY <2>1, <2>2, NumbersFrom0
  <2> QED BY <1>1, <2>3 DEF S
<1>13. f \in [0..w -> Nat]
  <2>1. f = [i \in 0..w |-> f[i]]
    <3>1. DOMAIN f = 0..w
      BY <1>9
    <3> QED BY <1>9, <3>1
  <2> QED BY <1>12, <2>1
<1>14. BeValue(f, bytes)
  BY <1>11, <1>13 DEF BeValue, w
<1> QED BY <1>10, <1>14 DEF w

LEMMA FromBeType ==
    ASSUME NEW bytes \in Seq(Byte)
    PROVE  from_be_bytes(bytes) \in Nat
<1>1. PICK f : BeValue(f, bytes) /\ from_be_bytes(bytes) = f[Len(bytes)]
  BY FromBeIs
<1> QED BY <1>1 DEF BeValue

LEMMA ToBeType ==
    ASSUME NEW n \in Nat, NEW w \in Nat
    PROVE  /\ to_be_bytes(n, w) \in [1..w -> Byte]
           /\ to_be_bytes(n, w) \in Seq(Byte) /\ Len(to_be_bytes(n, w)) = w
<1>1. \A i \in 1..w : Shifted(n, w)[w - i] % 256 \in Byte
  <2> SUFFICES ASSUME NEW i \in 1..w PROVE Shifted(n, w)[w - i] % 256 \in Byte
    OBVIOUS
  <2>1. Shifted(n, w)[w - i] \in Nat
    <3>1. w - i \in 0..w
      OBVIOUS
    <3> QED BY <3>1, ShiftedIs DEF Shifts
  <2> QED BY <2>1 DEF Byte
<1>2. to_be_bytes(n, w) \in [1..w -> Byte]
  BY <1>1 DEF to_be_bytes
<1> QED BY <1>2

\* A number that fits is read back from its bytes.
LEMMA BytesOfNumber ==
    ASSUME NEW n \in Nat, NEW w \in Nat, Fits(n, w)
    PROVE  from_be_bytes(to_be_bytes(n, w)) = n
<1> DEFINE b == to_be_bytes(n, w)
           sh == Shifted(n, w)
<1>1. b \in Seq(Byte) /\ Len(b) = w /\ \A i \in 1..w : b[i] = sh[w - i] % 256
  BY ToBeType DEF to_be_bytes
<1>2. /\ sh \in [0..w -> Nat] /\ sh[0] = n /\ sh[w] = 0
      /\ \A k \in 1..w : sh[k] = sh[k - 1] \div 256
  <2>1. sh[w] = 0
    BY DEF Fits
  <2>2. Shifts(sh, n, w)
    BY ShiftedIs
  <2> HIDE DEF sh
  <2> QED BY <2>1, <2>2 DEF Shifts
<1> HIDE DEF b, sh
<1>3. PICK f : BeValue(f, b) /\ from_be_bytes(b) = f[Len(b)]
  BY <1>1, FromBeIs
<1>4. /\ f \in [0..w -> Nat] /\ f[0] = 0
      /\ \A i \in 1..w : f[i] = 256 * f[i - 1] + b[i]
  BY <1>1, <1>3 DEF BeValue
<1> DEFINE S == {i \in Nat : i <= w => f[i] = sh[w - i]}
<1>5. 0 \in S
  BY <1>2, <1>4
<1>6. ASSUME NEW i \in Nat, i \in S PROVE i + 1 \in S
  <2>1. CASE i + 1 <= w
    <3>1. /\ i + 1 \in 1..w /\ (i + 1) - 1 = i /\ w - i \in 1..w /\ (w - i) - 1 = w - (i + 1)
          /\ w - (i + 1) \in 0..w
      BY <2>1
    <3>2. f[i + 1] = 256 * f[i] + b[i + 1]
      BY <1>4, <3>1
    <3>3. b[i + 1] = sh[w - (i + 1)] % 256
      BY <1>1, <3>1
    <3>4. f[i] = sh[w - i]
      BY <1>6, <2>1
    <3>5. sh[w - i] = sh[w - (i + 1)] \div 256
      BY <1>2, <3>1
    <3>6. sh[w - (i + 1)] \in Nat
      BY <1>2, <3>1
    <3>7. f[i + 1] = sh[w - (i + 1)]
      <4> DEFINE x == sh[w - (i + 1)]
                 q == f[i]
                 r == b[i + 1]
      <4>1. x \in Nat /\ q = x \div 256 /\ r = x % 256
        BY <3>3, <3>4, <3>5, <3>6
      <4>2. f[i + 1] = 256 * q + r
        BY <3>2
      <4> HIDE DEF x, q, r
      <4>3. 256 * q + r = x
        BY <4>1
      <4> QED BY <4>2, <4>3 DEF x
    <3> QED BY <3>7
  <2>2. CASE ~(i + 1 <= w)
    BY <2>2
  <2> QED BY <2>1, <2>2
<1>7. Nat \subseteq S
  <2> HIDE DEF S
  <2> QED BY <1>5, <1>6, NumbersFrom0
<1>8. f[w] = sh[w - w]
  BY <1>7
<1>9. w - w = 0
  OBVIOUS
<1> QED BY <1>1, <1>2, <1>3, <1>8, <1>9 DEF b

\* Bytes are those of the number that they make.
LEMMA NumberOfBytes ==
    ASSUME NEW bytes \in Seq(Byte)
    PROVE  to_be_bytes(from_be_bytes(bytes), Len(bytes)) = bytes
<1> DEFINE w == Len(bytes)
           n == from_be_bytes(bytes)
           sh == Shifted(n, w)
<1>1. w \in Nat /\ n \in Nat /\ \A i \in 1..w : bytes[i] \in 0..255
  <2>1. n \in Nat
    BY FromBeType
  <2>2. w \in Nat /\ \A i \in 1..w : bytes[i] \in Byte
    OBVIOUS
  <2> HIDE DEF n, w
  <2> QED BY <2>1, <2>2 DEF Byte
<1>2. PICK f : BeValue(f, bytes) /\ n = f[w]
  BY FromBeIs
<1>3. /\ f \in [0..w -> Nat] /\ f[0] = 0
      /\ \A i \in 1..w : f[i] = 256 * f[i - 1] + bytes[i]
  BY <1>2 DEF BeValue
<1> HIDE DEF w, n
<1>4. /\ sh \in [0..w -> Nat] /\ sh[0] = n
      /\ \A k \in 1..w : sh[k] = sh[k - 1] \div 256
  <2>1. Shifts(sh, n, w)
    BY <1>1, ShiftedIs
  <2> HIDE DEF sh
  <2> QED BY <2>1 DEF Shifts
<1>5. to_be_bytes(n, w) = [i \in 1..w |-> sh[w - i] % 256]
  BY DEF to_be_bytes
<1> HIDE DEF sh
<1> DEFINE S == {k \in Nat : k <= w => sh[k] = f[w - k]}
<1>6. 0 \in S
  BY <1>1, <1>2, <1>4
<1>7. ASSUME NEW k \in Nat, k \in S PROVE k + 1 \in S
  <2>1. CASE k + 1 <= w
    <3>1. /\ k + 1 \in 1..w /\ (k + 1) - 1 = k /\ w - k \in 1..w
          /\ (w - k) - 1 = w - (k + 1) /\ w - (k + 1) \in 0..w
      BY <1>1, <2>1
    <3>2. sh[k + 1] = sh[k] \div 256
      BY <1>4, <3>1
    <3>3. sh[k] = f[w - k]
      BY <1>1, <1>7, <2>1
    <3>4. f[w - k] = 256 * f[w - (k + 1)] + bytes[w - k]
      BY <1>3, <3>1
    <3>5. f[w - (k + 1)] \in Nat /\ bytes[w - k] \in 0..255
      BY <1>1, <1>3, <3>1
    <3>6. sh[k + 1] = f[w - (k + 1)]
      <4> DEFINE x == f[w - (k + 1)]
                 y == bytes[w - k]
      <4>1. sh[k + 1] = (256 * x + y) \div 256
        BY <3>2, <3>3, <3>4
      <4>2. x \in Nat /\ y \in 0..255
        BY <3>5
      <4> HIDE DEF x, y
      <4>3. (256 * x + y) \div 256 = x
        BY <4>2
      <4> QED BY <4>1, <4>3 DEF x
    <3> QED BY <3>6
  <2>2. CASE ~(k + 1 <= w)
    BY <2>2
  <2> QED BY <2>1, <2>2
<1>8. Nat \subseteq S
  <2> HIDE DEF S
  <2> QED BY <1>6, <1>7, NumbersFrom0
<1>9. ASSUME NEW i \in 1..w PROVE sh[w - i] % 256 = bytes[i]
  <2>1. w - i \in Nat /\ w - i <= w /\ w - (w - i) = i /\ i - 1 \in 0..w
    BY <1>1
  <2>2. sh[w - i] = f[i]
    BY <1>8, <2>1
  <2>3. f[i] = 256 * f[i - 1] + bytes[i] /\ f[i - 1] \in Nat
    BY <1>3, <2>1
  <2>4. bytes[i] \in 0..255
    BY <1>1
  <2> DEFINE x == f[i - 1]
             y == bytes[i]
  <2>5. sh[w - i] = 256 * x + y /\ x \in Nat /\ y \in 0..255
    BY <2>2, <2>3, <2>4
  <2> HIDE DEF x, y
  <2>6. (256 * x + y) % 256 = y
    BY <2>5
  <2> QED BY <2>5, <2>6 DEF y
<1>10. [i \in 1..w |-> sh[w - i] % 256] = [i \in 1..w |-> bytes[i]]
  BY <1>9
<1>11. bytes = [i \in 1..w |-> bytes[i]]
  BY DEF w
<1> QED BY <1>5, <1>10, <1>11 DEF w, n

\* A smaller number fits, too.
LEMMA SmallerFits ==
    ASSUME NEW m \in Nat, NEW n \in Nat, m <= n, NEW w \in Nat, Fits(n, w)
    PROVE  Fits(m, w)
<1> DEFINE sm == Shifted(m, w)
           sn == Shifted(n, w)
<1>a. Shifts(sm, m, w) /\ Shifts(sn, n, w)
  BY ShiftedIs
<1>2. sn[w] = 0
  BY DEF Fits
<1> HIDE DEF sm, sn
<1>3. /\ sm \in [0..w -> Nat] /\ sm[0] = m
      /\ \A k \in 1..w : sm[k] = sm[k - 1] \div 256
  BY <1>a DEF Shifts
<1>4. /\ sn \in [0..w -> Nat] /\ sn[0] = n
      /\ \A k \in 1..w : sn[k] = sn[k - 1] \div 256
  BY <1>a DEF Shifts
<1> DEFINE S == {k \in Nat : k <= w => sm[k] <= sn[k]}
<1>5. 0 \in S
  BY <1>3, <1>4
<1>6. ASSUME NEW k \in Nat, k \in S PROVE k + 1 \in S
  <2>1. CASE k + 1 <= w
    <3>1. k + 1 \in 1..w /\ (k + 1) - 1 = k /\ k \in 0..w
      BY <2>1
    <3>2. sm[k + 1] = sm[k] \div 256 /\ sn[k + 1] = sn[k] \div 256
      BY <1>3, <1>4, <3>1
    <3>3. sm[k] \in Nat /\ sn[k] \in Nat /\ sm[k] <= sn[k]
      BY <1>3, <1>4, <1>6, <2>1, <3>1
    <3> QED BY <3>2, <3>3
  <2>2. CASE ~(k + 1 <= w)
    BY <2>2
  <2> QED BY <2>1, <2>2
<1>7. Nat \subseteq S
  <2> HIDE DEF S
  <2> QED BY <1>5, <1>6, NumbersFrom0
<1>8. sm[w] <= sn[w] /\ sm[w] \in Nat
  BY <1>3, <1>7
<1> QED BY <1>2, <1>8 DEF Fits, sm

------------------------------------------------------------------------------
(* Sequences of bytes                                                      *)

LEMMA SliceIs ==
    ASSUME NEW p \in Seq(Byte), NEW a \in Nat, NEW l \in Nat, a + l <= Len(p)
    PROVE  /\ Slice(p, a, l) \in Seq(Byte) /\ Len(Slice(p, a, l)) = l
           /\ Slice(p, a, l) \in [1..l -> Byte]
           /\ \A i \in 1..l : Slice(p, a, l)[i] = p[a + i]
<1>1. Slice(p, a, l) = [i \in 1..l |-> p[a + i]]
  BY DEF Slice
<1>2. \A i \in 1..l : p[a + i] \in Byte
  OBVIOUS
<1>3. [i \in 1..l |-> p[a + i]] \in [1..l -> Byte]
  BY <1>2
<1> QED BY <1>1, <1>3

LEMMA JoinIs ==
    ASSUME NEW s \in Seq(Byte), NEW t \in Seq(Byte)
    PROVE  /\ s \o t \in Seq(Byte) /\ Len(s \o t) = Len(s) + Len(t)
           /\ \A i \in 1..Len(s) : (s \o t)[i] = s[i]
           /\ \A i \in 1..Len(t) : (s \o t)[Len(s) + i] = t[i]
  OBVIOUS

LEMMA SameBytes ==
    ASSUME NEW s \in Seq(Byte), NEW t \in Seq(Byte), Len(s) = Len(t),
           \A i \in 1..Len(s) : s[i] = t[i]
    PROVE  s = t
  OBVIOUS

LEMMA SliceJoin ==
    ASSUME NEW p \in Seq(Byte), NEW a \in Nat, NEW b \in Nat, NEW c \in Nat,
           a + b + c <= Len(p)
    PROVE  Slice(p, a, b) \o Slice(p, a + b, c) = Slice(p, a, b + c)
<1> DEFINE s == Slice(p, a, b)
           t == Slice(p, a + b, c)
           u == Slice(p, a, b + c)
<1>1. s \in Seq(Byte) /\ Len(s) = b /\ \A i \in 1..b : s[i] = p[a + i]
  BY SliceIs
<1>2. t \in Seq(Byte) /\ Len(t) = c /\ \A i \in 1..c : t[i] = p[a + b + i]
  BY SliceIs
<1>3. u \in Seq(Byte) /\ Len(u) = b + c /\ \A i \in 1..b + c : u[i] = p[a + i]
  BY SliceIs
<1> HIDE DEF s, t, u
<1>4. s \o t \in Seq(Byte) /\ Len(s \o t) = b + c
  <2>1. s \o t \in Seq(Byte) /\ Len(s \o t) = Len(s) + Len(t)
    BY <1>1, <1>2, JoinIs
  <2> QED BY <1>1, <1>2, <2>1
<1>5. ASSUME NEW i \in 1..b + c PROVE (s \o t)[i] = u[i]
  <2>1. CASE i <= b
    <3>1. i \in 1..Len(s) /\ i \in 1..b
      BY <1>1, <2>1
    <3>2. (s \o t)[i] = s[i]
      BY <1>1, <1>2, <3>1, JoinIs
    <3> QED BY <1>1, <1>3, <3>1, <3>2
  <2>2. CASE i > b
    <3> DEFINE k == i - b
    <3>1. k \in 1..c /\ a + b + k = a + i /\ b + k = i
      BY <2>2
    <3> HIDE DEF k
    <3>2. (s \o t)[Len(s) + k] = t[k]
      BY <1>1, <1>2, <3>1, JoinIs
    <3> QED BY <1>1, <1>2, <1>3, <3>1, <3>2
  <2>3. i <= b \/ i > b
    OBVIOUS
  <2> QED BY <2>1, <2>2, <2>3, Zenon
<1>6. s \o t = u
  <2> DEFINE st == s \o t
  <2>1. st \in Seq(Byte) /\ Len(st) = Len(u) /\ \A i \in 1..Len(st) : st[i] = u[i]
    BY <1>3, <1>4, <1>5
  <2> HIDE DEF st
  <2>2. st = u
    BY <1>3, <2>1, SameBytes
  <2> QED BY <2>2 DEF st
<1> QED BY <1>6 DEF s, t, u

LEMMA SliceAll ==
    ASSUME NEW p \in Seq(Byte)
    PROVE  Slice(p, 0, Len(p)) = p
  BY DEF Slice

\* What of a concatenation a slice shows.
LEMMA SliceOfLeft ==
    ASSUME NEW s \in Seq(Byte), NEW t \in Seq(Byte), NEW a \in Nat, NEW l \in Nat,
           a + l <= Len(s)
    PROVE  Slice(s \o t, a, l) = Slice(s, a, l)
<1>1. \A i \in 1..l : (s \o t)[a + i] = s[a + i]
  OBVIOUS
<1>2. Slice(s \o t, a, l) = [i \in 1..l |-> (s \o t)[a + i]]
  BY DEF Slice
<1>3. Slice(s, a, l) = [i \in 1..l |-> s[a + i]]
  BY DEF Slice
<1> QED BY <1>1, <1>2, <1>3

LEMMA SliceOfRight ==
    ASSUME NEW s \in Seq(Byte), NEW t \in Seq(Byte), NEW a \in Nat, NEW l \in Nat,
           a + l <= Len(t)
    PROVE  Slice(s \o t, Len(s) + a, l) = Slice(t, a, l)
<1>1. \A i \in 1..l : (s \o t)[Len(s) + a + i] = t[a + i]
  OBVIOUS
<1>2. Slice(s \o t, Len(s) + a, l) = [i \in 1..l |-> (s \o t)[Len(s) + a + i]]
  BY DEF Slice
<1>3. Slice(t, a, l) = [i \in 1..l |-> t[a + i]]
  BY DEF Slice
<1> QED BY <1>1, <1>2, <1>3

LEMMA JoinAssociates ==
    ASSUME NEW s \in Seq(Byte), NEW t \in Seq(Byte), NEW u \in Seq(Byte)
    PROVE  (s \o t) \o u = s \o (t \o u)
  BY ConcatAssociative

LEMMA JoinsAssociate ==
    \A s, t, u \in Seq(Byte) : (s \o t) \o u = s \o (t \o u)
BY JoinAssociates

LEMMA SameHead ==
    ASSUME NEW s \in Seq(Byte), NEW t \in Seq(Byte), NEW u \in Seq(Byte),
           s \o t = s \o u
    PROVE  t = u
<1>1. Len(t) = Len(u)
  <2>1. Len(s \o t) = Len(s) + Len(t) /\ Len(s \o u) = Len(s) + Len(u)
    OBVIOUS
  <2> QED BY <2>1
<1>2. ASSUME NEW i \in 1..Len(t) PROVE t[i] = u[i]
  <2>1. (s \o t)[Len(s) + i] = t[i]
    OBVIOUS
  <2>2. (s \o u)[Len(s) + i] = u[i]
    BY <1>1
  <2> QED BY <2>1, <2>2
<1> QED BY <1>1, <1>2

\* Of two sequences that begin the same sequence, the shorter begins the longer.
TwoCuts(s, t, u, v) == s \o t = u \o v
OneBeginsTheOther(s, t, u, v) == \E d \in Seq(Byte) : u = s \o d /\ t = d \o v

LEMMA OneInTheOther ==
    ASSUME NEW s \in Seq(Byte), NEW t \in Seq(Byte), NEW u \in Seq(Byte), NEW v \in Seq(Byte),
           TwoCuts(s, t, u, v), Len(s) <= Len(u)
    PROVE  OneBeginsTheOther(s, t, u, v)
<1>1. s \o t = u \o v
  BY DEF TwoCuts
<1> DEFINE d == SubSeq(u, Len(s) + 1, Len(u))
<1>2. d \in Seq(Byte) /\ Len(d) = Len(u) - Len(s)
      /\ \A i \in 1..Len(u) - Len(s) : d[i] = u[Len(s) + i]
  OBVIOUS
<1> HIDE DEF d
<1>3. ASSUME NEW i \in 1..Len(s) PROVE s[i] = u[i]
  <2>1. (s \o t)[i] = s[i] /\ (u \o v)[i] = u[i]
    OBVIOUS
  <2> QED BY <1>1, <2>1
<1>4. u = s \o d
  <2> DEFINE sd == s \o d
  <2>1. sd \in Seq(Byte) /\ Len(sd) = Len(u)
    <3>1. sd \in Seq(Byte) /\ Len(sd) = Len(s) + Len(d)
      BY <1>2, JoinIs
    <3> HIDE DEF sd
    <3> QED BY <1>2, <3>1
  <2>2. ASSUME NEW i \in 1..Len(u) PROVE sd[i] = u[i]
    <3>1. CASE i <= Len(s)
      <4>1. i \in 1..Len(s)
        BY <3>1
      <4>2. sd[i] = s[i]
        BY <1>2, <4>1, JoinIs
      <4> QED BY <1>3, <4>1, <4>2
    <3>2. CASE i > Len(s)
      <4> DEFINE k == i - Len(s)
      <4>1. k \in 1..Len(u) - Len(s) /\ Len(s) + k = i
        BY <3>2
      <4> HIDE DEF k
      <4>2. k \in 1..Len(d)
        BY <1>2, <4>1
      <4>3. sd[Len(s) + k] = d[k]
        BY <1>2, <4>2, JoinIs
      <4> QED BY <1>2, <4>1, <4>3
    <3>3. i <= Len(s) \/ i > Len(s)
      OBVIOUS
    <3> QED BY <3>1, <3>2, <3>3, Zenon
  <2> HIDE DEF sd
  <2>3. sd = u
    BY <2>1, <2>2, SameBytes
  <2> QED BY <2>3 DEF sd
<1>5. s \o t = s \o (d \o v)
  <2>1. (s \o d) \o v = s \o (d \o v)
    BY <1>2, JoinAssociates, Zenon
  <2> QED BY <1>1, <1>4, <2>1
<1>6. t = d \o v
  <2>1. d \o v \in Seq(Byte)
    BY <1>2
  <2> HIDE DEF d
  <2> QED BY <1>5, <2>1, SameHead
<1> QED BY <1>2, <1>4, <1>6 DEF OneBeginsTheOther

------------------------------------------------------------------------------
(* Frames                                                                  *)

LEMMA WidthIs ==
    /\ Width.length \in Nat \ {0} /\ Width.u64 \in Nat \ {0} /\ Width.client_id \in Nat \ {0}
    /\ Width.ipv4 \in Nat \ {0} /\ Width.mtu \in Nat \ {0} /\ Width.challenge \in Nat \ {0}
    /\ Width.signature \in Nat \ {0} /\ Width.dcid \in Nat \ {0} /\ Width.secret \in Nat \ {0}
  BY WireAssumption, FieldAssumption

LEMMA HeaderIs == HEADER_LEN \in Nat /\ HEADER_LEN = 1 + Width.length
  BY WidthIs DEF HEADER_LEN

\* The number of a type names the type.
LEMMA TypeByte ==
    ASSUME NEW ty \in DOMAIN MessageType
    PROVE  /\ MessageType[ty] \in Byte
           /\ {u \in DOMAIN MessageType : MessageType[u] = MessageType[ty]} = {ty}
<1>1. MessageType[ty] \in Byte
  BY DEF MessageType, Byte
<1>2. ASSUME NEW u \in DOMAIN MessageType, MessageType[u] = MessageType[ty] PROVE u = ty
  BY <1>2 DEF MessageType
<1> QED BY <1>1, <1>2, Zenon

LEMMA MessageIs ==
    ASSUME NEW m \in Message
    PROVE  /\ m.ty \in DOMAIN MessageType /\ m.payload \in Seq(Byte) /\ Len(m.payload) \in Nat
           /\ m = [ty |-> m.ty, payload |-> m.payload]
  BY DEF Message

LEMMA EncodeIs ==
    ASSUME NEW m \in Message
    PROVE  /\ encode_frame(m) \in Seq(Byte)
           /\ Len(encode_frame(m)) = HEADER_LEN + Len(m.payload)
           /\ encode_frame(m)[1] = MessageType[m.ty]
           /\ Slice(encode_frame(m), 1, Width.length)
                = to_be_bytes(Len(m.payload), Width.length)
           /\ Slice(encode_frame(m), HEADER_LEN, Len(m.payload)) = m.payload
<1> DEFINE h == <<MessageType[m.ty]>>
           b == to_be_bytes(Len(m.payload), Width.length)
           p == m.payload
<1>1. h \in Seq(Byte) /\ Len(h) = 1 /\ h[1] = MessageType[m.ty]
  BY MessageIs, TypeByte
<1>2. b \in Seq(Byte) /\ Len(b) = Width.length
  BY MessageIs, WidthIs, ToBeType
<1>3. p \in Seq(Byte) /\ Len(p) \in Nat
  BY MessageIs
<1>4. encode_frame(m) = (h \o b) \o p
  BY DEF encode_frame
<1> HIDE DEF h, b, p
<1> DEFINE hb == h \o b
<1>5. hb \in Seq(Byte) /\ Len(hb) = HEADER_LEN /\ hb[1] = h[1]
  <2>1. hb \in Seq(Byte) /\ Len(hb) = Len(h) + Len(b)
    BY <1>1, <1>2, JoinIs
  <2>2. 1 \in 1..Len(h)
    BY <1>1
  <2>3. hb[1] = h[1]
    BY <1>1, <1>2, <2>2, JoinIs
  <2> QED BY <1>1, <1>2, <2>1, <2>3, HeaderIs
<1>6. Slice(hb, 1, Width.length) = b
  <2>1. Slice(hb, Len(h) + 0, Len(b)) = Slice(b, 0, Len(b))
    <3>1. 0 \in Nat /\ Len(b) \in Nat /\ 0 + Len(b) <= Len(b)
      BY <1>2
    <3> QED BY <1>1, <1>2, <3>1, SliceOfRight
  <2>2. Len(h) + 0 = 1
    BY <1>1
  <2> QED BY <1>2, <2>1, <2>2, SliceAll
<1> HIDE DEF hb
<1> DEFINE f == hb \o p
<1>7. f \in Seq(Byte) /\ Len(f) = HEADER_LEN + Len(p) /\ f[1] = h[1]
  <2>1. 1 \in 1..Len(hb)
    BY <1>5, HeaderIs, WidthIs
  <2>2. f[1] = hb[1]
    BY <1>3, <1>5, <2>1, JoinIs
  <2> QED BY <1>3, <1>5, <2>2, JoinIs
<1>8. Slice(f, 1, Width.length) = b
  <2>1. 1 \in Nat /\ Width.length \in Nat /\ 1 + Width.length <= Len(hb)
    BY <1>5, HeaderIs, WidthIs
  <2>2. Slice(f, 1, Width.length) = Slice(hb, 1, Width.length)
    BY <1>3, <1>5, <2>1, SliceOfLeft
  <2> QED BY <1>6, <2>2
<1>9. Slice(f, HEADER_LEN, Len(p)) = p
  <2>1. Slice(f, Len(hb) + 0, Len(p)) = Slice(p, 0, Len(p))
    <3>1. 0 \in Nat /\ 0 + Len(p) <= Len(p)
      BY <1>3
    <3> QED BY <1>3, <1>5, <3>1, SliceOfRight
  <2>2. Len(hb) + 0 = HEADER_LEN
    BY <1>5, HeaderIs
  <2> QED BY <1>3, <2>1, <2>2, SliceAll
<1>10. encode_frame(m) = f
  BY <1>4 DEF hb
<1> HIDE DEF f
<1> QED BY <1>1, <1>7, <1>8, <1>9, <1>10 DEF b, p

\* What an option holds.
LEMMA SomeIs == ASSUME NEW x PROVE Unwrap(Some(x)) = x /\ Some(x) # None
  BY DEF Unwrap, Some, None

\* A header that is complete says what decode_frame returns.
LEMMA DecodeIs ==
    ASSUME NEW buf \in Seq(Byte), NEW m \in Message, NEW max \in Nat,
           Fits(Len(m.payload), Width.length), Len(m.payload) <= max,
           Len(buf) >= HEADER_LEN, buf[1] = MessageType[m.ty],
           Slice(buf, 1, Width.length) = to_be_bytes(Len(m.payload), Width.length)
    PROVE  decode_frame(buf, max) =
              IF Len(buf) < HEADER_LEN + Len(m.payload) THEN Ok(None)
              ELSE Ok(Some([ty |-> m.ty, payload |-> Slice(buf, HEADER_LEN, Len(m.payload))]))
<1> DEFINE types == {ty \in DOMAIN MessageType : MessageType[ty] = buf[1]}
           len == from_be_bytes(Slice(buf, 1, Width.length))
           n == Len(m.payload)
<1>1. types = {m.ty}
  BY MessageIs, TypeByte
<1>2. len = n
  BY MessageIs, WidthIs, BytesOfNumber
<1>3. types # {} /\ Unwrap(types) = m.ty
  BY <1>1 DEF Unwrap
<1>4. n \in Nat /\ HEADER_LEN \in Nat /\ Len(buf) \in Nat
  BY MessageIs, HeaderIs
<1> HIDE DEF types, len, n
<1>5. decode_frame(buf, max) =
        IF Len(buf) < HEADER_LEN THEN Ok(None)
        ELSE IF types = {} THEN Err("UnknownType")
        ELSE IF len > max THEN Err("LengthTooLarge")
        ELSE IF Len(buf) < HEADER_LEN + len THEN Ok(None)
        ELSE Ok(Some([ty |-> Unwrap(types), payload |-> Slice(buf, HEADER_LEN, len)]))
  BY DEF decode_frame, types, len
<1>6. ~(Len(buf) < HEADER_LEN) /\ ~(len > max)
  <2>1. n <= max
    BY DEF n
  <2> QED BY <1>2, <1>4, <2>1
<1> QED BY <1>2, <1>3, <1>5, <1>6, Zenon DEF n

\* What decode_frame may return.
LEMMA DecodedIs ==
    ASSUME NEW buf \in Seq(Byte), NEW max \in Nat
    PROVE  LET d == decode_frame(buf, max)
           IN  /\ d.ok \in BOOLEAN
               /\ d.ok => d = Ok(d.value)
               /\ d.ok => \/ /\ d.value = None
                             /\ Len(buf) < HEADER_LEN \/ Len(buf) < HEADER_LEN + max
                          \/ \E m \in Message : /\ d.value = Some(m)
                                                /\ HEADER_LEN + Len(m.payload) <= Len(buf)
<1> DEFINE types == {ty \in DOMAIN MessageType : MessageType[ty] = buf[1]}
           len == from_be_bytes(Slice(buf, 1, Width.length))
           d == decode_frame(buf, max)
           msg == [ty |-> Unwrap(types), payload |-> Slice(buf, HEADER_LEN, len)]
<1>1. d = IF Len(buf) < HEADER_LEN THEN Ok(None)
          ELSE IF types = {} THEN Err("UnknownType")
          ELSE IF len > max THEN Err("LengthTooLarge")
          ELSE IF Len(buf) < HEADER_LEN + len THEN Ok(None)
          ELSE Ok(Some(msg))
  BY DEF decode_frame
<1>2. types # {} => Unwrap(types) \in DOMAIN MessageType
  BY DEF Unwrap
<1>3. ~(Len(buf) < HEADER_LEN) => len \in Nat
  <2> SUFFICES ASSUME ~(Len(buf) < HEADER_LEN) PROVE len \in Nat
    OBVIOUS
  <2>1. 1 \in Nat /\ Width.length \in Nat /\ 1 + Width.length <= Len(buf)
    BY HeaderIs, WidthIs
  <2>2. Slice(buf, 1, Width.length) \in Seq(Byte)
    BY <2>1, SliceIs
  <2> QED BY <2>2, FromBeType
<1> HIDE DEF types, len, d
<1>4. CASE Len(buf) < HEADER_LEN
  <2>1. d = Ok(None)
    BY <1>1, <1>4
  <2> QED BY <1>4, <2>1 DEF Ok, d
<1>5. CASE ~(Len(buf) < HEADER_LEN) /\ (types = {} \/ len > max)
  <2>1. d = Err("UnknownType") \/ d = Err("LengthTooLarge")
    BY <1>1, <1>5
  <2>2. d.ok = FALSE
    BY <2>1 DEF Err
  <2> QED BY <2>2 DEF d
<1>6. CASE ~(Len(buf) < HEADER_LEN) /\ types # {} /\ ~(len > max) /\ Len(buf) < HEADER_LEN + len
  <2>1. d = Ok(None)
    BY <1>1, <1>6
  <2>2. Len(buf) < HEADER_LEN + max
    BY <1>3, <1>6, HeaderIs
  <2> QED BY <2>1, <2>2 DEF Ok, d
<1>7. CASE ~(Len(buf) < HEADER_LEN) /\ types # {} /\ ~(len > max) /\ ~(Len(buf) < HEADER_LEN + len)
  <2>1. d = Ok(Some(msg))
    BY <1>1, <1>7
  <2>2. len \in Nat /\ HEADER_LEN + len <= Len(buf)
    BY <1>3, <1>7, HeaderIs
  <2>3. Slice(buf, HEADER_LEN, len) \in Seq(Byte) /\ Len(Slice(buf, HEADER_LEN, len)) = len
    BY <2>2, HeaderIs, SliceIs
  <2>4. msg \in Message /\ Len(msg.payload) = len
    BY <1>2, <1>7, <2>3 DEF Message
  <2> HIDE DEF msg
  <2> QED BY <2>1, <2>2, <2>4 DEF Ok, d
<1> QED BY <1>4, <1>5, <1>6, <1>7

IsLimits(l) == l.max_frame_len \in Nat /\ l.max_data_len \in Nat

\* What pop_message_buf may return.
LEMMA PopIs ==
    ASSUME NEW buf \in Seq(Byte), NEW l, IsLimits(l)
    PROVE  LET p == pop_message_buf(buf, l)
               d == p.decoded
           IN  /\ p.rest \in Seq(Byte)
               /\ d.ok \in BOOLEAN
               /\ d.ok => d = Ok(d.value)
               /\ d.ok => \/ /\ d.value = None /\ p.rest = buf
                             /\ Len(buf) < HEADER_LEN \/ Len(buf) < HEADER_LEN + l.max_frame_len
                          \/ \E m \in Message : d.value = Some(m)
<1> DEFINE f == decode_frame(buf, l.max_frame_len)
           d == decode_message(buf, l)
           p == pop_message_buf(buf, l)
           consumed == HEADER_LEN + Len(Unwrap(d.value).payload)
<1>1. /\ f.ok \in BOOLEAN
      /\ f.ok => f = Ok(f.value)
      /\ f.ok => \/ /\ f.value = None
                    /\ Len(buf) < HEADER_LEN \/ Len(buf) < HEADER_LEN + l.max_frame_len
                 \/ \E m \in Message : /\ f.value = Some(m)
                                       /\ HEADER_LEN + Len(m.payload) <= Len(buf)
  <2>1. l.max_frame_len \in Nat
    BY DEF IsLimits
  <2> QED BY <2>1, DecodedIs
<1>2. d = Err("DataTooLarge") \/ d = f
  BY DEF decode_message
<1>3. p.decoded = d /\ p.rest = IF d.ok /\ d.value # None
                                THEN SubSeq(buf, consumed + 1, Len(buf)) ELSE buf
  BY DEF pop_message_buf
<1> HIDE DEF f, d, p
<1>4. /\ d.ok \in BOOLEAN
      /\ d.ok => d = Ok(d.value)
      /\ d.ok => \/ /\ d.value = None
                    /\ Len(buf) < HEADER_LEN \/ Len(buf) < HEADER_LEN + l.max_frame_len
                 \/ \E m \in Message : /\ d.value = Some(m)
                                       /\ HEADER_LEN + Len(m.payload) <= Len(buf)
  <2>1. CASE d = f
    BY <1>1, <2>1
  <2>2. CASE d = Err("DataTooLarge")
    <3>1. d.ok = FALSE
      BY <2>2 DEF Err
    <3> QED BY <3>1
  <2> QED BY <1>2, <2>1, <2>2
<1>5. p.rest \in Seq(Byte)
  <2>1. CASE d.ok /\ d.value # None
    <3>1. PICK m \in Message : d.value = Some(m) /\ HEADER_LEN + Len(m.payload) <= Len(buf)
      BY <1>4, <2>1
    <3>2. Unwrap(d.value) = m
      BY <3>1, SomeIs
    <3>3. consumed \in Nat /\ consumed <= Len(buf)
      BY <3>1, <3>2, HeaderIs, MessageIs
    <3> HIDE DEF consumed
    <3>4. SubSeq(buf, consumed + 1, Len(buf)) \in Seq(Byte)
      BY <3>3
    <3> QED BY <1>3, <2>1, <3>4
  <2>2. CASE ~(d.ok /\ d.value # None)
    BY <1>3, <2>2
  <2> QED BY <2>1, <2>2
<1> HIDE DEF consumed
<1>6. d.ok /\ d.value = None => p.rest = buf
  BY <1>3
<1>7. d.ok => \/ /\ d.value = None /\ p.rest = buf
                 /\ Len(buf) < HEADER_LEN \/ Len(buf) < HEADER_LEN + l.max_frame_len
              \/ \E m \in Message : d.value = Some(m)
  BY <1>4, <1>6
<1>8. p.decoded = d
  BY <1>3
<1> QED BY <1>4, <1>5, <1>7, <1>8 DEF p

LEMMA NothingToPop ==
    ASSUME NEW l, IsLimits(l)
    PROVE  pop_message_buf(<<>>, l).decoded = Ok(None)
<1>1. decode_frame(<<>>, l.max_frame_len) = Ok(None)
  <2>1. Len(<<>>) < HEADER_LEN
    BY HeaderIs, WidthIs
  <2> QED BY <2>1 DEF decode_frame
<1>2. decode_message(<<>>, l) = Ok(None)
  BY <1>1 DEF decode_message, Ok, None
<1> QED BY <1>2 DEF pop_message_buf

\* A buffer that begins with a frame, or is the beginning of one.
Admits(l, m) ==
    /\ Len(m.payload) <= l.max_frame_len
    /\ m.ty = "Data" => Len(m.payload) <= l.max_data_len

LEMMA FrameHead ==
    ASSUME NEW buf \in Seq(Byte), NEW x \in Seq(Byte), NEW more \in Seq(Byte),
           NEW m \in Message, Fits(Len(m.payload), Width.length),
           NEW l, IsLimits(l), Admits(l, m),
           buf \o x = encode_frame(m) \o more
    PROVE  LET p == pop_message_buf(buf, l)
           IN  \/ /\ p.decoded = Ok(None) /\ p.rest = buf
                  /\ Len(buf) < Len(encode_frame(m))
               \/ /\ p.decoded = Ok(Some(m)) /\ p.rest \in Seq(Byte)
                  /\ p.rest \o x = more /\ Len(encode_frame(m)) <= Len(buf)
<1> DEFINE f == encode_frame(m)
           n == Len(m.payload)
           d == decode_frame(buf, l.max_frame_len)
           c == decode_message(buf, l)
           p == pop_message_buf(buf, l)
           consumed == HEADER_LEN + Len(Unwrap(c.value).payload)
<1>1. /\ f \in Seq(Byte) /\ Len(f) = HEADER_LEN + n /\ n \in Nat /\ HEADER_LEN \in Nat
      /\ HEADER_LEN = 1 + Width.length /\ Width.length \in Nat
  BY EncodeIs, MessageIs, HeaderIs, WidthIs
<1>2. f[1] = MessageType[m.ty] /\ Slice(f, 1, Width.length) = to_be_bytes(n, Width.length)
      /\ Slice(f, HEADER_LEN, n) = m.payload
  BY EncodeIs
<1>3. p.decoded = c /\ p.rest = IF c.ok /\ c.value # None
                                THEN SubSeq(buf, consumed + 1, Len(buf)) ELSE buf
  BY DEF pop_message_buf
<1>4. c = IF d.ok /\ \E u \in d.value : u.ty = "Data" /\ Len(u.payload) > l.max_data_len
          THEN Err("DataTooLarge") ELSE d
  BY DEF decode_message
<1>5. l.max_frame_len \in Nat /\ l.max_data_len \in Nat
  BY DEF IsLimits
<1> HIDE DEF f, d, c, p
\* Nothing, or a part of the frame.
<1>6. ASSUME d = Ok(None)
      PROVE  p.decoded = Ok(None) /\ p.rest = buf
  <2>1. d.ok /\ d.value = {}
    BY <1>6 DEF Ok, None
  <2>2. c = d
    BY <1>4, <2>1
  <2> HIDE DEF consumed
  <2> QED BY <1>3, <1>6, <2>1, <2>2 DEF None
<1>7. CASE Len(buf) < HEADER_LEN
  <2>1. d = Ok(None)
    BY <1>7 DEF d, decode_frame
  <2>2. Len(buf) < Len(f)
    BY <1>1, <1>7
  <2> QED BY <1>6, <2>1, <2>2 DEF p, f
<1>8. CASE ~(Len(buf) < HEADER_LEN)
  <2>1. buf[1] = f[1] /\ Slice(buf, 1, Width.length) = Slice(f, 1, Width.length)
    <3> DEFINE bx == buf \o x
               ft == f \o more
    <3>1. bx = ft
      BY DEF f
    <3>2. 1 \in 1..Len(buf) /\ 1 \in 1..Len(f)
      BY <1>1, <1>8
    <3>3. bx[1] = buf[1] /\ ft[1] = f[1]
      BY <1>1, <3>2, JoinIs
    <3>4. 1 \in Nat /\ 1 + Width.length <= Len(buf) /\ 1 + Width.length <= Len(f)
      BY <1>1, <1>8
    <3>5. Slice(bx, 1, Width.length) = Slice(buf, 1, Width.length)
      <4>1. Width.length \in Nat /\ 1 \in Nat /\ 1 + Width.length <= Len(buf)
        BY <1>1, <3>4
      <4> QED BY <4>1, SliceOfLeft, Zenon
    <3>6. Slice(ft, 1, Width.length) = Slice(f, 1, Width.length)
      BY <1>1, <3>4, SliceOfLeft
    <3> HIDE DEF bx, ft
    <3> QED BY <3>1, <3>3, <3>5, <3>6
  <2>2. d = IF Len(buf) < HEADER_LEN + n THEN Ok(None)
            ELSE Ok(Some([ty |-> m.ty, payload |-> Slice(buf, HEADER_LEN, n)]))
    <3>1. Len(buf) >= HEADER_LEN /\ Len(m.payload) <= l.max_frame_len
      BY <1>1, <1>8 DEF Admits
    <3>2. buf[1] = MessageType[m.ty]
          /\ Slice(buf, 1, Width.length) = to_be_bytes(Len(m.payload), Width.length)
      BY <1>2, <2>1
    <3> QED BY <1>5, <3>1, <3>2, DecodeIs DEF d
  <2>3. CASE Len(buf) < HEADER_LEN + n
    <3>1. d = Ok(None)
      BY <2>2, <2>3
    <3>2. Len(buf) < Len(f)
      BY <1>1, <2>3
    <3> QED BY <1>6, <3>1, <3>2 DEF p, f
  <2>4. CASE ~(Len(buf) < HEADER_LEN + n)
    <3>1. Len(f) <= Len(buf)
      BY <1>1, <2>4
    <3>2. PICK r \in Seq(Byte) : buf = f \o r /\ more = r \o x
      <4>1. TwoCuts(f, more, buf, x)
        BY DEF f, TwoCuts
      <4>2. OneBeginsTheOther(f, more, buf, x)
        BY <1>1, <3>1, <4>1, OneInTheOther
      <4> QED BY <4>2 DEF OneBeginsTheOther
    <3>3. Slice(buf, HEADER_LEN, n) = m.payload
      <4>1. Slice(f \o r, HEADER_LEN, n) = Slice(f, HEADER_LEN, n)
        <5>1. HEADER_LEN + n <= Len(f)
          BY <1>1
        <5> QED BY <1>1, <3>2, <5>1, SliceOfLeft
      <4> QED BY <1>2, <3>2, <4>1
    <3>4. d = Ok(Some(m))
      BY <2>2, <2>4, <3>3, MessageIs
    <3>5. c = d
      <4>1. d.ok /\ d.value = {m}
        BY <3>4 DEF Ok, Some
      <4>2. ~(m.ty = "Data" /\ Len(m.payload) > l.max_data_len)
        BY <1>1, <1>5 DEF Admits
      <4> QED BY <1>4, <4>1, <4>2
    <3>6. c.ok /\ c.value # None /\ Unwrap(c.value) = m
      BY <3>4, <3>5, SomeIs DEF Ok
    <3>7. consumed = Len(f)
      BY <1>1, <3>6
    <3> HIDE DEF consumed
    <3>8. p.rest = SubSeq(f \o r, Len(f) + 1, Len(f \o r))
      BY <1>3, <3>2, <3>6, <3>7
    <3>9. SubSeq(f \o r, Len(f) + 1, Len(f \o r)) = r
      <4>1. Slice(f \o r, Len(f) + 0, Len(r)) = Slice(r, 0, Len(r))
        <5>1. 0 \in Nat /\ Len(r) \in Nat /\ 0 + Len(r) <= Len(r)
          BY <3>2
        <5> QED BY <1>1, <3>2, <5>1, SliceOfRight
      <4>2. Len(f) + 0 = Len(f) /\ Len(f \o r) = Len(f) + Len(r)
        <5>1. Len(f \o r) = Len(f) + Len(r)
          BY <1>1, <3>2, JoinIs, Zenon
        <5>2. Len(f) + 0 = Len(f)
          BY <1>1
        <5> QED BY <5>1, <5>2
      <4> QED BY <3>2, <4>1, <4>2, SliceAll DEF Slice
    <3>10. p.rest = r /\ p.decoded = Ok(Some(m))
      BY <1>3, <3>4, <3>5, <3>8, <3>9
    <3> QED BY <3>1, <3>2, <3>10 DEF p, f
  <2> QED BY <2>3, <2>4
<1> QED BY <1>7, <1>8

------------------------------------------------------------------------------
(* Payloads                                                                *)

LEMMA PrefixGrows ==
    ASSUME NEW p \in Seq(Byte), NEW k \in Nat, NEW l \in Nat, k + l <= Len(p)
    PROVE  Slice(p, 0, k) \o Slice(p, k, l) = Slice(p, 0, k + l)
<1>1. 0 \in Nat /\ 0 + k = k /\ 0 + k + l <= Len(p)
  OBVIOUS
<1>2. Slice(p, 0, k) \o Slice(p, 0 + k, l) = Slice(p, 0, k + l)
  BY <1>1, SliceJoin
<1> QED BY <1>1, <1>2

LEMMA OneByte ==
    ASSUME NEW p \in Seq(Byte), NEW k \in Nat, k + 1 <= Len(p)
    PROVE  Slice(p, k, 1) = <<p[k + 1]>>
<1>1. Slice(p, k, 1) = [i \in 1..1 |-> p[k + i]]
  BY DEF Slice
<1> QED BY <1>1

\* A number in a payload.
LEMMA NumberInPayload ==
    ASSUME NEW p \in Seq(Byte), NEW k \in Nat, NEW w \in Nat, k + w <= Len(p)
    PROVE  /\ to_be_bytes(from_be_bytes(Slice(p, k, w)), w) = Slice(p, k, w)
           /\ from_be_bytes(Slice(p, k, w)) \in Nat
<1>1. Slice(p, k, w) \in Seq(Byte) /\ Len(Slice(p, k, w)) = w
  BY SliceIs
<1> QED BY <1>1, NumberOfBytes, FromBeType

LEMMA OneNumberIsCanonical ==
    ASSUME NEW p \in Seq(Byte), Len(p) = u64
    PROVE  to_be_bytes(from_be_bytes(p), u64) = p
  BY NumberOfBytes

LEMMA TwoNumbersAreCanonical ==
    ASSUME NEW p \in Seq(Byte), Len(p) = 2 * u64
    PROVE  to_be_bytes(from_be_bytes(Slice(p, 0, u64)), u64)
              \o to_be_bytes(from_be_bytes(Slice(p, u64, u64)), u64) = p
<1>1. u64 \in Nat /\ 0 \in Nat /\ 0 + u64 <= Len(p) /\ u64 + u64 <= Len(p) /\ u64 + u64 = Len(p)
  BY WidthIs DEF u64
<1>2. to_be_bytes(from_be_bytes(Slice(p, 0, u64)), u64) = Slice(p, 0, u64)
  BY <1>1, NumberInPayload
<1>3. to_be_bytes(from_be_bytes(Slice(p, u64, u64)), u64) = Slice(p, u64, u64)
  BY <1>1, NumberInPayload
<1>4. Slice(p, 0, u64) \o Slice(p, u64, u64) = Slice(p, 0, u64 + u64)
  BY <1>1, PrefixGrows
<1> QED BY <1>1, <1>2, <1>3, <1>4, SliceAll

LEMMA AuthIsCanonical ==
    ASSUME NEW p \in Seq(Byte), AuthPayload_decode(p).ok
    PROVE  /\ Len(p) = AUTH_PAYLOAD_LEN
           /\ AuthPayload_encode(AuthPayload_decode(p).value) = p
<1> DEFINE a == Width.client_id
           b == a + Width.ipv4
           c == b + Width.mtu
           d == c + Width.challenge
           v == [client_id |-> Slice(p, 0, a), assigned_ipv4 |-> Slice(p, a, Width.ipv4),
                 tun_mtu |-> from_be_bytes(Slice(p, b, Width.mtu)),
                 challenge |-> Slice(p, c, Width.challenge),
                 signature |-> Slice(p, d, Width.signature)]
<1>1. AuthPayload_decode(p) = decode_fixed(p, AUTH_PAYLOAD_LEN, v)
  BY DEF AuthPayload_decode
<1>2. Len(p) = AUTH_PAYLOAD_LEN /\ AuthPayload_decode(p).value = v
  <2> HIDE DEF v
  <2> QED BY <1>1 DEF decode_fixed, Err, Ok
<1>3. /\ a \in Nat /\ b \in Nat /\ c \in Nat /\ d \in Nat /\ Width.ipv4 \in Nat
      /\ Width.mtu \in Nat /\ Width.challenge \in Nat /\ Width.signature \in Nat
      /\ d + Width.signature = Len(p) /\ d <= Len(p) /\ c <= Len(p) /\ b <= Len(p)
      /\ a + Width.ipv4 <= Len(p) /\ b + Width.mtu <= Len(p) /\ c + Width.challenge <= Len(p)
      /\ d + Width.signature <= Len(p)
  <2>1. Len(p) = Width.client_id + Width.ipv4 + Width.mtu + Width.challenge + Width.signature
    BY <1>2 DEF AUTH_PAYLOAD_LEN
  <2> DEFINE n == Len(p)
             x == Width.ipv4
             y == Width.mtu
             z == Width.challenge
             w == Width.signature
  <2>2. n = a + x + y + z + w
    BY <2>1
  <2>3. a \in Nat /\ x \in Nat /\ y \in Nat /\ z \in Nat /\ w \in Nat
    BY WidthIs
  <2>4. b = a + x /\ c = b + y /\ d = c + z
    OBVIOUS
  <2> HIDE DEF v, n, a, b, c, d, x, y, z, w
  <2>5. b \in Nat /\ c \in Nat /\ d \in Nat
    BY <2>3, <2>4
  <2>6. /\ d + w = n /\ d <= n /\ c <= n /\ b <= n
        /\ a + x <= n /\ b + y <= n /\ c + z <= n /\ d + w <= n
    BY <2>2, <2>3, <2>4
  <2> QED BY <2>3, <2>5, <2>6 DEF n, x, y, z, w
<1>4. AuthPayload_encode(v) =
        Slice(p, 0, a) \o Slice(p, a, Width.ipv4) \o to_be_bytes(v.tun_mtu, Width.mtu)
            \o Slice(p, c, Width.challenge) \o Slice(p, d, Width.signature)
  BY DEF AuthPayload_encode
<1>5. to_be_bytes(v.tun_mtu, Width.mtu) = Slice(p, b, Width.mtu)
  BY <1>3, NumberInPayload
<1>6. Slice(p, 0, a) \o Slice(p, a, Width.ipv4) = Slice(p, 0, b)
  BY <1>3, PrefixGrows
<1>7. Slice(p, 0, b) \o Slice(p, b, Width.mtu) = Slice(p, 0, c)
  <2> HIDE DEF b
  <2> QED BY <1>3, PrefixGrows
<1>8. Slice(p, 0, c) \o Slice(p, c, Width.challenge) = Slice(p, 0, d)
  <2> HIDE DEF c
  <2> QED BY <1>3, PrefixGrows
<1>9. Slice(p, 0, d) \o Slice(p, d, Width.signature) = p
  <2> HIDE DEF d
  <2>1. Slice(p, 0, d) \o Slice(p, d, Width.signature) = Slice(p, 0, d + Width.signature)
    BY <1>3, PrefixGrows
  <2> QED BY <1>3, <2>1, SliceAll
<1> HIDE DEF a, b, c, d, v
<1> QED BY <1>2, <1>4, <1>5, <1>6, <1>7, <1>8, <1>9

LEMMA RegisterOkIsCanonical ==
    ASSUME NEW p \in Seq(Byte), RegisterOkPayload_decode(p).ok
    PROVE  LET v == RegisterOkPayload_decode(p).value
           IN  <<Len(v.client_to_server_cid)>> \o v.client_to_server_cid = p
<1> DEFINE v == [client_to_server_cid |-> Tail(p)]
<1>1. p # <<>> /\ p[1] = Width.dcid /\ Len(p) = 1 + Width.dcid
      /\ RegisterOkPayload_decode(p).value = v
  BY DEF RegisterOkPayload_decode, decode_fixed, Ok, Err
<1>2. Len(Tail(p)) = p[1]
  BY <1>1, WidthIs
<1>3. <<p[1]>> \o Tail(p) = p
  BY <1>1
<1> QED BY <1>1, <1>2, <1>3

LEMMA RegisterCidIsCanonical ==
    ASSUME NEW p \in Seq(Byte), RegisterCidPayload_decode(p).ok
    PROVE  RegisterCidPayload_encode(RegisterCidPayload_decode(p).value) = p
<1> DEFINE D == Width.dcid
           L == p[D + 2]
           off == D + 2 + L
           S == Width.secret
           v == RegisterCid_fields(p, off)
<1>1. /\ p # <<>> /\ p[1] = D /\ ~(Len(p) < D + 2) /\ ~(L > D)
      /\ Len(p) = encoded_len_for(D, L)
      /\ RegisterCidPayload_decode(p).value = v
  BY DEF RegisterCidPayload_decode, Ok, Err
<1>2. D \in Nat /\ D + 2 <= Len(p) /\ L \in Nat /\ S \in Nat /\ u64 \in Nat /\ off \in Nat
  <2>1. D \in Nat /\ S \in Nat /\ u64 \in Nat /\ Len(p) \in Nat
    BY WidthIs DEF u64
  <2>2. ~(Len(p) < D + 2)
    BY <1>1
  <2> HIDE DEF D
  <2>3. D + 2 \in 1..Len(p)
    BY <2>1, <2>2
  <2>4. p[D + 2] \in Byte
    BY <2>3
  <2>5. L \in Nat
    BY <2>4, ByteIsNat
  <2> HIDE DEF L
  <2> QED BY <2>1, <2>2, <2>5
<1>3. Len(p) = off + 1 + S + S + u64 + u64 + 1
  <2>1. Len(p) = 1 + D + 1 + L + 1 + 2 * S + 2 * u64 + 1
    BY <1>1 DEF encoded_len_for
  <2> HIDE DEF D, L, S
  <2> QED BY <1>2, <2>1
<1> DEFINE k1 == 1 + D
           k2 == k1 + 1
           k3 == k2 + L
           k4 == k3 + 1
           k5 == k4 + S
           k6 == k5 + S
           k7 == k6 + u64
           k8 == k7 + u64
<1>4. /\ k1 \in Nat /\ k2 \in Nat /\ k3 \in Nat /\ k4 \in Nat /\ k5 \in Nat /\ k6 \in Nat
      /\ k7 \in Nat /\ k8 \in Nat /\ k8 + 1 = Len(p)
      /\ k1 <= Len(p) /\ k2 <= Len(p) /\ k3 <= Len(p) /\ k4 <= Len(p) /\ k5 <= Len(p)
      /\ k6 <= Len(p) /\ k7 <= Len(p) /\ k8 <= Len(p)
      /\ k2 = D + 2 /\ k3 = off /\ k5 = (off + 1) + S /\ k4 = off + 1
      /\ k6 = off + 1 + 2 * S /\ k7 = (off + 1 + 2 * S) + u64 /\ 1 <= Len(p)
  <2> HIDE DEF L, S, D
  <2> QED BY <1>2, <1>3
<1>5. RegisterCidPayload_encode(v) =
        <<Len(v.client_to_server_cid)>> \o v.client_to_server_cid
            \o <<Len(v.server_to_client_cid)>> \o v.server_to_client_cid
            \o <<v.cipher>> \o v.secret_tx \o v.secret_rx
            \o to_be_bytes(v.pn_start, u64) \o to_be_bytes(v.pn_start_rx, u64) \o <<v.key_phase>>
  BY DEF RegisterCidPayload_encode
<1>6. /\ v.client_to_server_cid = Slice(p, 1, D)
      /\ v.server_to_client_cid = Slice(p, D + 2, off - (D + 2))
      /\ v.cipher = p[off + 1] /\ v.secret_tx = Slice(p, off + 1, S)
      /\ v.secret_rx = Slice(p, (off + 1) + S, S)
      /\ v.pn_start = from_be_bytes(Slice(p, off + 1 + 2 * S, u64))
      /\ v.pn_start_rx = from_be_bytes(Slice(p, (off + 1 + 2 * S) + u64, u64))
      /\ v.key_phase = p[Len(p)]
  BY DEF RegisterCid_fields
<1>7. off - (D + 2) = L
  <2> HIDE DEF L, D
  <2> QED BY <1>2
<1> HIDE DEF v, D, off, L, S
<1> DEFINE c0 == Slice(p, 1, D)
           c1 == Slice(p, k2, L)
<1>8. c0 \in Seq(Byte) /\ Len(c0) = D /\ c1 \in Seq(Byte) /\ Len(c1) = L
  <2>1. 1 \in Nat /\ 1 + D <= Len(p) /\ k2 + L <= Len(p)
    BY <1>2, <1>4
  <2> HIDE DEF k2
  <2> QED BY <1>2, <1>4, <2>1, SliceIs
<1>9. <<Len(v.client_to_server_cid)>> = Slice(p, 0, 1)
  <2>1. Slice(p, 0, 1) = <<p[0 + 1]>>
    BY <1>4, OneByte
  <2> QED BY <1>1, <1>6, <1>8, <2>1 DEF D
<1>10. <<Len(v.server_to_client_cid)>> = Slice(p, k1, 1)
  <2>1. Slice(p, k1, 1) = <<p[k1 + 1]>>
    <3> HIDE DEF k1
    <3> QED BY <1>4, OneByte DEF k2
  <2>2. k1 + 1 = D + 2
    BY <1>4
  <2>3. v.server_to_client_cid = c1
    BY <1>4, <1>6, <1>7
  <2> QED BY <1>8, <2>1, <2>2, <2>3 DEF L
<1>11. <<v.cipher>> = Slice(p, k3, 1)
  <2>1. Slice(p, k3, 1) = <<p[k3 + 1]>>
    <3> HIDE DEF k3
    <3> QED BY <1>4, OneByte DEF k4
  <2> QED BY <1>4, <1>6, <2>1
<1>12. <<v.key_phase>> = Slice(p, k8, 1)
  <2>1. Slice(p, k8, 1) = <<p[k8 + 1]>>
    <3> HIDE DEF k8
    <3> QED BY <1>4, OneByte
  <2> QED BY <1>4, <1>6, <2>1
<1>13. v.secret_tx = Slice(p, k4, S) /\ v.secret_rx = Slice(p, k5, S)
       /\ v.server_to_client_cid = Slice(p, k2, L)
  BY <1>4, <1>6, <1>7
<1>14. to_be_bytes(v.pn_start, u64) = Slice(p, k6, u64)
  <2>1. v.pn_start = from_be_bytes(Slice(p, k6, u64))
    BY <1>4, <1>6
  <2> HIDE DEF k6
  <2> QED BY <1>2, <1>4, <2>1, NumberInPayload DEF k7
<1>15. to_be_bytes(v.pn_start_rx, u64) = Slice(p, k7, u64)
  <2>1. v.pn_start_rx = from_be_bytes(Slice(p, k7, u64))
    BY <1>4, <1>6
  <2> HIDE DEF k7
  <2> QED BY <1>2, <1>4, <2>1, NumberInPayload DEF k8
<1>16. Slice(p, 0, 1) \o Slice(p, 1, D) = Slice(p, 0, k1)
  BY <1>2, <1>4, PrefixGrows
<1> HIDE DEF k1, k2, k3, k4, k5, k6, k7, k8
<1>17. Slice(p, 0, k1) \o Slice(p, k1, 1) = Slice(p, 0, k2)
  BY <1>2, <1>4, PrefixGrows DEF k2
<1>18. Slice(p, 0, k2) \o Slice(p, k2, L) = Slice(p, 0, k3)
  BY <1>2, <1>4, PrefixGrows DEF k3
<1>19. Slice(p, 0, k3) \o Slice(p, k3, 1) = Slice(p, 0, k4)
  BY <1>2, <1>4, PrefixGrows DEF k4
<1>20. Slice(p, 0, k4) \o Slice(p, k4, S) = Slice(p, 0, k5)
  BY <1>2, <1>4, PrefixGrows DEF k5
<1>21. Slice(p, 0, k5) \o Slice(p, k5, S) = Slice(p, 0, k6)
  BY <1>2, <1>4, PrefixGrows DEF k6
<1>22. Slice(p, 0, k6) \o Slice(p, k6, u64) = Slice(p, 0, k7)
  BY <1>2, <1>4, PrefixGrows DEF k7
<1>23. Slice(p, 0, k7) \o Slice(p, k7, u64) = Slice(p, 0, k8)
  BY <1>2, <1>4, PrefixGrows DEF k8
<1>24. Slice(p, 0, k8) \o Slice(p, k8, 1) = p
  <2>1. Slice(p, 0, k8) \o Slice(p, k8, 1) = Slice(p, 0, k8 + 1)
    <3>1. k8 + 1 <= Len(p) /\ 1 \in Nat /\ k8 \in Nat
      BY <1>4
    <3> QED BY <3>1, PrefixGrows
  <2> QED BY <1>4, <2>1, SliceAll
<1>25. v.client_to_server_cid = Slice(p, 1, D)
  BY <1>6
<1>26. RegisterCidPayload_encode(v) =
         Slice(p, 0, 1) \o Slice(p, 1, D) \o Slice(p, k1, 1) \o Slice(p, k2, L)
            \o Slice(p, k3, 1) \o Slice(p, k4, S) \o Slice(p, k5, S)
            \o Slice(p, k6, u64) \o Slice(p, k7, u64) \o Slice(p, k8, 1)
  BY <1>5, <1>9, <1>10, <1>11, <1>12, <1>13, <1>14, <1>15, <1>25
<1>27. RegisterCidPayload_encode(v) =
         Slice(p, 0, k4) \o Slice(p, k4, S) \o Slice(p, k5, S)
            \o Slice(p, k6, u64) \o Slice(p, k7, u64) \o Slice(p, k8, 1)
  BY <1>16, <1>17, <1>18, <1>19, <1>26
<1>28. RegisterCidPayload_encode(v) = p
  BY <1>20, <1>21, <1>22, <1>23, <1>24, <1>27
<1> QED BY <1>1, <1>28

LEMMA FixedIs ==
    ASSUME NEW p, NEW n, NEW v, decode_fixed(p, n, v).ok
    PROVE  Len(p) = n /\ decode_fixed(p, n, v).value = v
  BY DEF decode_fixed, Ok, Err

LEMMA CodeIs ==
    ASSUME NEW p \in Seq(Byte), NEW codes, NEW error, decode_code(p, codes, error).ok
    PROVE  /\ Len(p) = 1 /\ p[1] \in codes
           /\ decode_code(p, codes, error).value = p[1] /\ <<p[1]>> = p
<1>1. Len(p) = 1 /\ p[1] \in codes /\ decode_code(p, codes, error).value = p[1]
  BY DEF decode_code, Ok, Err
<1>2. <<p[1]>> = p
  BY <1>1
<1> QED BY <1>1, <1>2

\* A payload that decodes is the only encoding of what it decodes to.
LEMMA PayloadIsCanonical ==
    ASSUME NEW m \in Message, decode_payload(m).ok
    PROVE  encode_payload(m.ty, decode_payload(m).value) = m.payload
<1> DEFINE p == m.payload
           d == decode_payload(m)
<1>1. m.ty \in DOMAIN MessageType /\ p \in Seq(Byte)
  BY MessageIs
<1>2. CASE m.ty = "Auth"
  <2>1. d = AuthPayload_decode(p) /\ encode_payload(m.ty, d.value) = AuthPayload_encode(d.value)
    BY <1>2 DEF decode_payload, encode_payload
  <2> HIDE DEF p, d
  <2> QED BY <1>1, <2>1, AuthIsCanonical DEF d, p
<1>3. CASE m.ty = "AuthOk"
  <2>1. d = AuthOkPayload_decode(p) /\ encode_payload(m.ty, d.value) = <<>>
    BY <1>3 DEF decode_payload, encode_payload
  <2>2. Len(p) = 0
    <3> HIDE DEF p
    <3> QED BY <2>1, FixedIs DEF AuthOkPayload_decode
  <2> QED BY <1>1, <2>1, <2>2
<1>4. CASE m.ty = "RegisterCid"
  <2>1. d = RegisterCidPayload_decode(p)
        /\ encode_payload(m.ty, d.value) = RegisterCidPayload_encode(d.value)
    BY <1>4 DEF decode_payload, encode_payload
  <2> HIDE DEF p, d
  <2> QED BY <1>1, <2>1, RegisterCidIsCanonical DEF d, p
<1>5. CASE m.ty = "RegisterOk"
  <2>1. d = RegisterOkPayload_decode(p)
        /\ encode_payload(m.ty, d.value)
            = <<Len(d.value.client_to_server_cid)>> \o d.value.client_to_server_cid
    BY <1>5 DEF decode_payload, encode_payload
  <2> HIDE DEF p, d
  <2> QED BY <1>1, <2>1, RegisterOkIsCanonical DEF d, p
<1>6. CASE m.ty \in {"AuthFail", "RegisterFail", "Close"}
  <2>1. d \in {decode_code(p, Codes(AuthFailCode), "InvalidAuthFailCode"),
               decode_code(p, Codes(CloseCode), "InvalidCloseCode"),
               decode_code(p, Codes(RegisterFailCode), "InvalidRegisterFailCode")}
    BY <1>6 DEF decode_payload, AuthFailPayload_decode, ClosePayload_decode,
                RegisterFailPayload_decode
  <2>2. encode_payload(m.ty, d.value) = <<d.value>>
    BY <1>6 DEF encode_payload
  <2> HIDE DEF p, d
  <2> QED BY <1>1, <2>1, <2>2, CodeIs DEF d, p
<1>7. CASE m.ty \in {"Ping", "Pong", "FallbackToTcp", "FallbackOk", "UdpReady", "SwitchToUdp",
                     "SwitchAck", "SwitchOk"}
  <2> DEFINE n == from_be_bytes(p)
  <2>1. Len(p) = u64 /\ encode_payload(m.ty, d.value) = to_be_bytes(n, u64)
    <3>1. CASE m.ty \in {"Ping", "Pong"}
      <4> DEFINE v == [nonce |-> n]
      <4>1. d = decode_fixed(p, u64, v)
        BY <3>1 DEF decode_payload, PingPayload_decode, PongPayload_decode
      <4>2. encode_payload(m.ty, d.value) = to_be_bytes(d.value.nonce, u64)
        BY <3>1 DEF encode_payload
      <4>3. Len(p) = u64 /\ d.value = v
        BY <4>1, FixedIs
      <4> HIDE DEF d, n
      <4> QED BY <4>2, <4>3
    <3>2. CASE m.ty \in {"FallbackToTcp", "FallbackOk"}
      <4> DEFINE v == [fallback_id |-> n]
      <4>1. d = decode_fixed(p, u64, v)
        BY <3>2 DEF decode_payload, FallbackToTcpPayload_decode, FallbackOkPayload_decode
      <4>2. encode_payload(m.ty, d.value) = to_be_bytes(d.value.fallback_id, u64)
        BY <3>2 DEF encode_payload
      <4>3. Len(p) = u64 /\ d.value = v
        BY <4>1, FixedIs
      <4> HIDE DEF d, n
      <4> QED BY <4>2, <4>3
    <3>3. CASE m.ty \in {"UdpReady", "SwitchToUdp", "SwitchAck", "SwitchOk"}
      <4> DEFINE v == [upgrade_id |-> n]
      <4>1. d = decode_fixed(p, u64, v)
        BY <3>3 DEF decode_payload, UdpReadyPayload_decode, SwitchToUdpPayload_decode,
                    SwitchAckPayload_decode, SwitchOkPayload_decode
      <4>2. encode_payload(m.ty, d.value) = to_be_bytes(d.value.upgrade_id, u64)
        BY <3>3 DEF encode_payload
      <4>3. Len(p) = u64 /\ d.value = v
        BY <4>1, FixedIs
      <4> HIDE DEF d, n
      <4> QED BY <4>2, <4>3
    <3> QED BY <1>7, <3>1, <3>2, <3>3
  <2> HIDE DEF p
  <2>2. to_be_bytes(n, u64) = p
    BY <1>1, <2>1, OneNumberIsCanonical
  <2> QED BY <2>1, <2>2 DEF p
<1>8. CASE m.ty \in {"UpgradeProbe", "UpgradeProbeAck"}
  <2> DEFINE v == [upgrade_id |-> from_be_bytes(Slice(p, 0, u64)),
                   nonce |-> from_be_bytes(Slice(p, u64, u64))]
  <2>1. d = decode_fixed(p, 2 * u64, v)
    BY <1>8 DEF decode_payload, UpgradeProbePayload_decode, UpgradeProbeAckPayload_decode
  <2>2. encode_payload(m.ty, d.value)
            = to_be_bytes(d.value.upgrade_id, u64) \o to_be_bytes(d.value.nonce, u64)
    BY <1>8 DEF encode_payload
  <2>3. Len(p) = 2 * u64 /\ d.value = v
    BY <2>1, FixedIs
  <2> DEFINE a == from_be_bytes(Slice(p, 0, u64))
             b == from_be_bytes(Slice(p, u64, u64))
  <2>4. d.value.upgrade_id = a /\ d.value.nonce = b
    <3> HIDE DEF d, p
    <3> QED BY <2>3
  <2>5. encode_payload(m.ty, d.value) = to_be_bytes(a, u64) \o to_be_bytes(b, u64)
    <3> HIDE DEF d, a, b
    <3> QED BY <2>2, <2>4
  <2>6. to_be_bytes(a, u64) \o to_be_bytes(b, u64) = p
    <3> HIDE DEF p
    <3> QED BY <1>1, <2>3, TwoNumbersAreCanonical
  <2> QED
    <3> HIDE DEF a, b
    <3> QED BY <2>5, <2>6, Zenon
<1>9. CASE m.ty = "Data"
  BY <1>9 DEF decode_payload, encode_payload, Ok
<1> QED BY <1>1, <1>2, <1>3, <1>4, <1>5, <1>6, <1>7, <1>8, <1>9 DEF MessageType

------------------------------------------------------------------------------
(* The messages of the two programs                                        *)

Context(e, phase) == [sender |-> e, phase |-> phase, transport |-> "Tcp"]

\* When validate_message lets a message pass.
LEMMA ValidIs ==
    ASSUME NEW m, NEW e, NEW phase
    PROVE  /\ validate_message(m, Context(e, phase)).ok \in BOOLEAN
           /\ validate_message(m, Context(e, phase)).ok
                <=> /\ is_valid_direction(m.ty, e) /\ is_valid_phase(m.ty, phase)
                    /\ is_valid_transport(m.ty, "Tcp")
                    /\ m.ty \in {"RegisterCid", "Data"} \/ decode_payload(m).ok
<1> DEFINE c == Context(e, phase)
           D == is_valid_direction(m.ty, e)
           P == is_valid_phase(m.ty, phase)
           T == is_valid_transport(m.ty, "Tcp")
           F == m.ty \in {"RegisterCid", "Data"} \/ decode_payload(m).ok
<1>1. validate_message_type(m.ty, c)
        = IF ~D THEN Err("InvalidDirection") ELSE IF ~P THEN Err("InvalidPhase")
          ELSE IF ~T THEN Err("InvalidTransport") ELSE Ok(m.ty)
  BY DEF validate_message_type, Context
<1>2. validate_fixed_payload(m) = IF F THEN Ok(m.ty) ELSE Err("InvalidPayload")
  BY DEF validate_fixed_payload
<1>3. D \in BOOLEAN /\ P \in BOOLEAN /\ T \in BOOLEAN
  <2>1. D \in BOOLEAN
    BY Zenon DEF is_valid_direction
  <2>2. P \in BOOLEAN
    <3>1. CASE phase = "Authentication"
      BY <3>1 DEF is_valid_phase
    <3>2. CASE phase # "Authentication"
      BY <3>2 DEF is_valid_phase
    <3> QED BY <3>1, <3>2
  <2>3. T \in BOOLEAN
    BY Zenon DEF is_valid_transport
  <2> QED BY <2>1, <2>2, <2>3
<1>4. \A x : Ok(x).ok = TRUE /\ Err(x).ok = FALSE
  BY DEF Ok, Err
<1> HIDE DEF D, P, T, F
<1>5. validate_message_type(m.ty, c).ok = (D /\ P /\ T)
  BY <1>1, <1>3, <1>4
<1>6. validate_fixed_payload(m).ok = (IF F THEN TRUE ELSE FALSE)
  BY <1>2, <1>4
<1>7. validate_message(m, c) = IF validate_message_type(m.ty, c).ok THEN validate_fixed_payload(m)
                               ELSE validate_message_type(m.ty, c)
  BY DEF validate_message
<1> QED BY <1>3, <1>5, <1>6, <1>7 DEF D, P, T, F

LEMMA MaxControlIs ==
    /\ MAX_CONTROL_FRAME_LEN \in Nat
    /\ 1 <= MAX_CONTROL_FRAME_LEN /\ u64 <= MAX_CONTROL_FRAME_LEN
    /\ 1 + Width.dcid <= MAX_CONTROL_FRAME_LEN
    /\ 1 + Width.dcid + 1 + 1 + 1 + Width.secret + Width.secret + u64 + u64 + 1
            <= MAX_CONTROL_FRAME_LEN
<1> DEFINE D == Width.dcid
           S == Width.secret
           U == u64
<1>1. D \in Nat \ {0} /\ S \in Nat \ {0} /\ U \in Nat \ {0}
  BY WidthIs DEF u64
<1>2. MAX_CONTROL_FRAME_LEN = 1 + D + 1 + D + 1 + 2 * S + 2 * U + 1
  BY DEF MAX_CONTROL_FRAME_LEN, encoded_len_for
<1> HIDE DEF D, S, U
<1>3. /\ 1 + D + 1 + D + 1 + 2 * S + 2 * U + 1 \in Nat
      /\ U <= 1 + D + 1 + D + 1 + 2 * S + 2 * U + 1
      /\ 1 + D <= 1 + D + 1 + D + 1 + 2 * S + 2 * U + 1
      /\ 1 <= 1 + D + 1 + D + 1 + 2 * S + 2 * U + 1
      /\ 1 + D + 1 + 1 + 1 + S + S + U + U + 1 <= 1 + D + 1 + D + 1 + 2 * S + 2 * U + 1
  BY <1>1
<1> QED BY <1>2, <1>3 DEF D, S, U

LEMMA ZerosIs ==
    ASSUME NEW n \in Nat
    PROVE  Zeros(n) \in Seq(Byte) /\ Len(Zeros(n)) = n
<1>1. Zeros(n) \in [1..n -> Byte]
  BY DEF Zeros, Byte
<1>2. Zeros(n) \in Seq(Byte)
  BY <1>1
<1>3. DOMAIN Zeros(n) = 1..n
  BY DEF Zeros
<1> QED BY <1>2, <1>3

\* One byte as a sequence.
LEMMA ByteSeq ==
    ASSUME NEW b \in Byte
    PROVE  <<b>> \in Seq(Byte) /\ Len(<<b>>) = 1
OBVIOUS

\* What a payload of 64 bits makes a message.
LEMMA NumberMessage ==
    ASSUME NEW ty \in {"Ping", "Pong", "FallbackToTcp", "FallbackOk", "UdpReady", "SwitchToUdp",
                       "SwitchAck", "SwitchOk"},
           NEW p \in Seq(Byte)
    PROVE  /\ [ty |-> ty, payload |-> p] \in Message
           /\ decode_payload([ty |-> ty, payload |-> p]).ok <=> Len(p) = u64
<1> DEFINE m == [ty |-> ty, payload |-> p]
<1>1. m \in Message
  BY DEF Message, MessageType
<1>2. \A x : decode_fixed(p, u64, x).ok <=> Len(p) = u64
  BY DEF decode_fixed, Ok, Err
<1>3. m.ty = ty /\ m.payload = p
  OBVIOUS
<1> HIDE DEF m
<1>4. \E x : decode_payload(m) = decode_fixed(p, u64, x)
  <2>1. CASE ty \in {"Ping", "Pong"}
    <3>1. decode_payload(m) = decode_fixed(p, u64, [nonce |-> from_be_bytes(p)])
      BY <1>3, <2>1 DEF decode_payload, PingPayload_decode, PongPayload_decode
    <3> QED BY <3>1
  <2>2. CASE ty \in {"FallbackToTcp", "FallbackOk"}
    <3>1. decode_payload(m) = decode_fixed(p, u64, [fallback_id |-> from_be_bytes(p)])
      BY <1>3, <2>2 DEF decode_payload, FallbackToTcpPayload_decode, FallbackOkPayload_decode
    <3> QED BY <3>1
  <2>3. CASE ty \in {"UdpReady", "SwitchToUdp", "SwitchAck", "SwitchOk"}
    <3>1. decode_payload(m) = decode_fixed(p, u64, [upgrade_id |-> from_be_bytes(p)])
      BY <1>3, <2>3 DEF decode_payload, UdpReadyPayload_decode, SwitchToUdpPayload_decode,
                    SwitchAckPayload_decode, SwitchOkPayload_decode
    <3> QED BY <3>1
  <2> QED BY <2>1, <2>2, <2>3
<1> QED BY <1>1, <1>2, <1>4 DEF m

\* What the session of an end sends is admissible, and no larger than the largest
\* control message or, for a packet, than its own MTU.
Mtu(e) == IF e = "Server" THEN config.server_mtu ELSE config.tun_mtu

SessionMessage(e, m) ==
    /\ m \in Message
    /\ validate_message(m, Context(e, "Established")).ok
    /\ m.ty # "Data" => Len(m.payload) <= MAX_CONTROL_FRAME_LEN
    /\ m.ty = "Data" => Len(m.payload) <= Mtu(e)

LEMMA SampleIs ==
    ASSUME NEW e \in Endpoint, NEW ty \in SessionTypes(e)
    PROVE  SessionMessage(e, [ty |-> ty, payload |-> encode_payload(ty, SampleValue(ty))])
<1> DEFINE p == encode_payload(ty, SampleValue(ty))
           m == [ty |-> ty, payload |-> p]
<1>1. /\ ty \in {"RegisterCid", "RegisterOk", "RegisterFail", "Ping", "UdpReady", "SwitchAck",
                 "SwitchToUdp", "SwitchOk", "FallbackToTcp", "FallbackOk"}
      /\ is_valid_direction(ty, e) /\ is_valid_phase(ty, "Established")
      /\ is_valid_transport(ty, "Tcp") /\ ty # "Data"
  BY DEF SessionTypes, Endpoint, is_valid_direction, is_valid_phase, is_valid_transport,
         Symmetric
<1>2. m.ty = ty /\ m.payload = p
  OBVIOUS
<1>3. SUFFICES /\ p \in Seq(Byte) /\ Len(p) <= MAX_CONTROL_FRAME_LEN
               /\ ty = "RegisterCid" \/ decode_payload(m).ok
  <2>1. ASSUME p \in Seq(Byte) PROVE m \in Message
    BY <1>1, <2>1 DEF Message, MessageType
  <2> HIDE DEF p, m
  <2>2. ASSUME ty = "RegisterCid" \/ decode_payload(m).ok
        PROVE  validate_message(m, Context(e, "Established")).ok
    BY <1>1, <1>2, <2>2, ValidIs
  <2>3. ASSUME p \in Seq(Byte), Len(p) <= MAX_CONTROL_FRAME_LEN,
               ty = "RegisterCid" \/ decode_payload(m).ok
        PROVE  SessionMessage(e, m)
    BY <1>1, <1>2, <2>1, <2>2, <2>3 DEF SessionMessage
  <2> QED BY <2>3 DEF m, p
<1>4. u64 \in Nat /\ Width.dcid \in Nat /\ Width.secret \in Nat /\ Width.dcid \in Byte
  BY WidthIs, FieldAssumption DEF u64
<1>5. CASE ty = "RegisterCid"
  <2> DEFINE D == Width.dcid
             S == Width.secret
             U == u64
             a == <<D>> \o Zeros(D)
             b == a \o <<1>>
             c == b \o <<5>>
             d == c \o <<2>>
             z == Zeros(S)
             f == d \o z
             g == f \o z
             h == g \o to_be_bytes(1, U)
             k == h \o to_be_bytes(2, U)
  <2>1. p = k \o <<1>>
    <3> DEFINE v == SampleValue(ty)
    <3>1. p = RegisterCidPayload_encode(v)
      BY <1>5 DEF encode_payload
    <3>2. v = [client_to_server_cid |-> Zeros(D), server_to_client_cid |-> <<5>>,
               cipher |-> 2, secret_tx |-> z, secret_rx |-> z,
               pn_start |-> 1, pn_start_rx |-> 2, key_phase |-> 1]
      BY <1>5 DEF SampleValue, CipherSuite
    <3> HIDE DEF v, p
    <3>3. /\ v.client_to_server_cid = Zeros(D) /\ v.server_to_client_cid = <<5>>
          /\ v.cipher = 2 /\ v.secret_tx = z /\ v.secret_rx = z
          /\ v.pn_start = 1 /\ v.pn_start_rx = 2 /\ v.key_phase = 1
      <4> HIDE DEF z
      <4> QED BY <3>2
    <3>4. Len(Zeros(D)) = D /\ Len(<<5>>) = 1
      BY <1>4, ZerosIs
    <3>5. p = <<Len(Zeros(D))>> \o Zeros(D) \o <<Len(<<5>>)>> \o <<5>> \o <<2>> \o z \o z
                \o to_be_bytes(1, U) \o to_be_bytes(2, U) \o <<1>>
      <4> HIDE DEF z
      <4> QED BY <3>1, <3>3, Zenon DEF RegisterCidPayload_encode
    <3> HIDE DEF D, z, U
    <3> QED BY <3>4, <3>5, Zenon
  <2>2. /\ <<D>> \in Seq(Byte) /\ <<1>> \in Seq(Byte) /\ <<5>> \in Seq(Byte) /\ <<2>> \in Seq(Byte)
        /\ Len(<<D>>) = 1 /\ Len(<<1>>) = 1 /\ Len(<<5>>) = 1 /\ Len(<<2>>) = 1
    BY <1>4 DEF Byte
  <2>3. /\ Zeros(D) \in Seq(Byte) /\ Len(Zeros(D)) = D
        /\ z \in Seq(Byte) /\ Len(z) = S
    BY <1>4, ZerosIs
  <2>4. /\ to_be_bytes(1, U) \in Seq(Byte) /\ Len(to_be_bytes(1, U)) = U
        /\ to_be_bytes(2, U) \in Seq(Byte) /\ Len(to_be_bytes(2, U)) = U
    BY <1>4, ToBeType
  <2>5. D \in Nat /\ S \in Nat /\ U \in Nat
    BY <1>4
  <2> HIDE DEF D, S, U, z
  <2>6. a \in Seq(Byte) /\ Len(a) = 1 + D
    BY <2>2, <2>3, JoinIs
  <2> HIDE DEF a
  <2>7. b \in Seq(Byte) /\ Len(b) = 1 + D + 1
    BY <2>2, <2>6, JoinIs
  <2> HIDE DEF b
  <2>8. c \in Seq(Byte) /\ Len(c) = 1 + D + 1 + 1
    BY <2>2, <2>7, JoinIs
  <2> HIDE DEF c
  <2>9. d \in Seq(Byte) /\ Len(d) = 1 + D + 1 + 1 + 1
    BY <2>2, <2>8, JoinIs
  <2> HIDE DEF d
  <2>10. f \in Seq(Byte) /\ Len(f) = 1 + D + 1 + 1 + 1 + S
    BY <2>3, <2>9, <2>5, JoinIs
  <2> HIDE DEF f
  <2>11. g \in Seq(Byte) /\ Len(g) = 1 + D + 1 + 1 + 1 + S + S
    BY <2>3, <2>10, <2>5, JoinIs
  <2> HIDE DEF g
  <2>12. h \in Seq(Byte) /\ Len(h) = 1 + D + 1 + 1 + 1 + S + S + U
    BY <2>4, <2>11, JoinIs
  <2> HIDE DEF h
  <2>13. k \in Seq(Byte) /\ Len(k) = 1 + D + 1 + 1 + 1 + S + S + U + U
    BY <2>4, <2>12, JoinIs
  <2> HIDE DEF k
  <2>14. p \in Seq(Byte) /\ Len(p) = 1 + D + 1 + 1 + 1 + S + S + U + U + 1
    <3> HIDE DEF p
    <3> QED BY <2>1, <2>2, <2>13, JoinIs
  <2>15. 1 + D + 1 + 1 + 1 + S + S + U + U + 1 <= MAX_CONTROL_FRAME_LEN
    BY MaxControlIs DEF D, S, U
  <2> HIDE DEF p
  <2> QED BY <1>5, <2>14, <2>15
<1>6. CASE ty = "RegisterOk"
  <2> DEFINE D == Width.dcid
  <2>1. p = <<D>> \o Zeros(D)
    <3>1. p = <<Len(SampleValue(ty).client_to_server_cid)>> \o SampleValue(ty).client_to_server_cid
      BY <1>6 DEF encode_payload
    <3>2. SampleValue(ty).client_to_server_cid = Zeros(D)
      BY <1>6 DEF SampleValue
    <3> QED BY <1>4, <3>1, <3>2, ZerosIs
  <2>2. <<D>> \in Seq(Byte) /\ Len(<<D>>) = 1 /\ Zeros(D) \in Seq(Byte) /\ Len(Zeros(D)) = D
    BY <1>4, ZerosIs, ByteSeq
  <2> HIDE DEF p
  <2>3. p \in Seq(Byte) /\ Len(p) = 1 + D /\ p[1] = D
    BY <2>1, <2>2, JoinIs
  <2>4. p # <<>>
    BY <1>4, <2>3
  <2>5. decode_payload(m) = RegisterOkPayload_decode(p)
    BY <1>2, <1>6 DEF decode_payload
  <2>6. RegisterOkPayload_decode(p).ok
    BY <2>3, <2>4 DEF RegisterOkPayload_decode, decode_fixed, Ok
  <2> QED BY <2>3, <2>5, <2>6, MaxControlIs
<1>7. CASE ty = "RegisterFail"
  <2>1. p = <<4>>
    BY <1>7 DEF encode_payload, SampleValue, RegisterFailCode
  <2> HIDE DEF p
  <2>2. p \in Seq(Byte) /\ Len(p) = 1 /\ p[1] = 4
    BY <2>1 DEF Byte
  <2>3. 4 \in Codes(RegisterFailCode)
    BY DEF Codes, RegisterFailCode
  <2>4. decode_payload(m) = RegisterFailPayload_decode(p)
    BY <1>2, <1>7 DEF decode_payload
  <2>5. RegisterFailPayload_decode(p).ok
    BY <2>2, <2>3 DEF RegisterFailPayload_decode, decode_code, Ok
  <2> QED BY <2>2, <2>4, <2>5, MaxControlIs
<1>8. CASE ty \in {"Ping", "UdpReady", "SwitchAck", "SwitchToUdp", "SwitchOk", "FallbackToTcp",
                   "FallbackOk"}
  <2>1. \E n \in Nat : p = to_be_bytes(n, u64)
    <3>1. SampleValue(ty) = [nonce |-> 1, upgrade_id |-> 2, fallback_id |-> 3]
      BY <1>8 DEF SampleValue
    <3> DEFINE v == SampleValue(ty)
    <3>2. p \in {to_be_bytes(v.nonce, u64), to_be_bytes(v.upgrade_id, u64),
                 to_be_bytes(v.fallback_id, u64)}
      BY <1>8 DEF encode_payload
    <3>3. v.nonce = 1 /\ v.upgrade_id = 2 /\ v.fallback_id = 3
      BY <3>1
    <3> HIDE DEF v, p
    <3>4. p \in {to_be_bytes(1, u64), to_be_bytes(2, u64), to_be_bytes(3, u64)}
      BY <3>2, <3>3
    <3> QED BY <3>4
  <2> HIDE DEF p
  <2>2. p \in Seq(Byte) /\ Len(p) = u64
    BY <1>4, <2>1, ToBeType
  <2>3. decode_payload(m).ok
    BY <1>8, <2>2, NumberMessage
  <2> QED BY <2>2, <2>3, MaxControlIs
<1> QED BY <1>1, <1>5, <1>6, <1>7, <1>8

LEMMA DataIs ==
    ASSUME NEW e \in Endpoint, NEW size \in Nat, size <= Mtu(e)
    PROVE  SessionMessage(e, [ty |-> "Data", payload |-> Zeros(size)])
<1> DEFINE p == Zeros(size)
           m == [ty |-> "Data", payload |-> p]
<1>1. p \in Seq(Byte) /\ Len(p) = size
  BY ZerosIs
<1> HIDE DEF p
<1>2. m \in Message /\ m.ty = "Data" /\ m.payload = p
  BY <1>1 DEF Message, MessageType
<1> HIDE DEF m
<1>3. /\ is_valid_direction("Data", e) /\ is_valid_phase("Data", "Established")
      /\ is_valid_transport("Data", "Tcp")
  BY DEF is_valid_direction, is_valid_phase, is_valid_transport, Symmetric
<1>4. validate_message(m, Context(e, "Established")).ok
  BY <1>2, <1>3, ValidIs
<1>5. SessionMessage(e, m)
  BY <1>1, <1>2, <1>4 DEF SessionMessage
<1> QED BY <1>5 DEF m, p

\* The answer to a PING that passed validation.
LEMMA PongIs ==
    ASSUME NEW e \in Endpoint, NEW m \in Message, m.ty = "Ping", decode_payload(m).ok
    PROVE  SessionMessage(e, Pong(m))
<1> DEFINE p == m.payload
           w == [ty |-> "Pong", payload |-> p]
<1>1. p \in Seq(Byte) /\ m = [ty |-> "Ping", payload |-> p]
  BY MessageIs
<1>2. Len(p) = u64
  <2> HIDE DEF p
  <2> QED BY <1>1, NumberMessage
<1>3. w \in Message /\ decode_payload(w).ok
  BY <1>1, <1>2, NumberMessage
<1>4. w.ty = "Pong" /\ w.payload = p /\ Pong(m) = w
  BY DEF Pong
<1> HIDE DEF w, p
<1>5. /\ is_valid_direction("Pong", e) /\ is_valid_phase("Pong", "Established")
      /\ is_valid_transport("Pong", "Tcp")
  BY DEF is_valid_direction, is_valid_phase, is_valid_transport, Symmetric
<1>6. validate_message(w, Context(e, "Established")).ok
  BY <1>3, <1>4, <1>5, ValidIs
<1> QED BY <1>2, <1>3, <1>4, <1>6, MaxControlIs DEF SessionMessage

LEMMA CloseIs ==
    ASSUME NEW e \in Endpoint, NEW code \in Codes(CloseCode)
    PROVE  SessionMessage(e, Close(code))
<1> DEFINE w == Close(code)
           p == <<code>>
<1>1. code \in Byte
  BY DEF Codes, CloseCode, Byte
<1>2. p \in Seq(Byte) /\ Len(p) = 1 /\ p[1] = code
  BY <1>1
<1>3. w = [ty |-> "Close", payload |-> p]
  BY DEF Close
<1> HIDE DEF p, w
<1>4. w \in Message /\ w.ty = "Close" /\ w.payload = p
  BY <1>2, <1>3 DEF Message, MessageType
<1>5. decode_payload(w) = ClosePayload_decode(p)
  BY <1>4 DEF decode_payload
<1>6. decode_payload(w).ok
  BY <1>2, <1>5 DEF ClosePayload_decode, decode_code, Ok
<1>7. /\ is_valid_direction("Close", e) /\ is_valid_phase("Close", "Established")
      /\ is_valid_transport("Close", "Tcp")
  BY DEF is_valid_direction, is_valid_phase, is_valid_transport, Symmetric
<1>8. validate_message(w, Context(e, "Established")).ok
  BY <1>4, <1>6, <1>7, ValidIs
<1>9. SessionMessage(e, w)
  BY <1>2, <1>4, <1>8, MaxControlIs DEF SessionMessage
<1> QED BY <1>9 DEF w

------------------------------------------------------------------------------
(* Limits                                                                  *)

ConfigOK == config \in Configs \cup ForeignConfigs

LEMMA ConfigIs ==
    ASSUME ConfigOK
    PROVE  /\ config.tun_mtu \in Nat /\ config.server_mtu \in Nat
           /\ Fits(config.tun_mtu, Width.mtu) /\ Fits(config.tun_mtu, Width.length)
           /\ Fits(config.server_mtu, Width.length)
           /\ config.client_id \in [1..Width.client_id -> Byte] /\ config.key \in Byte
           /\ config.assigned_ipv4 \in [1..Width.ipv4 -> Byte]
BY WireAssumption, FieldAssumption DEF ConfigOK

LEMMA FromMtuIs ==
    ASSUME NEW mtu \in Nat
    PROVE  IsLimits(from_mtu(mtu)) /\ from_mtu(mtu).max_data_len = mtu
           /\ from_mtu(mtu).max_frame_len >= MAX_CONTROL_FRAME_LEN
           /\ from_mtu(mtu).max_frame_len >= mtu
BY MaxControlIs DEF IsLimits, from_mtu

LEMMA LimitsAre ==
    ASSUME ConfigOK, NEW e
    PROVE  IsLimits(limits(e))
<1>1. IsLimits([max_frame_len |-> AUTH_MAX_FRAME, max_data_len |-> AUTH_MAX_FRAME])
  BY FieldAssumption DEF IsLimits
<1> QED BY <1>1, ConfigIs, FromMtuIs DEF limits

\* Both sessions admit what a session sends, if their MTU is the same.
LEMMA SessionAdmitted ==
    ASSUME ConfigOK, config.tun_mtu = config.server_mtu, NEW e, NEW m, SessionMessage(e, m)
    PROVE  /\ m \in Message /\ Fits(Len(m.payload), Width.length)
           /\ Admits(from_mtu(config.server_mtu), m) /\ Admits(from_mtu(config.tun_mtu), m)
<1>1. m \in Message /\ Len(m.payload) \in Nat
  BY MessageIs DEF SessionMessage
<1> DEFINE n == Len(m.payload)
<1>2. CASE m.ty = "Data"
  <2>1. n <= config.tun_mtu /\ n <= config.server_mtu
    BY <1>2 DEF SessionMessage, Mtu
  <2>2. Fits(n, Width.length)
    BY <1>1, <2>1, ConfigIs, SmallerFits, WidthIs
  <2> HIDE DEF n
  <2>3. /\ n <= from_mtu(config.server_mtu).max_frame_len
        /\ n <= from_mtu(config.tun_mtu).max_frame_len
        /\ n <= from_mtu(config.server_mtu).max_data_len
        /\ n <= from_mtu(config.tun_mtu).max_data_len
    BY <1>1, <2>1, ConfigIs, FromMtuIs, MaxControlIs DEF IsLimits, n
  <2> QED BY <1>1, <2>2, <2>3 DEF Admits, n
<1>3. CASE m.ty # "Data"
  <2>1. n <= MAX_CONTROL_FRAME_LEN
    BY <1>3 DEF SessionMessage
  <2>2. Fits(n, Width.length)
    BY <1>1, <2>1, FieldAssumption, MaxControlIs, SmallerFits, WidthIs
  <2> HIDE DEF n
  <2>3. /\ n <= from_mtu(config.server_mtu).max_frame_len
        /\ n <= from_mtu(config.tun_mtu).max_frame_len
    BY <1>1, <2>1, ConfigIs, FromMtuIs, MaxControlIs DEF IsLimits, n
  <2> QED BY <1>1, <1>3, <2>2, <2>3 DEF Admits, n
<1> QED BY <1>2, <1>3

------------------------------------------------------------------------------
(* The messages of the authentication                                      *)

AuthMessage ==
    [ty |-> "Auth", payload |-> encode_payload("Auth", build_auth_payload(config, challenge))]
AuthOkMessage == [ty |-> "AuthOk", payload |-> <<>>]
AuthFailMessage(verdict) == [ty |-> "AuthFail", payload |-> <<AuthFailCode[verdict]>>]

\* The server would accept the client.
Accepted == verify_auth_payload(AuthPayload_decode(AuthMessage.payload).value) = "Accepted"

LEMMA AuthPhase ==
    /\ is_valid_transport("Auth", "Tcp") /\ is_valid_transport("AuthOk", "Tcp")
    /\ is_valid_transport("AuthFail", "Tcp")
    /\ is_valid_phase("Auth", "Authentication") /\ is_valid_phase("AuthOk", "Authentication")
    /\ is_valid_phase("AuthFail", "Authentication")
    /\ is_valid_direction("Auth", "Client") /\ is_valid_direction("AuthOk", "Server")
    /\ is_valid_direction("AuthFail", "Server")
BY DEF is_valid_direction, is_valid_phase, is_valid_transport, Symmetric

LEMMA AuthMessageIs ==
    ASSUME ConfigOK
    PROVE  /\ AuthMessage \in Message /\ AuthMessage.ty = "Auth"
           /\ Len(AuthMessage.payload) = AUTH_PAYLOAD_LEN
           /\ AuthPayload_decode(AuthMessage.payload).ok
           /\ AuthPayload_decode(AuthMessage.payload).value.tun_mtu = config.tun_mtu
<1> DEFINE A == Width.client_id
           I == Width.ipv4
           M == Width.mtu
           C == Width.challenge
           S == Width.signature
           id == config.client_id
           ip == config.assigned_ipv4
           mtu == to_be_bytes(config.tun_mtu, M)
           ch == challenge
           a == id \o ip
           b == a \o mtu
           c == b \o ch
           key == <<config.key>>
           sig == key \o c
           p == c \o sig
<1>1. AuthMessage.ty = "Auth" /\ AuthMessage.payload = p
  <2> DEFINE v == build_auth_payload(config, challenge)
  <2>1. AuthMessage.ty = "Auth" /\ AuthMessage.payload = AuthPayload_encode(v)
    BY DEF AuthMessage, encode_payload
  <2>2. /\ v.client_id = id /\ v.assigned_ipv4 = ip /\ v.tun_mtu = config.tun_mtu
        /\ v.challenge = ch
        /\ v.signature = Sign(config.key, auth_signature_context(id, ip, config.tun_mtu, ch))
    BY DEF build_auth_payload
  <2>3. v.signature = sig
    <3>1. auth_signature_context(id, ip, config.tun_mtu, ch) = c
      BY DEF auth_signature_context
    <3> HIDE DEF v, id, ip, c, ch
    <3> QED BY <2>2, <3>1 DEF Sign
  <2>4. AuthPayload_encode(v) = p
    <3> HIDE DEF v, id, ip, ch, key
    <3> QED BY <2>2, <2>3, Zenon DEF AuthPayload_encode
  <2> QED BY <2>1, <2>4
<1>2. /\ A \in Nat /\ I \in Nat /\ M \in Nat /\ C \in Nat /\ S \in Nat /\ S = 1 + A + I + M + C
  BY WidthIs, FieldAssumption
<1>3. AUTH_PAYLOAD_LEN = A + I + M + C + S
  BY DEF AUTH_PAYLOAD_LEN
<1>4. id \in Seq(Byte) /\ Len(id) = A /\ ip \in Seq(Byte) /\ Len(ip) = I
  <2>1. id \in [1..A -> Byte] /\ ip \in [1..I -> Byte]
    BY ConfigIs
  <2> HIDE DEF id, ip, A, I
  <2> QED BY <1>2, <2>1
<1>5. mtu \in Seq(Byte) /\ Len(mtu) = M
  BY <1>2, ConfigIs, ToBeType
<1>6. ch \in Seq(Byte) /\ Len(ch) = C
  <2>1. ch \in [1..C -> Byte]
    BY DEF challenge, Byte
  <2> HIDE DEF ch, C
  <2> QED BY <1>2, <2>1
<1>7. key \in Seq(Byte) /\ Len(key) = 1
  BY ConfigIs
<1>8. from_be_bytes(mtu) = config.tun_mtu
  BY <1>2, ConfigIs, BytesOfNumber
<1> HIDE DEF A, I, M, C, S, id, ip, mtu, ch, key
<1>9. a \in Seq(Byte) /\ Len(a) = A + I
  BY <1>4, JoinIs
<1>10. Slice(b, A + I, M) = mtu
  <2>1. Slice(b, Len(a) + 0, Len(mtu)) = Slice(mtu, 0, Len(mtu))
    <3> HIDE DEF a
    <3>1. 0 \in Nat /\ Len(mtu) \in Nat /\ 0 + Len(mtu) <= Len(mtu)
      BY <1>2, <1>5
    <3>2. a \in Seq(Byte) /\ mtu \in Seq(Byte)
      BY <1>5, <1>9
    <3> QED BY <3>1, <3>2, SliceOfRight
  <2>2. Slice(mtu, 0, Len(mtu)) = mtu
    BY <1>5, SliceAll
  <2>3. Len(a) + 0 = A + I
    BY <1>2, <1>9
  <2> HIDE DEF b, a
  <2> QED BY <1>5, <2>1, <2>2, <2>3
<1> HIDE DEF a
<1>11. b \in Seq(Byte) /\ Len(b) = A + I + M
  BY <1>5, <1>9, JoinIs
<1>12. Slice(c, A + I, M) = Slice(b, A + I, M)
  <2> HIDE DEF b
  <2> QED BY <1>2, <1>6, <1>11, SliceOfLeft
<1> HIDE DEF b
<1>13. c \in Seq(Byte) /\ Len(c) = A + I + M + C
  BY <1>6, <1>11, JoinIs
<1> HIDE DEF c
<1>14. sig \in Seq(Byte) /\ Len(sig) = 1 + (A + I + M + C)
  BY <1>7, <1>13, JoinIs
<1> HIDE DEF sig
<1>15. p \in Seq(Byte) /\ Len(p) = A + I + M + C + S
  <2>1. p \in Seq(Byte) /\ Len(p) = Len(c) + Len(sig)
    BY <1>13, <1>14, JoinIs
  <2> HIDE DEF p
  <2> QED BY <1>2, <1>13, <1>14, <2>1
<1>16. Slice(p, A + I, M) = Slice(c, A + I, M)
  BY <1>2, <1>13, <1>14, SliceOfLeft
<1> HIDE DEF p
<1>17. Slice(p, A + I, M) = mtu
  BY <1>10, <1>12, <1>16
<1>18. AuthMessage \in Message
  <2>1. AuthMessage = [ty |-> "Auth", payload |-> p]
    BY <1>1 DEF AuthMessage
  <2> QED BY <1>15, <2>1 DEF Message, MessageType
<1>19. /\ AuthPayload_decode(p).ok
       /\ AuthPayload_decode(p).value.tun_mtu = from_be_bytes(Slice(p, A + I, M))
  BY <1>3, <1>15 DEF AuthPayload_decode, decode_fixed, Ok, A, I, M
<1>20. Len(p) = AUTH_PAYLOAD_LEN
  BY <1>3, <1>15
<1> QED BY <1>1, <1>8, <1>17, <1>18, <1>19, <1>20

LEMMA AuthMessageIsFine ==
    ASSUME ConfigOK
    PROVE  /\ validate_message(AuthMessage, Context("Client", "Authentication")).ok
           /\ Fits(Len(AuthMessage.payload), Width.length)
           /\ Admits(from_mtu(config.server_mtu), AuthMessage)
<1>1. decode_payload(AuthMessage) = AuthPayload_decode(AuthMessage.payload)
  BY AuthMessageIs DEF decode_payload
<1>2. validate_message(AuthMessage, Context("Client", "Authentication")).ok
  BY <1>1, AuthMessageIs, AuthPhase, ValidIs
<1> DEFINE n == Len(AuthMessage.payload)
<1>3. n \in Nat /\ n <= MAX_CONTROL_FRAME_LEN
  BY AuthMessageIs, MessageIs, WireAssumption
<1> HIDE DEF n
<1>4. Fits(n, Width.length)
  BY <1>3, FieldAssumption, MaxControlIs, SmallerFits, WidthIs
<1>5. n <= from_mtu(config.server_mtu).max_frame_len
  BY <1>3, ConfigIs, FromMtuIs, MaxControlIs DEF IsLimits
<1> QED BY <1>2, <1>4, <1>5, AuthMessageIs DEF n, Admits

\* What verify_auth_payload accepts is what an enabled client of the allowlist signs.
LEMMA AcceptedIsGood ==
    ASSUME NEW m \in Message, m.ty = "Auth", AuthPayload_decode(m.payload).ok,
           verify_auth_payload(AuthPayload_decode(m.payload).value) = "Accepted"
    PROVE  /\ GoodAuth(m)
           /\ AuthPayload_decode(m.payload).value.tun_mtu = config.server_mtu
<1> DEFINE v == AuthPayload_decode(m.payload).value
           entry == Allowlist[v.client_id]
           c == [client_id |-> v.client_id, assigned_ipv4 |-> entry.assigned_ipv4,
                 key |-> entry.key, tun_mtu |-> config.server_mtu]
           w == build_auth_payload(c, challenge)
<1>1. AuthPayload_encode(v) = m.payload
  BY AuthIsCanonical, MessageIs
<1> HIDE DEF v
<1>2. verify_auth_payload(v) = "Accepted"
  BY DEF v
<1>3. /\ v.client_id \in DOMAIN Allowlist /\ entry.enabled
      /\ entry.assigned_ipv4 = v.assigned_ipv4 /\ v.tun_mtu = config.server_mtu
      /\ v.challenge = challenge
      /\ verify_strict(entry.key, auth_signature_context(v.client_id, v.assigned_ipv4, v.tun_mtu,
                                                         challenge), v.signature)
  <2> HIDE DEF entry
  <2>1. v.client_id \in DOMAIN Allowlist
    BY <1>2 DEF verify_auth_payload
  <2>2. entry.enabled
    BY <1>2, <2>1 DEF verify_auth_payload, entry
  <2> QED BY <1>2, <2>1, <2>2 DEF verify_auth_payload, entry
<1>4. /\ w.client_id = v.client_id /\ w.assigned_ipv4 = v.assigned_ipv4
      /\ w.tun_mtu = v.tun_mtu /\ w.challenge = v.challenge /\ w.signature = v.signature
  <2>1. /\ c.client_id = v.client_id /\ c.assigned_ipv4 = entry.assigned_ipv4
        /\ c.key = entry.key /\ c.tun_mtu = config.server_mtu
    OBVIOUS
  <2> HIDE DEF c, entry
  <2>2. /\ w.client_id = c.client_id /\ w.assigned_ipv4 = c.assigned_ipv4
        /\ w.tun_mtu = c.tun_mtu /\ w.challenge = challenge
        /\ w.signature = Sign(c.key, auth_signature_context(c.client_id, c.assigned_ipv4,
                                                            c.tun_mtu, challenge))
    BY DEF build_auth_payload
  <2> HIDE DEF w
  <2> QED BY <1>3, <2>1, <2>2, Zenon DEF verify_strict
<1>5. encode_payload("Auth", w) = m.payload
  <2>1. encode_payload("Auth", w) = AuthPayload_encode(w)
    BY DEF encode_payload
  <2> HIDE DEF w
  <2>2. AuthPayload_encode(w) = AuthPayload_encode(v)
    BY <1>4, Zenon DEF AuthPayload_encode
  <2> QED BY <1>1, <2>1, <2>2
<1>6. GoodAuth(m)
  BY <1>3, <1>5, Zenon DEF GoodAuth
<1> QED BY <1>3, <1>6 DEF v

LEMMA VerdictIs ==
    ASSUME NEW v
    PROVE  verify_auth_payload(v) \in {"UnknownClient", "Disabled", "BadSignature", "IpMismatch",
                                       "ChallengeInvalid", "MtuMismatch", "Accepted"}
BY DEF verify_auth_payload

\* The answers of the server.
LEMMA AnswersAre ==
    /\ AuthOkMessage \in Message
    /\ validate_message(AuthOkMessage, Context("Server", "Authentication")).ok
    /\ Len(AuthOkMessage.payload) = 0
    /\ \A x \in {"UnknownClient", "Disabled", "BadSignature", "IpMismatch", "ChallengeInvalid",
                 "MtuMismatch"} :
          /\ AuthFailMessage(x) \in Message
          /\ validate_message(AuthFailMessage(x), Context("Server", "Authentication")).ok
          /\ Len(AuthFailMessage(x).payload) = 1
<1>1. /\ AuthOkMessage \in Message /\ AuthOkMessage.ty = "AuthOk" /\ AuthOkMessage.payload = <<>>
      /\ Len(AuthOkMessage.payload) = 0
  BY DEF AuthOkMessage, Message, MessageType
<1>2. decode_payload(AuthOkMessage).ok
  <2>1. decode_payload(AuthOkMessage) = AuthOkPayload_decode(<<>>)
    BY <1>1 DEF decode_payload
  <2> QED BY <2>1 DEF AuthOkPayload_decode, decode_fixed, Ok
<1>3. validate_message(AuthOkMessage, Context("Server", "Authentication")).ok
  BY <1>1, <1>2, AuthPhase, ValidIs
<1>4. ASSUME NEW x \in {"UnknownClient", "Disabled", "BadSignature", "IpMismatch",
                        "ChallengeInvalid", "MtuMismatch"}
      PROVE  /\ AuthFailMessage(x) \in Message
             /\ validate_message(AuthFailMessage(x), Context("Server", "Authentication")).ok
             /\ Len(AuthFailMessage(x).payload) = 1
  <2> DEFINE c == AuthFailCode[x]
             p == <<c>>
             w == AuthFailMessage(x)
  <2>1. c \in Byte /\ c \in Codes(AuthFailCode)
    BY DEF AuthFailCode, Codes, Byte
  <2> HIDE DEF c
  <2>2. p \in Seq(Byte) /\ Len(p) = 1 /\ p[1] = c
    BY <2>1
  <2>3. w = [ty |-> "AuthFail", payload |-> p]
    BY DEF AuthFailMessage, c
  <2> HIDE DEF p, w
  <2>4. w \in Message /\ w.ty = "AuthFail" /\ w.payload = p
    BY <2>2, <2>3 DEF Message, MessageType
  <2>5. decode_payload(w) = AuthFailPayload_decode(p)
    BY <2>4 DEF decode_payload
  <2>6. decode_payload(w).ok
    BY <2>1, <2>2, <2>5 DEF AuthFailPayload_decode, decode_code, Ok
  <2>7. validate_message(w, Context("Server", "Authentication")).ok
    BY <2>4, <2>6, AuthPhase, ValidIs
  <2> QED BY <2>2, <2>4, <2>7 DEF w
<1> QED BY <1>1, <1>3, <1>4

\* ... and their frames fit the limit of the client while it authenticates.
LEMMA AnswersFit ==
    ASSUME NEW m \in Message, Len(m.payload) <= 1, m.ty # "Data"
    PROVE  /\ Fits(Len(m.payload), Width.length)
           /\ Admits([max_frame_len |-> AUTH_MAX_FRAME, max_data_len |-> AUTH_MAX_FRAME], m)
<1> DEFINE n == Len(m.payload)
<1>1. n \in Nat
  BY MessageIs
<1> HIDE DEF n
<1>2. n <= MAX_CONTROL_FRAME_LEN
  BY <1>1, MaxControlIs DEF n
<1>3. Fits(n, Width.length)
  BY <1>1, <1>2, FieldAssumption, MaxControlIs, SmallerFits, WidthIs
<1>4. n <= AUTH_MAX_FRAME
  BY <1>1, <1>2, FieldAssumption, WireAssumption, MaxControlIs
<1> QED BY <1>3, <1>4 DEF n, Admits

------------------------------------------------------------------------------
(* What a step does to an end                                              *)

\* validate_message leaves nothing but the arms.
LEMMA AuthArmsAre ==
    ASSUME NEW m \in Message
    PROVE  /\ validate_message(m, Context("Server", "Authentication")).ok
                => m.ty \in {"AuthOk", "AuthFail", "Ping", "Pong", "Close"}
           /\ validate_message(m, Context("Client", "Authentication")).ok
                => m.ty \in {"Auth", "Ping", "Pong", "Close"}
<1>1. \A e \in Endpoint : validate_message(m, Context(e, "Authentication")).ok
        => is_valid_direction(m.ty, e) /\ is_valid_phase(m.ty, "Authentication")
  BY ValidIs
<1>2. is_valid_phase(m.ty, "Authentication")
        => m.ty \in {"Auth", "AuthOk", "AuthFail", "Ping", "Pong", "Close"}
  BY DEF is_valid_phase
<1>3. is_valid_direction(m.ty, "Server") => m.ty # "Auth"
  BY DEF is_valid_direction, Symmetric
<1>4. is_valid_direction(m.ty, "Client") => m.ty \notin {"AuthOk", "AuthFail"}
  BY DEF is_valid_direction, Symmetric
<1> QED BY <1>1, <1>2, <1>3, <1>4 DEF Endpoint

LEMMA SessionArmsAre ==
    ASSUME NEW m \in Message, NEW e \in Endpoint,
           validate_message(m, Context(Peer(e), "Established")).ok
    PROVE  m.ty \in SessionArms(e)
<1>1. /\ is_valid_direction(m.ty, Peer(e)) /\ is_valid_phase(m.ty, "Established")
      /\ is_valid_transport(m.ty, "Tcp")
  BY ValidIs
<1>2. /\ m.ty \notin {"Auth", "AuthOk", "AuthFail"}
      /\ m.ty \notin {"UpgradeProbe", "UpgradeProbeAck"}
  BY <1>1 DEF is_valid_phase, is_valid_transport
<1>3. CASE e = "Client"
  BY <1>1, <1>2, <1>3 DEF Peer, is_valid_direction, SessionArms
<1>4. CASE e = "Server"
  BY <1>1, <1>2, <1>4 DEF Peer, is_valid_direction, SessionArms
<1> QED BY <1>3, <1>4 DEF Endpoint

KeyStep(o, n) ==
    \/ /\ o.until_update > 1
       /\ n.until_update = o.until_update - 1 /\ n.updates = o.updates
    \/ /\ o.until_update = 1
       /\ n.until_update = KeyUpdateInterval /\ n.updates = o.updates + 1

SameKeys(o, n) == n.until_update = o.until_update /\ n.updates = o.updates

LEMMA EndIs ==
    ASSUME NEW b \in End
    PROVE  /\ b.pc \in Pc /\ b.read_buf \in Seq(Byte) /\ b.result \in Result
           /\ b.until_update \in 1..KeyUpdateInterval /\ b.updates \in Nat
           /\ b.authenticated \in BOOLEAN /\ b.sent \in Seq(Message) /\ b.popped \in Seq(Message)
BY DEF End

LEMMA FinishedIs ==
    ASSUME NEW b \in End, NEW r \in Result
    PROVE  LET n == Finished(b, r)
           IN  /\ n \in End /\ n.pc = "Done" /\ n.read_buf = <<>> /\ n.result = r
               /\ SameKeys(b, n) /\ n.authenticated = b.authenticated
               /\ n.sent = b.sent /\ n.popped = b.popped
<1>1. <<>> \in Seq(Byte) /\ "Done" \in Pc
  BY DEF Pc
<1> QED BY <1>1 DEF Finished, End, SameKeys

LEMMA PcIs ==
    ASSUME NEW b \in End, NEW x \in Pc
    PROVE  LET n == [b EXCEPT !.pc = x]
           IN  /\ n \in End /\ n.pc = x /\ n.read_buf = b.read_buf /\ n.result = b.result
               /\ SameKeys(b, n) /\ n.authenticated = b.authenticated
               /\ n.sent = b.sent /\ n.popped = b.popped
BY DEF End, SameKeys

LEMMA StartIs ==
    ASSUME NEW b \in End
    PROVE  LET n == SessionStart(b)
           IN  /\ n \in End /\ n.pc \in SessionPc /\ n.read_buf = b.read_buf /\ n.result = b.result
               /\ n.pc = "Read" => b.read_buf = <<>>
               /\ SameKeys(b, n) /\ n.authenticated = TRUE
               /\ n.sent = b.sent /\ n.popped = b.popped
<1> DEFINE x == IF b.read_buf = <<>> THEN "Read" ELSE "Drain"
           n == SessionStart(b)
<1>1. n = [b EXCEPT !.authenticated = TRUE, !.pc = x]
  BY DEF SessionStart
<1>2. x \in Pc /\ x \in SessionPc /\ (x = "Read" => b.read_buf = <<>>)
  BY DEF Pc, SessionPc
<1> HIDE DEF x
<1>3. n \in End /\ n.pc = x /\ n.read_buf = b.read_buf /\ n.result = b.result
      /\ SameKeys(b, n) /\ n.authenticated = TRUE /\ n.sent = b.sent /\ n.popped = b.popped
  BY <1>1, <1>2 DEF End, SameKeys
<1> HIDE DEF n
<1>4. n.pc \in SessionPc /\ (n.pc = "Read" => b.read_buf = <<>>)
  BY <1>2, <1>3
<1> QED BY <1>3, <1>4 DEF n

LEMMA TakenIs ==
    ASSUME NEW e, ends[e] \in End, NEW m \in Message, Popped(e).rest \in Seq(Byte)
    PROVE  LET n == Taken(e, m)
           IN  /\ n \in End /\ n.pc = ends[e].pc /\ n.read_buf = Popped(e).rest
               /\ n.result = ends[e].result
               /\ SameKeys(ends[e], n) /\ n.authenticated = ends[e].authenticated
               /\ n.sent = ends[e].sent /\ n.popped = Append(ends[e].popped, m)
<1> DEFINE o == ends[e]
           r == Popped(e).rest
           q == Append(o.popped, m)
<1>1. Taken(e, m) = [o EXCEPT !.read_buf = r, !.popped = q]
  BY DEF Taken
<1>2. q \in Seq(Message)
  BY DEF End
<1> HIDE DEF o, r, q
<1>3. o \in End /\ r \in Seq(Byte)
  BY DEF o, r
<1>4. LET n == [o EXCEPT !.read_buf = r, !.popped = q]
      IN  /\ n \in End /\ n.pc = o.pc /\ n.read_buf = r /\ n.result = o.result
          /\ SameKeys(o, n) /\ n.authenticated = o.authenticated
          /\ n.sent = o.sent /\ n.popped = q
  BY <1>2, <1>3 DEF End, SameKeys
<1> QED BY <1>1, <1>4 DEF o, r, q

LEMMA WrittenIs ==
    ASSUME NEW b \in End, NEW m \in Message
    PROVE  LET n == write_message(b, m)
           IN  /\ n \in End /\ n.pc = b.pc /\ n.read_buf = b.read_buf /\ n.result = b.result
               /\ KeyStep(b, n) /\ n.authenticated = b.authenticated
               /\ n.sent = Append(b.sent, m) /\ n.popped = b.popped
<1> DEFINE k == maybe_request_key_update(b)
           q == Append(b.sent, m)
<1>1. KeyUpdateInterval \in Nat \ {0}
  BY WireAssumption
<1>2. b.until_update \in 1..KeyUpdateInterval /\ b.updates \in Nat
  BY EndIs
<1>3. /\ k \in End /\ k.pc = b.pc /\ k.read_buf = b.read_buf /\ k.result = b.result
      /\ KeyStep(b, k) /\ k.authenticated = b.authenticated /\ k.sent = b.sent
      /\ k.popped = b.popped
  <2>1. CASE b.until_update > 1
    <3>1. k = [b EXCEPT !.until_update = b.until_update - 1]
      BY <2>1 DEF maybe_request_key_update
    <3>2. b.until_update - 1 \in 1..KeyUpdateInterval
      BY <1>1, <1>2, <2>1
    <3> HIDE DEF k
    <3> QED BY <2>1, <3>1, <3>2 DEF End, KeyStep
  <2>2. CASE ~(b.until_update > 1)
    <3>1. k = [b EXCEPT !.until_update = KeyUpdateInterval, !.updates = b.updates + 1]
      BY <2>2 DEF maybe_request_key_update
    <3>2. b.until_update = 1 /\ KeyUpdateInterval \in 1..KeyUpdateInterval /\ b.updates + 1 \in Nat
      BY <1>1, <1>2, <2>2
    <3> HIDE DEF k
    <3> QED BY <3>1, <3>2 DEF End, KeyStep
  <2> QED BY <2>1, <2>2
<1>4. q \in Seq(Message)
  BY EndIs
<1>5. write_message(b, m) = [k EXCEPT !.sent = q]
  BY <1>3 DEF write_message
<1> HIDE DEF k, q
<1>6. LET n == [k EXCEPT !.sent = q]
      IN  /\ n \in End /\ n.pc = k.pc /\ n.read_buf = k.read_buf /\ n.result = k.result
          /\ n.until_update = k.until_update /\ n.updates = k.updates
          /\ n.authenticated = k.authenticated /\ n.sent = q /\ n.popped = k.popped
  BY <1>3, <1>4 DEF End
<1> QED BY <1>3, <1>5, <1>6 DEF q, KeyStep

\* How many messages the two counters of the key updater stand for.
KeysOK(b) == Len(b.sent) = b.updates * KeyUpdateInterval + (KeyUpdateInterval - b.until_update)

LEMMA KeysStep ==
    ASSUME NEW o \in End, NEW n \in End, KeysOK(o), KeyStep(o, n), Len(n.sent) = Len(o.sent) + 1
    PROVE  KeysOK(n)
<1> DEFINE K == KeyUpdateInterval
           u == o.updates
           x == o.until_update
           l == Len(o.sent)
<1>1. K \in Nat /\ u \in Nat /\ x \in 1..K /\ l \in Nat
  BY WireAssumption, EndIs
<1>2. l = u * K + (K - x)
  BY DEF KeysOK
<1>3. CASE x > 1 /\ n.until_update = x - 1 /\ n.updates = u
  <2>1. Len(n.sent) = n.updates * K + (K - n.until_update)
    <3> DEFINE p == u * K
    <3>1. p \in Nat /\ l = p + (K - x) /\ n.updates * K = p
      BY <1>1, <1>2, <1>3
    <3> HIDE DEF p, K, u, x, l
    <3>2. Len(n.sent) = l + 1
      BY DEF l
    <3> QED BY <1>1, <1>3, <3>1, <3>2
  <2> QED BY <2>1 DEF KeysOK
<1>4. CASE x = 1 /\ n.until_update = K /\ n.updates = u + 1
  <2>1. Len(n.sent) = n.updates * K + (K - n.until_update)
    <3> DEFINE p == u * K
    <3>1. p \in Nat /\ l = p + (K - x) /\ n.updates * K = p + K
      <4>1. (u + 1) * K = u * K + K /\ u * K \in Nat
        <5> HIDE DEF K, u
        <5> QED BY <1>1
      <4> QED BY <1>2, <1>4, <4>1
    <3> HIDE DEF p, K, u, x, l
    <3>2. Len(n.sent) = l + 1
      BY DEF l
    <3> QED BY <1>1, <1>4, <3>1, <3>2
  <2> QED BY <2>1 DEF KeysOK
<1> QED BY <1>3, <1>4 DEF KeyStep

LEMMA QuotientIs ==
    ASSUME NEW K \in Nat, NEW u \in Nat, NEW r \in Nat, r < K
    PROVE  (u * K + r) \div K = u
<1> DEFINE a == u * K + r
           q == a \div K
<1>1. K > 0 /\ a \in Nat
  OBVIOUS
<1>2. q \in Nat /\ q * K <= a /\ a < (q + 1) * K
  <2> HIDE DEF a
  <2>1. q \in Nat /\ a = K * q + (a % K) /\ 0 <= a % K /\ a % K < K
    BY <1>1
  <2> QED BY <1>1, <2>1
<1>3. q <= u
  <2>1. SUFFICES ASSUME q >= u + 1 PROVE FALSE
    BY <1>2
  <2> HIDE DEF q
  <2>2. q * K >= (u + 1) * K
    BY <1>1, <1>2, <2>1
  <2> QED BY <1>2, <2>2
<1>4. q >= u
  <2>1. SUFFICES ASSUME q + 1 <= u PROVE FALSE
    BY <1>2
  <2> HIDE DEF q
  <2>2. (q + 1) * K <= u * K
    BY <1>1, <1>2, <2>1
  <2> QED BY <1>2, <2>2
<1> QED BY <1>2, <1>3, <1>4

LEMMA KeysAre ==
    ASSUME NEW b \in End, KeysOK(b)
    PROVE  b.updates = Len(b.sent) \div KeyUpdateInterval
<1> DEFINE K == KeyUpdateInterval
           r == K - b.until_update
<1>1. K \in Nat /\ b.updates \in Nat /\ r \in Nat /\ r < K
  BY WireAssumption, EndIs
<1>2. Len(b.sent) = b.updates * K + r
  BY DEF KeysOK
<1> HIDE DEF r, K
<1>3. (b.updates * K + r) \div K = b.updates
  BY <1>1, QuotientIs
<1> QED BY <1>2, <1>3 DEF K

\* The limits of an end in a state of its loop.
LimitsAt(e, pc) ==
    IF e = "Server" THEN from_mtu(config.server_mtu)
    ELSE IF pc \in AuthPc
         THEN [max_frame_len |-> AUTH_MAX_FRAME, max_data_len |-> AUTH_MAX_FRAME]
         ELSE from_mtu(config.tun_mtu)

LEMMA LimitsAtPc == ASSUME NEW e PROVE limits(e) = LimitsAt(e, ends[e].pc)
BY DEF limits, LimitsAt

\* What holds of an end between two steps, whoever it talks to.
Calm(e, n) ==
    /\ n.pc \in {"AuthRead", "Read"}
            => pop_message_buf(n.read_buf, LimitsAt(e, n.pc)).decoded = Ok(None)
    /\ n.pc \in {"Peek", "Tls", "Connected", "Done", "Foreign"} => n.read_buf = <<>>
    /\ e = "Client" => n.pc \notin {"Peek", "Tls"}
    /\ e = "Server" => n.pc # "Connected"
    /\ n.pc # "Done" => n.result = "None"
    /\ n.result # "Panic"

\* An end takes no message out of its buffer (`in` is empty), or one.
Incoming(e, n, in) ==
    \/ /\ in = <<>> /\ n.popped = ends[e].popped
       /\ n.read_buf = ends[e].read_buf \/ n.pc = "Done"
    \/ \E m \in Message :
        /\ in = <<m>> /\ Popped(e).decoded = Ok(Some(m)) /\ n.popped = Append(ends[e].popped, m)
        /\ n.read_buf = Popped(e).rest \/ n.pc = "Done"

\* It writes nothing, a message (`out`), or a part of one, and then it is done.
Outgoing(e, n, bytes, out) ==
    \/ /\ out = <<>> /\ bytes = <<>> /\ n.sent = ends[e].sent /\ SameKeys(ends[e], n)
    \/ \E m \in Message :
        /\ out = <<m>> /\ bytes = encode_frame(m) /\ ~broken
        /\ n.sent = Append(ends[e].sent, m) /\ KeyStep(ends[e], n)
    \/ \E m \in Message :
        /\ out = <<m>> /\ n.pc = "Done" /\ n.sent = ends[e].sent /\ SameKeys(ends[e], n)
        /\ \E k \in Nat : /\ k < Len(encode_frame(m)) /\ (broken => k = 0)
                          /\ bytes = SubSeq(encode_frame(m), 1, k)

Mech(e, n, bytes, in, out) ==
    /\ n \in End /\ bytes \in Seq(Byte)
    /\ Incoming(e, n, in) /\ Outgoing(e, n, bytes, out)

\* An end that has taken `in` and written nothing yet.
Base(e, b, in) ==
    b \in End /\ Incoming(e, b, in) /\ b.sent = ends[e].sent /\ SameKeys(ends[e], b)

LEMMA QuietMoves ==
    ASSUME NEW e, NEW b, NEW in, Base(e, b, in), Quiet(e, b)
    PROVE  Step(e, b, <<>>) /\ Mech(e, b, <<>>, in, <<>>)
<1>1. Step(e, b, <<>>)
  BY DEF Quiet
<1>2. <<>> \in Seq(Byte)
  OBVIOUS
<1> QED BY <1>1, <1>2 DEF Base, Mech, Outgoing

LEMMA FinishMoves ==
    ASSUME NEW e, NEW b, NEW in, Base(e, b, in), NEW r \in Result, Finish(e, b, r)
    PROVE  LET n == Finished(b, r)
           IN  /\ Step(e, n, <<>>) /\ Mech(e, n, <<>>, in, <<>>)
               /\ n.pc = "Done" /\ n.result = r /\ n.read_buf = <<>>
               /\ n.authenticated = b.authenticated
<1> DEFINE n == Finished(b, r)
<1>1. /\ n \in End /\ n.pc = "Done" /\ n.read_buf = <<>> /\ n.result = r
      /\ SameKeys(b, n) /\ n.authenticated = b.authenticated
      /\ n.sent = b.sent /\ n.popped = b.popped
  BY FinishedIs DEF Base
<1>2. Quiet(e, n)
  BY DEF Finish
<1> HIDE DEF n
<1>3. Base(e, n, in)
  BY <1>1 DEF Base, Incoming, SameKeys
<1>4. Step(e, n, <<>>) /\ Mech(e, n, <<>>, in, <<>>)
  BY <1>2, <1>3, QuietMoves
<1> QED BY <1>1, <1>4 DEF n

\* A prefix of a frame is a sequence of bytes.
LEMMA PartIs ==
    ASSUME NEW m \in Message, NEW k \in Nat, k < Len(encode_frame(m))
    PROVE  SubSeq(encode_frame(m), 1, k) \in Seq(Byte)
<1> DEFINE f == encode_frame(m)
<1>1. f \in Seq(Byte)
  BY EncodeIs
<1>2. Slice(f, 0, k) \in Seq(Byte)
  <2>1. 0 + k <= Len(f) /\ 0 \in Nat
    OBVIOUS
  <2> HIDE DEF f
  <2> QED BY <1>1, <2>1, SliceIs
<1>3. Slice(f, 0, k) = SubSeq(f, 1, k)
  BY DEF Slice
<1> QED BY <1>2, <1>3

\* A write that fails.
LEMMA CutMoves ==
    ASSUME NEW e, NEW b, NEW in, Base(e, b, in), NEW m \in Message, NEW r \in Result,
           WriteFails(e, b, m, r)
    PROVE  \E n, bytes : /\ Step(e, n, bytes) /\ Mech(e, n, bytes, in, <<m>>)
                         /\ n.pc = "Done" /\ n.result = r /\ n.read_buf = <<>>
                         /\ n.authenticated = b.authenticated
<1> DEFINE n == Finished(b, r)
           f == encode_frame(m)
<1>1. /\ n \in End /\ n.pc = "Done" /\ n.read_buf = <<>> /\ n.result = r
      /\ SameKeys(b, n) /\ n.authenticated = b.authenticated
      /\ n.sent = b.sent /\ n.popped = b.popped
  BY FinishedIs DEF Base
<1>2. Len(f) \in Nat /\ Len(f) >= 1
  BY EncodeIs, MessageIs, HeaderIs, WidthIs
<1>3. PICK k \in 0..(IF broken THEN 0 ELSE Len(f) - 1) : Step(e, n, SubSeq(f, 1, k))
  BY DEF WriteFails
<1>4. k \in Nat /\ k < Len(f) /\ (broken => k = 0)
  BY <1>2, <1>3
<1> DEFINE bytes == SubSeq(f, 1, k)
<1>5. bytes \in Seq(Byte)
  BY <1>4, PartIs
<1> HIDE DEF n
<1>6. Incoming(e, n, in)
  BY <1>1 DEF Base, Incoming
<1>7. Outgoing(e, n, bytes, <<m>>)
  BY <1>1, <1>4 DEF Base, Outgoing, SameKeys
<1> HIDE DEF bytes
<1>8. Mech(e, n, bytes, in, <<m>>)
  BY <1>1, <1>5, <1>6, <1>7 DEF Mech
<1>9. Step(e, n, bytes)
  BY <1>3 DEF bytes
<1> QED BY <1>1, <1>8, <1>9

\* A write that succeeds.
LEMMA WholeMoves ==
    ASSUME NEW e, NEW b, NEW in, Base(e, b, in), NEW m \in Message, ~broken
    PROVE  LET n == write_message(b, m)
           IN  /\ Mech(e, n, encode_frame(m), in, <<m>>)
               /\ n.pc = b.pc /\ n.result = b.result /\ n.read_buf = b.read_buf
               /\ n.authenticated = b.authenticated
<1> DEFINE n == write_message(b, m)
<1>1. /\ n \in End /\ n.pc = b.pc /\ n.read_buf = b.read_buf /\ n.result = b.result
      /\ KeyStep(b, n) /\ n.authenticated = b.authenticated
      /\ n.sent = Append(b.sent, m) /\ n.popped = b.popped
  BY WrittenIs DEF Base
<1> HIDE DEF n
<1>2. Incoming(e, n, in)
  BY <1>1 DEF Base, Incoming
<1>3. n.sent = Append(ends[e].sent, m) /\ KeyStep(ends[e], n)
  BY <1>1 DEF Base, KeyStep, SameKeys
<1>4. Outgoing(e, n, encode_frame(m), <<m>>)
  BY <1>3 DEF Outgoing
<1> QED BY <1>1, <1>2, <1>4, EncodeIs DEF Mech, n

LEMMA WriteMoves ==
    ASSUME NEW e, NEW b, NEW in, Base(e, b, in), NEW m \in Message, Write(e, b, m)
    PROVE  \E n, bytes :
              /\ Step(e, n, bytes) /\ Mech(e, n, bytes, in, <<m>>)
              /\ n.authenticated = b.authenticated
              /\ \/ n.pc = b.pc /\ n.result = b.result /\ n.read_buf = b.read_buf
                 \/ n.pc = "Done" /\ n.result = "Connection" /\ n.read_buf = <<>>
<1>1. CASE ~broken /\ Step(e, write_message(b, m), encode_frame(m))
  BY <1>1, WholeMoves
<1>2. CASE WriteFails(e, b, m, "Connection")
  <2>1. "Connection" \in Result
    BY DEF Result
  <2>2. \E n, bytes : /\ Step(e, n, bytes) /\ Mech(e, n, bytes, in, <<m>>)
                      /\ n.pc = "Done" /\ n.result = "Connection" /\ n.read_buf = <<>>
                      /\ n.authenticated = b.authenticated
    BY <1>2, <2>1, CutMoves
  <2> QED BY <2>2
<1> QED BY <1>1, <1>2 DEF Write

LEMMA CloseMoves ==
    ASSUME NEW e, NEW b, NEW in, Base(e, b, in), NEW r \in Result, NEW code \in Codes(CloseCode),
           FinishWithClose(e, b, r, code)
    PROVE  \E n, bytes : /\ Step(e, n, bytes) /\ Mech(e, n, bytes, in, <<Close(code)>>)
                         /\ n.pc = "Done" /\ n.result = r /\ n.read_buf = <<>>
                         /\ n.authenticated = b.authenticated
<1> DEFINE m == Close(code)
           c == Finished(b, r)
<1>1. m \in Message
  BY CloseIs DEF SessionMessage, Endpoint
<1>2. /\ c \in End /\ c.pc = "Done" /\ c.read_buf = <<>> /\ c.result = r
      /\ SameKeys(b, c) /\ c.authenticated = b.authenticated
      /\ c.sent = b.sent /\ c.popped = b.popped
  BY FinishedIs DEF Base
<1>3. FinishWithClose(e, b, r, code) <=>
        \/ ~broken /\ Step(e, write_message(c, m), encode_frame(m))
        \/ WriteFails(e, b, m, r)
  BY DEF FinishWithClose
<1> HIDE DEF m, c
<1>4. Base(e, c, in)
  BY <1>2 DEF Base, Incoming, SameKeys
<1>5. CASE ~broken /\ Step(e, write_message(c, m), encode_frame(m))
  <2> DEFINE n == write_message(c, m)
  <2>1. /\ Mech(e, n, encode_frame(m), in, <<m>>)
        /\ n.pc = c.pc /\ n.result = c.result /\ n.read_buf = c.read_buf
        /\ n.authenticated = c.authenticated
    BY <1>1, <1>4, <1>5, WholeMoves
  <2> HIDE DEF n
  <2> QED BY <1>2, <1>5, <2>1 DEF n, m
<1>6. CASE WriteFails(e, b, m, r)
  BY <1>1, <1>6, CutMoves DEF m
<1> QED BY <1>3, <1>5, <1>6

------------------------------------------------------------------------------
(* What an end does with what it takes and what it writes                  *)

Benign == Result \ {"Frame", "Violation", "AuthProtocolError", "Panic"}

PhaseAt(pc) == IF pc \in AuthPc THEN "Authentication" ELSE "Established"

\* It moves on in its loop.
Idle(e, n, in, out) ==
    /\ in = <<>> /\ out = <<>> /\ n.authenticated = ends[e].authenticated
    /\ \/ ends[e].pc \in {"Peek", "Tls"} /\ n.pc \in {"Peek", "Tls", "AuthRead"}
       \/ ends[e].pc = "AuthDrain" /\ n.pc = "AuthRead"
       \/ ends[e].pc = "Drain" /\ n.pc = "Read"

\* It ends without a word.
Leave(e, n, in, out) ==
    /\ ends[e].pc \notin {"Done", "Foreign"}
    /\ in = <<>> /\ out = <<>> /\ n.pc = "Done" /\ n.result \in Benign
    /\ n.authenticated = ends[e].authenticated

\* It refuses a frame or a message.
Refuse(e, n, in, out) ==
    /\ ends[e].pc \in {"AuthDrain", "Drain"} /\ n.pc = "Done"
    /\ n.authenticated = ends[e].authenticated
    /\ \/ in = <<>> /\ ~Popped(e).decoded.ok
       \/ \E m \in Message :
            in = <<m>> /\ ~validate_message(m, Context(Peer(e), PhaseAt(ends[e].pc))).ok

SendAuth(e, n, in, out) ==
    /\ e = "Client" /\ ends[e].pc = "Connected" /\ n.pc \in {"AuthRead", "Done"}
    /\ in = <<>> /\ out = <<AuthMessage>> /\ n.result \in Benign
    /\ n.authenticated = ends[e].authenticated

\* The server judges an AUTH.
Answer(e, n, in, out) ==
    /\ e = "Server" /\ ends[e].pc = "AuthDrain" /\ n.result \in Benign
    /\ \E m \in Message :
        LET verdict == verify_auth_payload(AuthPayload_decode(m.payload).value)
        IN  /\ in = <<m>> /\ m.ty = "Auth" /\ AuthPayload_decode(m.payload).ok
            /\ \/ /\ verdict = "Accepted" /\ out = <<AuthOkMessage>>
                  /\ n.pc \in SessionPc \cup {"Done"}
                  /\ n.pc \in SessionPc => n.authenticated
               \/ /\ verdict # "Accepted" /\ out = <<AuthFailMessage(verdict)>>
                  /\ n.pc = "Done" /\ n.authenticated = ends[e].authenticated

\* The client learns the verdict.
Learn(e, n, in, out) ==
    /\ e = "Client" /\ ends[e].pc = "AuthDrain" /\ n.result \in Benign /\ out = <<>>
    /\ \E m \in Message :
        /\ in = <<m>>
        /\ \/ m.ty = "AuthOk" /\ n.pc \in SessionPc /\ n.authenticated
           \/ m.ty = "AuthFail" /\ n.pc = "Done" /\ n.authenticated = ends[e].authenticated

\* A PING, a PONG or a CLOSE while an end authenticates.
AuthChat(e, n, in, out) ==
    /\ ends[e].pc = "AuthDrain" /\ n.pc \in {"AuthDrain", "Done"}
    /\ n.authenticated = ends[e].authenticated
    /\ \E m \in Message : in = <<m>> /\ m.ty \in {"Ping", "Pong", "Close"}

Chat(e, n, in, out) ==
    /\ ends[e].pc \in SessionPc /\ n.pc \in SessionPc \cup {"Done"} /\ n.result \in Benign
    /\ n.authenticated = ends[e].authenticated
    /\ out = <<>> \/ \E m \in Message : out = <<m>> /\ SessionMessage(e, m)

Turn(e, n, in, out) ==
    \/ Idle(e, n, in, out) \/ Leave(e, n, in, out) \/ Refuse(e, n, in, out)
    \/ SendAuth(e, n, in, out) \/ Answer(e, n, in, out) \/ Learn(e, n, in, out)
    \/ AuthChat(e, n, in, out) \/ Chat(e, n, in, out)

EndMoves(e) ==
    \E n, bytes, in, out :
        /\ Step(e, n, bytes) /\ Mech(e, n, bytes, in, out) /\ Turn(e, n, in, out) /\ Calm(e, n)

\* Where every end is between two steps.
LocalOK(e, n) ==
    /\ n \in End /\ Calm(e, n) /\ KeysOK(n)
    /\ e = "Server" /\ n.authenticated => \E i \in DOMAIN n.popped : GoodAuth(n.popped[i])
    /\ n.pc = "Foreign" => n.sent = <<>> /\ n.popped = <<>> /\ n.authenticated = FALSE

EndsOK == ConfigOK /\ \A e \in Endpoint : LocalOK(e, ends[e])

LEMMA EndsOKIs ==
    ASSUME EndsOK, NEW e \in Endpoint
    PROVE  ConfigOK /\ ends[e] \in End /\ Calm(e, ends[e])
BY DEF EndsOK, LocalOK

\* Nothing taken, nothing written.
LEMMA SameBase ==
    ASSUME EndsOK, NEW e \in Endpoint
    PROVE  Base(e, ends[e], <<>>)
BY EndsOKIs DEF Base, Incoming, SameKeys

LEMMA PcBase ==
    ASSUME EndsOK, NEW e \in Endpoint, NEW x \in Pc
    PROVE  LET b == [ends[e] EXCEPT !.pc = x]
           IN  /\ Base(e, b, <<>>) /\ b.pc = x /\ b.read_buf = ends[e].read_buf
               /\ b.result = ends[e].result /\ b.authenticated = ends[e].authenticated
<1> DEFINE b == [ends[e] EXCEPT !.pc = x]
<1>1. /\ b \in End /\ b.pc = x /\ b.read_buf = ends[e].read_buf /\ b.result = ends[e].result
      /\ SameKeys(ends[e], b) /\ b.authenticated = ends[e].authenticated
      /\ b.sent = ends[e].sent /\ b.popped = ends[e].popped
  BY EndsOKIs, PcIs
<1> HIDE DEF b
<1> QED BY <1>1 DEF Base, Incoming, b

\* One message taken.
LEMMA TakenBase ==
    ASSUME EndsOK, NEW e \in Endpoint, NEW m \in Message, Popped(e).decoded = Ok(Some(m))
    PROVE  LET b == Taken(e, m)
           IN  /\ Base(e, b, <<m>>) /\ b.pc = ends[e].pc /\ b.read_buf = Popped(e).rest
               /\ b.result = ends[e].result /\ b.authenticated = ends[e].authenticated
<1> DEFINE b == Taken(e, m)
<1>1. Popped(e).rest \in Seq(Byte)
  BY EndsOKIs, EndIs, LimitsAre, PopIs DEF Popped
<1>2. /\ b \in End /\ b.pc = ends[e].pc /\ b.read_buf = Popped(e).rest
      /\ b.result = ends[e].result
      /\ SameKeys(ends[e], b) /\ b.authenticated = ends[e].authenticated
      /\ b.sent = ends[e].sent /\ b.popped = Append(ends[e].popped, m)
  BY <1>1, EndsOKIs, TakenIs
<1> HIDE DEF b
<1> QED BY <1>2 DEF Base, Incoming, b

\* What an end finds when it looks into its buffer.
LEMMA PoppedIs ==
    ASSUME EndsOK, NEW e \in Endpoint, Popped(e).decoded.ok
    PROVE  \/ Popped(e).decoded.value = None /\ Popped(e).decoded = Ok(None)
           \/ /\ Popped(e).decoded.value # None
              /\ \E m \in Message : /\ Popped(e).decoded = Ok(Some(m))
                                    /\ Unwrap(Popped(e).decoded.value) = m
<1> DEFINE d == Popped(e).decoded
<1>1. /\ d = Ok(d.value)
      /\ d.value = None \/ \E m \in Message : d.value = Some(m)
  BY EndsOKIs, EndIs, LimitsAre, PopIs DEF Popped
<1> HIDE DEF d
<1> QED BY <1>1, SomeIs DEF d

LEMMA DoneIsCalm ==
    ASSUME NEW e, NEW n, n.pc = "Done", n.read_buf = <<>>, n.result # "Panic"
    PROVE  Calm(e, n)
BY DEF Calm

\* An end that finishes without a word.
LEMMA LeaveMoves ==
    ASSUME EndsOK, NEW e \in Endpoint, ends[e].pc \notin {"Done", "Foreign"}, NEW r \in Benign,
           Finish(e, ends[e], r)
    PROVE  EndMoves(e)
<1> DEFINE n == Finished(ends[e], r)
<1>1. r \in Result /\ r # "Panic"
  BY DEF Benign
<1>2. /\ Step(e, n, <<>>) /\ Mech(e, n, <<>>, <<>>, <<>>)
      /\ n.pc = "Done" /\ n.result = r /\ n.read_buf = <<>>
      /\ n.authenticated = ends[e].authenticated
  BY <1>1, SameBase, FinishMoves
<1> HIDE DEF n
<1>3. Leave(e, n, <<>>, <<>>)
  BY <1>2 DEF Leave
<1>4. Calm(e, n)
  BY <1>1, <1>2, DoneIsCalm
<1> QED BY <1>2, <1>3, <1>4 DEF EndMoves, Turn

\* An end that pauses: its buffer holds no complete frame.
LEMMA PauseMoves ==
    ASSUME EndsOK, NEW e \in Endpoint, NEW x,
           \/ ends[e].pc = "AuthDrain" /\ x = "AuthRead"
           \/ ends[e].pc = "Drain" /\ x = "Read",
           Popped(e).decoded = Ok(None), Quiet(e, [ends[e] EXCEPT !.pc = x])
    PROVE  EndMoves(e)
<1> DEFINE n == [ends[e] EXCEPT !.pc = x]
<1>1. x \in Pc
  BY DEF Pc
<1>2. /\ Base(e, n, <<>>) /\ n.pc = x /\ n.read_buf = ends[e].read_buf
      /\ n.result = ends[e].result /\ n.authenticated = ends[e].authenticated
  BY <1>1, PcBase
<1>3. Step(e, n, <<>>) /\ Mech(e, n, <<>>, <<>>, <<>>)
  BY <1>2, QuietMoves
<1> HIDE DEF n
<1>4. Idle(e, n, <<>>, <<>>)
  BY <1>2 DEF Idle
<1>5. LimitsAt(e, x) = limits(e)
  BY LimitsAtPc DEF LimitsAt, AuthPc
<1>6. Calm(e, ends[e])
  BY EndsOKIs
<1>7. Calm(e, n)
  BY <1>2, <1>5, <1>6 DEF Calm, Popped
<1> QED BY <1>3, <1>4, <1>7 DEF EndMoves, Turn

------------------------------------------------------------------------------
(* Every handler is one such step                                          *)

LEMMA LeavingMoves ==
    ASSUME EndsOK
    PROVE  /\ \A e \in Endpoint : ReadEof(e) \/ ReadFails(e) \/ AuthTimeout(e) => EndMoves(e)
           /\ ClassificationFails => EndMoves("Server")
           /\ ConnectFails => EndMoves("Client")
<1>1. {"Closed", "AuthDisconnected", "ConnectionClosed", "Connection", "Timeout", "Dropped",
       "TlsHandshake"} \subseteq Benign
  BY DEF Benign, Result
<1>2. ASSUME NEW e \in Endpoint, ReadEof(e) PROVE EndMoves(e)
  <2>1. PICK r \in {"Closed", "AuthDisconnected", "ConnectionClosed"} : Finish(e, ends[e], r)
    BY <1>2 DEF ReadEof
  <2>2. ends[e].pc \notin {"Done", "Foreign"}
    BY <1>2 DEF ReadEof, Reading
  <2> QED BY <1>1, <2>1, <2>2, LeaveMoves
<1>3. ASSUME NEW e \in Endpoint, ReadFails(e) PROVE EndMoves(e)
  BY <1>1, <1>3, LeaveMoves DEF ReadFails, Reading
<1>4. ASSUME NEW e \in Endpoint, AuthTimeout(e) PROVE EndMoves(e)
  BY <1>1, <1>4, LeaveMoves DEF AuthTimeout, AuthPc
<1>5. ASSUME ClassificationFails PROVE EndMoves("Server")
  BY <1>1, <1>5, LeaveMoves DEF ClassificationFails, Endpoint
<1>6. ASSUME ConnectFails PROVE EndMoves("Client")
  BY <1>1, <1>6, LeaveMoves DEF ConnectFails, Endpoint
<1> QED BY <1>2, <1>3, <1>4, <1>5, <1>6

\* The server goes from its first peek to the handshake and to the first read.
LEMMA EntryMoves ==
    ASSUME EndsOK, ends["Server"].pc \in {"Peek", "Tls"}, NEW x \in {"Peek", "Tls", "AuthRead"},
           Quiet("Server", [ends["Server"] EXCEPT !.pc = x])
    PROVE  EndMoves("Server")
<1> DEFINE e == "Server"
           n == [ends[e] EXCEPT !.pc = x]
<1>1. x \in Pc /\ e \in Endpoint
  BY DEF Pc, Endpoint
<1>2. /\ Base(e, n, <<>>) /\ n.pc = x /\ n.read_buf = ends[e].read_buf
      /\ n.result = ends[e].result /\ n.authenticated = ends[e].authenticated
  BY <1>1, PcBase
<1>3. Step(e, n, <<>>) /\ Mech(e, n, <<>>, <<>>, <<>>)
  BY <1>2, QuietMoves
<1> HIDE DEF n
<1>4. Idle(e, n, <<>>, <<>>)
  BY <1>2 DEF Idle
<1>5. Calm(e, ends[e]) /\ ends[e].read_buf = <<>>
  BY <1>1, EndsOKIs DEF Calm
<1>6. pop_message_buf(<<>>, LimitsAt(e, x)).decoded = Ok(None)
  BY <1>1, EndsOKIs, ConfigIs, FromMtuIs, NothingToPop DEF LimitsAt
<1>7. Calm(e, n)
  BY <1>2, <1>5, <1>6 DEF Calm
<1> QED BY <1>3, <1>4, <1>7 DEF EndMoves, Turn

LEMMA ClassifyMoves ==
    ASSUME EndsOK, classify_stream
    PROVE  EndMoves("Server")
<1> DEFINE end == ends["Server"]
<1>1. end.pc = "Peek" /\ "Server" \in Endpoint
  BY DEF classify_stream, Endpoint
<1>2. \/ Quiet("Server", [end EXCEPT !.pc = "Tls"])
      \/ Finish("Server", end, "Passed")
      \/ Quiet("Server", end)
  BY DEF classify_stream
<1>3. CASE Quiet("Server", [end EXCEPT !.pc = "Tls"])
  BY <1>1, <1>3, EntryMoves
<1>4. CASE Finish("Server", end, "Passed")
  <2>1. "Passed" \in Benign
    BY DEF Benign, Result
  <2> QED BY <1>1, <1>4, <2>1, LeaveMoves
<1>5. CASE Quiet("Server", end)
  <2>1. end \in End
    BY <1>1, EndsOKIs
  <2>2. end = [end EXCEPT !.pc = "Peek"]
    BY <1>1, <2>1 DEF End
  <2>3. Quiet("Server", [end EXCEPT !.pc = "Peek"])
    BY <1>5, <2>2
  <2> QED BY <1>1, <2>3, EntryMoves
<1> QED BY <1>2, <1>3, <1>4, <1>5

LEMMA HandshakeMoves ==
    ASSUME EndsOK, tls_handshake
    PROVE  EndMoves("Server")
<1>1. ends["Server"].pc = "Tls" /\ "Server" \in Endpoint
  BY DEF tls_handshake, Endpoint
<1>2. CASE Quiet("Server", [ends["Server"] EXCEPT !.pc = "AuthRead"])
  BY <1>1, <1>2, EntryMoves
<1>3. CASE Finish("Server", ends["Server"], "TlsHandshake")
  <2>1. "TlsHandshake" \in Benign
    BY DEF Benign, Result
  <2> QED BY <1>1, <1>3, <2>1, LeaveMoves
<1> QED BY <1>2, <1>3 DEF tls_handshake

LEMMA SendAuthMoves ==
    ASSUME EndsOK, send_auth
    PROVE  EndMoves("Client")
<1> DEFINE e == "Client"
           b == [ends[e] EXCEPT !.pc = "AuthRead"]
<1>1. e \in Endpoint /\ ends[e].pc = "Connected" /\ "AuthRead" \in Pc
  BY DEF send_auth, Endpoint, Pc
<1>2. Write(e, b, AuthMessage)
  BY DEF send_auth, AuthMessage
<1>3. /\ Base(e, b, <<>>) /\ b.pc = "AuthRead" /\ b.read_buf = ends[e].read_buf
      /\ b.result = ends[e].result /\ b.authenticated = ends[e].authenticated
  BY <1>1, PcBase
<1>4. AuthMessage \in Message
  BY <1>1, EndsOKIs, AuthMessageIs
<1> HIDE DEF b
<1>5. PICK n, bytes :
              /\ Step(e, n, bytes) /\ Mech(e, n, bytes, <<>>, <<AuthMessage>>)
              /\ n.authenticated = b.authenticated
              /\ \/ n.pc = b.pc /\ n.result = b.result /\ n.read_buf = b.read_buf
                 \/ n.pc = "Done" /\ n.result = "Connection" /\ n.read_buf = <<>>
  BY <1>2, <1>3, <1>4, WriteMoves
<1>6. Calm(e, ends[e]) /\ ends[e].read_buf = <<>> /\ ends[e].result = "None"
  BY <1>1, EndsOKIs DEF Calm
<1>7. "None" \in Benign /\ "Connection" \in Benign
  BY DEF Benign, Result
<1>8. SendAuth(e, n, <<>>, <<AuthMessage>>)
  BY <1>1, <1>3, <1>5, <1>6, <1>7 DEF SendAuth
<1>9. IsLimits(LimitsAt(e, "AuthRead"))
  BY FieldAssumption DEF LimitsAt, AuthPc, IsLimits
<1>10. pop_message_buf(<<>>, LimitsAt(e, "AuthRead")).decoded = Ok(None)
  BY <1>9, NothingToPop
<1>11. Calm(e, n)
  BY <1>3, <1>5, <1>6, <1>10 DEF Calm
<1> QED BY <1>5, <1>8, <1>11 DEF EndMoves, Turn

LEMMA SameCalm ==
    ASSUME NEW e, NEW b, NEW n, Calm(e, b),
           n.pc = b.pc, n.result = b.result, n.read_buf = b.read_buf
    PROVE  Calm(e, n)
BY DEF Calm

\* A session that writes, in a state of its loop.
LEMMA ChatWrites ==
    ASSUME EndsOK, NEW e \in Endpoint, ends[e].pc \in SessionPc, NEW b, NEW in, Base(e, b, in),
           b.pc \in SessionPc, b.result = "None", b.authenticated = ends[e].authenticated,
           Calm(e, b), NEW m, SessionMessage(e, m), Write(e, b, m)
    PROVE  EndMoves(e)
<1>1. m \in Message
  BY DEF SessionMessage
<1>2. PICK n, bytes :
              /\ Step(e, n, bytes) /\ Mech(e, n, bytes, in, <<m>>)
              /\ n.authenticated = b.authenticated
              /\ \/ n.pc = b.pc /\ n.result = b.result /\ n.read_buf = b.read_buf
                 \/ n.pc = "Done" /\ n.result = "Connection" /\ n.read_buf = <<>>
  BY <1>1, WriteMoves
<1>3. "None" \in Benign /\ "Connection" \in Benign
  BY DEF Benign, Result
<1>4. Chat(e, n, in, <<m>>)
  BY <1>1, <1>2, <1>3 DEF Chat
<1>5. Calm(e, n)
  BY <1>2, SameCalm, DoneIsCalm
<1> QED BY <1>2, <1>4, <1>5 DEF EndMoves, Turn

\* A session that takes a message and goes on, or ends.
LEMMA ChatTakes ==
    ASSUME EndsOK, NEW e \in Endpoint, ends[e].pc = "Drain", NEW m \in Message,
           Popped(e).decoded = Ok(Some(m)),
           \/ Quiet(e, Taken(e, m))
           \/ Finish(e, Taken(e, m), "RemoteClose")
    PROVE  EndMoves(e)
<1> DEFINE b == Taken(e, m)
<1>1. /\ Base(e, b, <<m>>) /\ b.pc = ends[e].pc /\ b.read_buf = Popped(e).rest
      /\ b.result = ends[e].result /\ b.authenticated = ends[e].authenticated
  BY TakenBase
<1>2. "None" \in Benign /\ "RemoteClose" \in Benign /\ "RemoteClose" \in Result
      /\ "Drain" \in SessionPc
  BY DEF Benign, Result, SessionPc
<1>3. ends[e].result = "None"
  BY EndsOKIs DEF Calm
<1>4. CASE Quiet(e, b)
  <2> HIDE DEF b
  <2>1. Step(e, b, <<>>) /\ Mech(e, b, <<>>, <<m>>, <<>>)
    BY <1>1, <1>4, QuietMoves
  <2>2. Chat(e, b, <<m>>, <<>>)
    BY <1>1, <1>2, <1>3 DEF Chat
  <2>3. Calm(e, b)
    BY <1>1, <1>3 DEF Calm
  <2> QED BY <2>1, <2>2, <2>3 DEF EndMoves, Turn
<1>5. CASE Finish(e, b, "RemoteClose")
  <2> HIDE DEF b
  <2> DEFINE n == Finished(b, "RemoteClose")
  <2>1. /\ Step(e, n, <<>>) /\ Mech(e, n, <<>>, <<m>>, <<>>)
        /\ n.pc = "Done" /\ n.result = "RemoteClose" /\ n.read_buf = <<>>
        /\ n.authenticated = b.authenticated
    BY <1>1, <1>2, <1>5, FinishMoves
  <2> HIDE DEF n
  <2>2. Chat(e, n, <<m>>, <<>>)
    BY <1>1, <1>2, <2>1 DEF Chat
  <2>3. Calm(e, n)
    BY <2>1, DoneIsCalm
  <2> QED BY <2>1, <2>2, <2>3 DEF EndMoves, Turn
<1> QED BY <1>4, <1>5

\* An end that refuses what it finds, and says so.
LEMMA RefuseMoves ==
    ASSUME EndsOK, NEW e \in Endpoint, ends[e].pc \in {"AuthDrain", "Drain"}, NEW b, NEW in,
           Base(e, b, in), b.authenticated = ends[e].authenticated,
           NEW r \in {"Frame", "Violation"},
           \/ in = <<>> /\ ~Popped(e).decoded.ok
           \/ \E m \in Message :
                in = <<m>> /\ ~validate_message(m, Context(Peer(e), PhaseAt(ends[e].pc))).ok,
           \/ FinishWithClose(e, b, r, CloseCode.ProtocolError)
           \/ Finish(e, b, r)
    PROVE  EndMoves(e)
<1>1. r \in Result /\ r # "Panic"
  BY DEF Result
<1>2. CloseCode.ProtocolError \in Codes(CloseCode)
  BY DEF Codes, CloseCode
<1>3. \E n, bytes, out : /\ Step(e, n, bytes) /\ Mech(e, n, bytes, in, out)
                         /\ n.pc = "Done" /\ n.result = r /\ n.read_buf = <<>>
                         /\ n.authenticated = b.authenticated
  <2>1. CASE Finish(e, b, r)
    BY <1>1, <2>1, FinishMoves
  <2>2. CASE FinishWithClose(e, b, r, CloseCode.ProtocolError)
    <3> DEFINE c == CloseCode.ProtocolError
    <3> HIDE DEF c
    <3>1. c \in Codes(CloseCode) /\ FinishWithClose(e, b, r, c)
      BY <1>2, <2>2 DEF c
    <3>2. \E n, bytes : /\ Step(e, n, bytes) /\ Mech(e, n, bytes, in, <<Close(c)>>)
                        /\ n.pc = "Done" /\ n.result = r /\ n.read_buf = <<>>
                        /\ n.authenticated = b.authenticated
      BY <1>1, <3>1, CloseMoves
    <3> QED BY <3>2
  <2> QED BY <2>1, <2>2
<1>4. PICK n, bytes, out : /\ Step(e, n, bytes) /\ Mech(e, n, bytes, in, out)
                           /\ n.pc = "Done" /\ n.result = r /\ n.read_buf = <<>>
                           /\ n.authenticated = b.authenticated
  BY <1>3
<1>5. Refuse(e, n, in, out)
  BY <1>4 DEF Refuse
<1>6. Calm(e, n)
  BY <1>1, <1>4, DoneIsCalm
<1> QED BY <1>4, <1>5, <1>6 DEF EndMoves, Turn

LEMMA SessionReadMoves ==
    ASSUME EndsOK, NEW e \in Endpoint, handle_tcp_read(e)
    PROVE  EndMoves(e)
<1> DEFINE d == Popped(e).decoded
<1>1. ends[e].pc = "Drain" /\ "Drain" \in SessionPc
  BY DEF handle_tcp_read, SessionPc
<1>2. IF ~d.ok THEN FinishWithClose(e, ends[e], "Frame", CloseCode.ProtocolError)
      ELSE IF d.value = None THEN Quiet(e, [ends[e] EXCEPT !.pc = "Read"])
      ELSE handle_tcp_message(e, Unwrap(d.value))
  BY DEF handle_tcp_read
<1>3. CASE ~d.ok
  BY <1>1, <1>2, <1>3, SameBase, RefuseMoves
<1>4. CASE d.ok /\ d.value = None
  <2>1. d = Ok(None)
    BY <1>4, PoppedIs
  <2> QED BY <1>1, <1>2, <1>4, <2>1, PauseMoves
<1>5. CASE d.ok /\ d.value # None
  <2>1. PICK m \in Message : d = Ok(Some(m)) /\ Unwrap(d.value) = m
    BY <1>5, PoppedIs
  <2>2. handle_tcp_message(e, m)
    BY <1>2, <1>5, <2>1
  <2> DEFINE b == Taken(e, m)
             valid == validate_message(m, Context(Peer(e), "Established"))
  <2>3. /\ Base(e, b, <<m>>) /\ b.pc = ends[e].pc /\ b.read_buf = Popped(e).rest
        /\ b.result = ends[e].result /\ b.authenticated = ends[e].authenticated
    BY <2>1, TakenBase
  <2>4. IF ~valid.ok THEN FinishWithClose(e, b, "Violation", CloseCode.ProtocolError)
        ELSE CASE m.ty = "Ping" -> Write(e, b, Pong(m))
               [] m.ty = "Close" -> Finish(e, b, "RemoteClose")
               [] m.ty \in SessionArms(e) \ {"Ping", "Close"} -> Quiet(e, b)
               [] OTHER -> Finish(e, b, "Panic")
    BY <2>2 DEF handle_tcp_message, Context
  <2>5. PhaseAt(ends[e].pc) = "Established"
    BY <1>1 DEF PhaseAt, AuthPc
  <2>6. CASE ~valid.ok
    <3> HIDE DEF b
    <3> QED BY <1>1, <2>3, <2>4, <2>5, <2>6, RefuseMoves
  <2>7. CASE valid.ok
    <3>1. m.ty \in SessionArms(e)
      BY <2>7, SessionArmsAre
    <3>2. CASE m.ty = "Ping"
      <4>1. Write(e, b, Pong(m))
        BY <2>4, <2>7, <3>2
      <4>2. decode_payload(m).ok
        BY <2>7, <3>2, ValidIs
      <4>3. SessionMessage(e, Pong(m))
        BY <3>2, <4>2, PongIs
      <4>4. ends[e].result = "None"
        BY <1>1, EndsOKIs DEF Calm
      <4> HIDE DEF b
      <4>5. Calm(e, b)
        BY <1>1, <2>3, <4>4 DEF Calm
      <4> QED BY <1>1, <2>3, <4>1, <4>3, <4>4, <4>5, ChatWrites
    <3>3. CASE m.ty # "Ping"
      <4>1. Quiet(e, b) \/ Finish(e, b, "RemoteClose")
        <5>1. CASE m.ty = "Close"
          BY <2>4, <2>7, <3>3, <5>1
        <5>2. CASE m.ty # "Close"
          <6>1. m.ty \in SessionArms(e) \ {"Ping", "Close"}
            BY <3>1, <3>3, <5>2
          <6> QED BY <2>4, <2>7, <3>3, <5>2, <6>1
        <5> QED BY <5>1, <5>2
      <4> QED BY <1>1, <2>1, <4>1, ChatTakes
    <3> QED BY <3>2, <3>3
  <2> QED BY <2>6, <2>7
<1> QED BY <1>3, <1>4, <1>5

LEMMA SessionWritesMove ==
    ASSUME EndsOK, NEW e \in Endpoint, SessionSends(e) \/ handle_tun_packet(e)
    PROVE  EndMoves(e)
<1>1. ends[e].pc = "Read" /\ "Read" \in SessionPc
  BY DEF SessionSends, handle_tun_packet, SessionPc
<1>2. Base(e, ends[e], <<>>) /\ Calm(e, ends[e]) /\ ends[e].result = "None"
  BY <1>1, SameBase, EndsOKIs DEF Calm
<1>3. \E m : SessionMessage(e, m) /\ Write(e, ends[e], m)
  <2>1. CASE SessionSends(e)
    <3>1. PICK ty \in SessionTypes(e) :
            Write(e, ends[e], [ty |-> ty, payload |-> encode_payload(ty, SampleValue(ty))])
      BY <2>1 DEF SessionSends
    <3> QED BY <3>1, SampleIs
  <2>2. CASE handle_tun_packet(e)
    <3>1. PICK size \in PacketSizes :
            /\ size <= limits(e).max_data_len
            /\ Write(e, ends[e], [ty |-> "Data", payload |-> Zeros(size)])
      BY <2>2 DEF handle_tun_packet
    <3>2. size \in Nat /\ size <= Mtu(e)
      BY <1>1, <3>1, FieldAssumption DEF limits, AuthPc, from_mtu, Mtu
    <3> QED BY <3>1, <3>2, DataIs
  <2> QED BY <2>1, <2>2
<1> QED BY <1>1, <1>2, <1>3, ChatWrites

LEMMA SessionClosesMoves ==
    ASSUME EndsOK, NEW e \in Endpoint, SessionCloses(e)
    PROVE  EndMoves(e)
<1> DEFINE c == CloseCode.Normal
<1>1. ends[e].pc \in SessionPc /\ FinishWithClose(e, ends[e], "Closed", c)
  BY DEF SessionCloses
<1>2. c \in Codes(CloseCode) /\ "Closed" \in Result /\ "Closed" \in Benign
  BY DEF Codes, CloseCode, Result, Benign
<1> HIDE DEF c
<1>3. PICK n, bytes : /\ Step(e, n, bytes) /\ Mech(e, n, bytes, <<>>, <<Close(c)>>)
                      /\ n.pc = "Done" /\ n.result = "Closed" /\ n.read_buf = <<>>
                      /\ n.authenticated = ends[e].authenticated
  BY <1>1, <1>2, SameBase, CloseMoves
<1>4. SessionMessage(e, Close(c))
  BY <1>2, CloseIs
<1>5. Chat(e, n, <<>>, <<Close(c)>>)
  BY <1>1, <1>2, <1>3, <1>4 DEF Chat, SessionMessage
<1>6. Calm(e, n)
  BY <1>3, DoneIsCalm
<1> QED BY <1>3, <1>5, <1>6 DEF EndMoves, Turn

LEMMA CancelledMoves ==
    ASSUME EndsOK, CancelledWriting
    PROVE  EndMoves("Server")
<1> DEFINE e == "Server"
           n == Finished(ends[e], "Closed")
<1>1. ends[e].pc = "Read" /\ "Read" \in SessionPc /\ ~broken /\ e \in Endpoint
  BY DEF CancelledWriting, SessionPc, Endpoint
<1>2. PICK size \in PacketSizes :
        /\ size <= limits(e).max_data_len
        /\ LET frame == encode_frame([ty |-> "Data", payload |-> Zeros(size)])
           IN  \E k \in 1..(Len(frame) - 1) : Step(e, n, SubSeq(frame, 1, k))
  BY DEF CancelledWriting, send_after_interrupted
<1>3. size \in Nat /\ size <= Mtu(e)
  BY <1>1, <1>2, FieldAssumption DEF limits, AuthPc, from_mtu, Mtu
<1> DEFINE m == [ty |-> "Data", payload |-> Zeros(size)]
           f == encode_frame(m)
<1>4. SessionMessage(e, m)
  BY <1>1, <1>3, DataIs
<1>5. PICK k \in 1..(Len(f) - 1) : Step(e, n, SubSeq(f, 1, k))
  BY <1>2
<1> HIDE DEF m
<1>6. m \in Message /\ Len(f) \in Nat
  BY <1>4, EncodeIs, MessageIs, HeaderIs DEF SessionMessage
<1>7. k \in Nat /\ k < Len(f)
  BY <1>5, <1>6
<1>8. WriteFails(e, ends[e], m, "Closed")
  <2>1. k \in 0..(IF broken THEN 0 ELSE Len(f) - 1)
    BY <1>1, <1>6, <1>7
  <2> QED BY <1>5, <2>1 DEF WriteFails
<1>9. "Closed" \in Result /\ "Closed" \in Benign
  BY DEF Result, Benign
<1> HIDE DEF n
<1>10. PICK nn, bytes : /\ Step(e, nn, bytes) /\ Mech(e, nn, bytes, <<>>, <<m>>)
                        /\ nn.pc = "Done" /\ nn.result = "Closed" /\ nn.read_buf = <<>>
                        /\ nn.authenticated = ends[e].authenticated
  BY <1>1, <1>6, <1>8, <1>9, SameBase, CutMoves
<1>11. Chat(e, nn, <<>>, <<m>>)
  BY <1>1, <1>4, <1>6, <1>9, <1>10 DEF Chat
<1>12. Calm(e, nn)
  BY <1>10, DoneIsCalm
<1> QED BY <1>10, <1>11, <1>12 DEF EndMoves, Turn

\* An end that authenticates and takes a message that is no verdict.
LEMMA AuthChatMoves ==
    ASSUME EndsOK, NEW e \in Endpoint, ends[e].pc = "AuthDrain", NEW m \in Message,
           Popped(e).decoded = Ok(Some(m)), m.ty \in {"Ping", "Pong", "Close"},
           \/ Write(e, Taken(e, m), Pong(m)) /\ m.ty = "Ping" /\ decode_payload(m).ok
           \/ Quiet(e, Taken(e, m))
           \/ \E r \in Result \ {"Panic"} : Finish(e, Taken(e, m), r)
    PROVE  EndMoves(e)
<1> DEFINE b == Taken(e, m)
<1>1. /\ Base(e, b, <<m>>) /\ b.pc = ends[e].pc /\ b.read_buf = Popped(e).rest
      /\ b.result = ends[e].result /\ b.authenticated = ends[e].authenticated
  BY TakenBase
<1>2. ends[e].result = "None"
  BY EndsOKIs DEF Calm
<1>3. \/ Write(e, b, Pong(m)) /\ m.ty = "Ping" /\ decode_payload(m).ok
      \/ Quiet(e, b)
      \/ \E r \in Result \ {"Panic"} : Finish(e, b, r)
  OBVIOUS
<1> HIDE DEF b
<1>4. Calm(e, b)
  BY <1>1, <1>2 DEF Calm
<1>5. \E n, bytes, out : /\ Step(e, n, bytes) /\ Mech(e, n, bytes, <<m>>, out) /\ Calm(e, n)
                         /\ n.pc \in {"AuthDrain", "Done"} /\ n.authenticated = b.authenticated
  <2>1. CASE Write(e, b, Pong(m)) /\ m.ty = "Ping" /\ decode_payload(m).ok
    <3>1. Pong(m) \in Message
      BY <2>1, PongIs DEF SessionMessage
    <3> DEFINE w == Pong(m)
    <3> HIDE DEF w
    <3>2. PICK n, bytes :
              /\ Step(e, n, bytes) /\ Mech(e, n, bytes, <<m>>, <<w>>)
              /\ n.authenticated = b.authenticated
              /\ \/ n.pc = b.pc /\ n.result = b.result /\ n.read_buf = b.read_buf
                 \/ n.pc = "Done" /\ n.result = "Connection" /\ n.read_buf = <<>>
      BY <1>1, <2>1, <3>1, WriteMoves DEF w
    <3>3. Calm(e, n)
      BY <1>4, <3>2, SameCalm, DoneIsCalm
    <3> QED BY <1>1, <3>2, <3>3
  <2>2. CASE Quiet(e, b)
    <3>1. Step(e, b, <<>>) /\ Mech(e, b, <<>>, <<m>>, <<>>)
      BY <1>1, <2>2, QuietMoves
    <3> QED BY <1>1, <1>4, <3>1
  <2>3. CASE \E r \in Result \ {"Panic"} : Finish(e, b, r)
    <3>1. PICK r \in Result \ {"Panic"} : Finish(e, b, r)
      BY <2>3
    <3> DEFINE n == Finished(b, r)
    <3>2. /\ Step(e, n, <<>>) /\ Mech(e, n, <<>>, <<m>>, <<>>)
          /\ n.pc = "Done" /\ n.result = r /\ n.read_buf = <<>>
          /\ n.authenticated = b.authenticated
      BY <1>1, <3>1, FinishMoves
    <3> HIDE DEF n
    <3>3. Calm(e, n)
      BY <3>1, <3>2, DoneIsCalm
    <3> QED BY <3>2, <3>3
  <2> QED BY <1>3, <2>1, <2>2, <2>3
<1>6. PICK n, bytes, out : /\ Step(e, n, bytes) /\ Mech(e, n, bytes, <<m>>, out) /\ Calm(e, n)
                           /\ n.pc \in {"AuthDrain", "Done"} /\ n.authenticated = b.authenticated
  BY <1>5
<1>7. AuthChat(e, n, <<m>>, out)
  BY <1>1, <1>6 DEF AuthChat
<1> QED BY <1>6, <1>7 DEF EndMoves, Turn

LEMMA ClientAuthMoves ==
    ASSUME EndsOK, ClientAuthDrains
    PROVE  EndMoves("Client")
<1> DEFINE e == "Client"
           d == Popped(e).decoded
<1>1. ends[e].pc = "AuthDrain" /\ e \in Endpoint /\ Peer(e) = "Server"
  BY DEF ClientAuthDrains, Endpoint, Peer
<1>2. IF ~d.ok THEN Finish(e, ends[e], "Frame")
      ELSE IF d.value = None THEN Quiet(e, [ends[e] EXCEPT !.pc = "AuthRead"])
      ELSE ClientAuthMessage(Unwrap(d.value))
  BY DEF ClientAuthDrains
<1>3. CASE ~d.ok
  BY <1>1, <1>2, <1>3, SameBase, RefuseMoves
<1>4. CASE d.ok /\ d.value = None
  <2>1. d = Ok(None)
    BY <1>1, <1>4, PoppedIs
  <2> QED BY <1>1, <1>2, <1>4, <2>1, PauseMoves
<1>5. CASE d.ok /\ d.value # None
  <2>1. PICK m \in Message : d = Ok(Some(m)) /\ Unwrap(d.value) = m
    BY <1>1, <1>5, PoppedIs
  <2>2. ClientAuthMessage(m)
    BY <1>2, <1>5, <2>1
  <2> DEFINE b == Taken(e, m)
             valid == validate_message(m, Context("Server", "Authentication"))
             r == IF m.payload[1] = CloseCode.ProtocolError
                  THEN "AuthProtocolError" ELSE "AuthDisconnected"
  <2>3. /\ Base(e, b, <<m>>) /\ b.pc = ends[e].pc /\ b.read_buf = Popped(e).rest
        /\ b.result = ends[e].result /\ b.authenticated = ends[e].authenticated
    BY <1>1, <2>1, TakenBase
  <2>4. IF ~valid.ok THEN Finish(e, b, "Violation")
        ELSE CASE m.ty = "AuthOk" -> Quiet(e, SessionStart(b))
               [] m.ty = "AuthFail" -> Finish(e, b, "Rejected")
               [] m.ty = "Ping" -> Write(e, b, Pong(m))
               [] m.ty = "Pong" -> Quiet(e, b)
               [] m.ty = "Close" -> Finish(e, b, r)
               [] OTHER -> Finish(e, b, "Panic")
    BY <2>2 DEF ClientAuthMessage, Context
  <2>5. PhaseAt(ends[e].pc) = "Authentication"
    BY <1>1 DEF PhaseAt, AuthPc
  <2>6. ends[e].result = "None"
    BY <1>1, EndsOKIs DEF Calm
  <2>7. CASE ~valid.ok
    <3> HIDE DEF b
    <3> QED BY <1>1, <2>3, <2>4, <2>5, <2>7, RefuseMoves
  <2>8. CASE valid.ok
    <3>1. m.ty \in {"AuthOk", "AuthFail", "Ping", "Pong", "Close"}
      BY <2>8, AuthArmsAre
    <3>2. CASE m.ty = "AuthOk"
      <4> DEFINE n == SessionStart(b)
      <4>1. Quiet(e, n)
        BY <2>4, <2>8, <3>2
      <4> HIDE DEF b
      <4>2. /\ n \in End /\ n.pc \in SessionPc /\ n.read_buf = b.read_buf /\ n.result = b.result
            /\ n.pc = "Read" => b.read_buf = <<>>
            /\ SameKeys(b, n) /\ n.authenticated = TRUE
            /\ n.sent = b.sent /\ n.popped = b.popped
        BY <2>3, StartIs DEF Base
      <4> HIDE DEF n
      <4>3. Base(e, n, <<m>>)
        BY <1>1, <2>3, <4>2 DEF Base, Incoming, SameKeys
      <4>4. Step(e, n, <<>>) /\ Mech(e, n, <<>>, <<m>>, <<>>)
        BY <4>1, <4>3, QuietMoves
      <4>5. "None" \in Benign
        BY DEF Benign, Result
      <4>6. Learn(e, n, <<m>>, <<>>)
        BY <1>1, <2>3, <2>6, <3>2, <4>2, <4>5 DEF Learn
      <4>7. pop_message_buf(<<>>, LimitsAt(e, "Read")).decoded = Ok(None)
        BY <1>1, EndsOKIs, ConfigIs, FromMtuIs, NothingToPop DEF LimitsAt, AuthPc
      <4>8. Calm(e, n)
        BY <1>1, <2>3, <2>6, <4>2, <4>7 DEF Calm, SessionPc
      <4> QED BY <4>4, <4>6, <4>8 DEF EndMoves, Turn
    <3>3. CASE m.ty = "AuthFail"
      <4>1. Finish(e, b, "Rejected")
        BY <2>4, <2>8, <3>3
      <4>2. "Rejected" \in Result /\ "Rejected" \in Benign
        BY DEF Result, Benign
      <4> HIDE DEF b
      <4> DEFINE n == Finished(b, "Rejected")
      <4>3. /\ Step(e, n, <<>>) /\ Mech(e, n, <<>>, <<m>>, <<>>)
            /\ n.pc = "Done" /\ n.result = "Rejected" /\ n.read_buf = <<>>
            /\ n.authenticated = b.authenticated
        BY <2>3, <4>1, <4>2, FinishMoves
      <4> HIDE DEF n
      <4>4. Learn(e, n, <<m>>, <<>>)
        BY <1>1, <2>3, <3>3, <4>2, <4>3 DEF Learn
      <4>5. Calm(e, n)
        BY <4>3, DoneIsCalm
      <4> QED BY <4>3, <4>4, <4>5 DEF EndMoves, Turn
    <3>4. CASE m.ty = "Ping"
      <4>1. Write(e, b, Pong(m))
        BY <2>4, <2>8, <3>4
      <4>2. decode_payload(m).ok
        BY <2>8, <3>4, ValidIs
      <4> QED BY <1>1, <2>1, <3>4, <4>1, <4>2, AuthChatMoves
    <3>5. CASE m.ty = "Pong"
      <4>1. Quiet(e, b)
        BY <2>4, <2>8, <3>5
      <4> QED BY <1>1, <2>1, <3>5, <4>1, AuthChatMoves
    <3>6. CASE m.ty = "Close"
      <4>1. Finish(e, b, r)
        BY <2>4, <2>8, <3>6
      <4>2. r \in Result \ {"Panic"}
        BY DEF Result
      <4> QED BY <1>1, <2>1, <3>6, <4>1, <4>2, AuthChatMoves
    <3> QED BY <3>1, <3>2, <3>3, <3>4, <3>5, <3>6
  <2> QED BY <2>7, <2>8
<1> QED BY <1>3, <1>4, <1>5

\* The server has judged an AUTH and writes the verdict.
LEMMA VerdictMoves ==
    ASSUME EndsOK, ends["Server"].pc = "AuthDrain", NEW m \in Message,
           Popped("Server").decoded = Ok(Some(m)), m.ty = "Auth",
           AuthPayload_decode(m.payload).ok, handle_auth(Taken("Server", m), m)
    PROVE  EndMoves("Server")
<1> DEFINE e == "Server"
           b == Taken(e, m)
           verdict == verify_auth_payload(AuthPayload_decode(m.payload).value)
<1>1. e \in Endpoint /\ ends[e].result = "None"
  BY EndsOKIs DEF Calm, Endpoint
<1>2. /\ Base(e, b, <<m>>) /\ b.pc = ends[e].pc /\ b.read_buf = Popped(e).rest
      /\ b.result = ends[e].result /\ b.authenticated = ends[e].authenticated
  BY <1>1, TakenBase
<1>3. IF verdict = "Accepted"
      THEN \/ Write(e, SessionStart(b), AuthOkMessage)
           \/ Write(e, Finished(b, "Connection"), AuthOkMessage)
      ELSE Write(e, Finished(b, "Rejected"), AuthFailMessage(verdict))
  BY DEF handle_auth, AuthOkMessage, AuthFailMessage
<1>4. /\ "Connection" \in Result /\ "Rejected" \in Result
      /\ {"None", "Connection", "Rejected"} \subseteq Benign
  BY DEF Result, Benign
<1> HIDE DEF b
<1>5. ASSUME NEW c, c \in {Finished(b, "Connection"), Finished(b, "Rejected")}
      PROVE  /\ Base(e, c, <<m>>) /\ c.pc = "Done" /\ c.read_buf = <<>>
             /\ c.result \in {"Connection", "Rejected"} /\ c.authenticated = b.authenticated
  <2>1. PICK r \in {"Connection", "Rejected"} : c = Finished(b, r)
    BY <1>5
  <2>2. /\ c \in End /\ c.pc = "Done" /\ c.read_buf = <<>> /\ c.result = r
        /\ SameKeys(b, c) /\ c.authenticated = b.authenticated
        /\ c.sent = b.sent /\ c.popped = b.popped
    BY <1>2, <1>4, <2>1, FinishedIs DEF Base
  <2>3. Base(e, c, <<m>>)
    BY <1>2, <2>2 DEF Base, Incoming, SameKeys
  <2> QED BY <2>2, <2>3
<1>6. CASE verdict = "Accepted" /\ Write(e, SessionStart(b), AuthOkMessage)
  <2> DEFINE c == SessionStart(b)
             w == AuthOkMessage
  <2>1. /\ c \in End /\ c.pc \in SessionPc /\ c.read_buf = b.read_buf /\ c.result = b.result
        /\ c.pc = "Read" => b.read_buf = <<>>
        /\ SameKeys(b, c) /\ c.authenticated = TRUE
        /\ c.sent = b.sent /\ c.popped = b.popped
    BY <1>2, StartIs DEF Base
  <2>2. w \in Message
    BY AnswersAre
  <2> HIDE DEF c, w
  <2>3. Base(e, c, <<m>>)
    BY <1>2, <2>1 DEF Base, Incoming, SameKeys
  <2>4. PICK n, bytes :
              /\ Step(e, n, bytes) /\ Mech(e, n, bytes, <<m>>, <<w>>)
              /\ n.authenticated = c.authenticated
              /\ \/ n.pc = c.pc /\ n.result = c.result /\ n.read_buf = c.read_buf
                 \/ n.pc = "Done" /\ n.result = "Connection" /\ n.read_buf = <<>>
    BY <1>6, <2>2, <2>3, WriteMoves DEF c, w
  <2>5. pop_message_buf(<<>>, LimitsAt(e, "Read")).decoded = Ok(None)
    BY <1>1, EndsOKIs, ConfigIs, FromMtuIs, NothingToPop DEF LimitsAt
  <2>6. Calm(e, n)
    <3>1. CASE n.pc = c.pc /\ n.result = c.result /\ n.read_buf = c.read_buf
      BY <1>1, <1>2, <2>1, <2>5, <3>1 DEF Calm, SessionPc
    <3>2. CASE n.pc = "Done" /\ n.result = "Connection" /\ n.read_buf = <<>>
      BY <3>2, DoneIsCalm
    <3> QED BY <2>4, <3>1, <3>2
  <2>7. Answer(e, n, <<m>>, <<w>>)
    <3>1. n.result \in Benign /\ n.pc \in SessionPc \cup {"Done"} /\ n.authenticated
      BY <1>1, <1>2, <1>4, <2>1, <2>4
    <3> QED BY <1>6, <3>1 DEF Answer, w
  <2> QED BY <2>4, <2>6, <2>7 DEF EndMoves, Turn
<1>7. CASE verdict = "Accepted" /\ Write(e, Finished(b, "Connection"), AuthOkMessage)
  <2> DEFINE c == Finished(b, "Connection")
             w == AuthOkMessage
  <2>1. w \in Message
    BY AnswersAre
  <2> HIDE DEF c, w
  <2>2. /\ Base(e, c, <<m>>) /\ c.pc = "Done" /\ c.read_buf = <<>>
        /\ c.result \in {"Connection", "Rejected"} /\ c.authenticated = b.authenticated
    BY <1>5 DEF c
  <2>3. PICK n, bytes :
              /\ Step(e, n, bytes) /\ Mech(e, n, bytes, <<m>>, <<w>>)
              /\ n.authenticated = c.authenticated
              /\ \/ n.pc = c.pc /\ n.result = c.result /\ n.read_buf = c.read_buf
                 \/ n.pc = "Done" /\ n.result = "Connection" /\ n.read_buf = <<>>
    BY <1>7, <2>1, <2>2, WriteMoves DEF c, w
  <2>4. n.pc = "Done" /\ n.result \in {"Connection", "Rejected"} /\ n.read_buf = <<>>
    BY <2>2, <2>3
  <2>5. Calm(e, n)
    BY <2>4, DoneIsCalm
  <2>6. n.pc \notin SessionPc
    BY <2>4 DEF SessionPc
  <2>7. Answer(e, n, <<m>>, <<w>>)
    BY <1>4, <1>7, <2>4, <2>6 DEF Answer, w
  <2> QED BY <2>3, <2>5, <2>7 DEF EndMoves, Turn
<1>8. CASE verdict # "Accepted" /\ Write(e, Finished(b, "Rejected"), AuthFailMessage(verdict))
  <2> DEFINE c == Finished(b, "Rejected")
             w == AuthFailMessage(verdict)
  <2>1. w \in Message
    BY <1>8, AnswersAre, VerdictIs
  <2> HIDE DEF c, w
  <2>2. /\ Base(e, c, <<m>>) /\ c.pc = "Done" /\ c.read_buf = <<>>
        /\ c.result \in {"Connection", "Rejected"} /\ c.authenticated = b.authenticated
    BY <1>5 DEF c
  <2>3. PICK n, bytes :
              /\ Step(e, n, bytes) /\ Mech(e, n, bytes, <<m>>, <<w>>)
              /\ n.authenticated = c.authenticated
              /\ \/ n.pc = c.pc /\ n.result = c.result /\ n.read_buf = c.read_buf
                 \/ n.pc = "Done" /\ n.result = "Connection" /\ n.read_buf = <<>>
    BY <1>8, <2>1, <2>2, WriteMoves DEF c, w
  <2>4. n.pc = "Done" /\ n.result \in {"Connection", "Rejected"} /\ n.read_buf = <<>>
    BY <2>2, <2>3
  <2>5. Calm(e, n)
    BY <2>4, DoneIsCalm
  <2>6. n.authenticated = ends[e].authenticated
    BY <1>2, <2>2, <2>3
  <2>7. Answer(e, n, <<m>>, <<w>>)
    BY <1>4, <1>8, <2>4, <2>6 DEF Answer, w
  <2> QED BY <2>3, <2>5, <2>7 DEF EndMoves, Turn
<1> QED BY <1>3, <1>6, <1>7, <1>8

LEMMA ServerAuthMoves ==
    ASSUME EndsOK, run_auth_loop
    PROVE  EndMoves("Server")
<1> DEFINE e == "Server"
           d == Popped(e).decoded
<1>1. ends[e].pc = "AuthDrain" /\ e \in Endpoint /\ Peer(e) = "Client"
  BY DEF run_auth_loop, Endpoint, Peer
<1>2. IF ~d.ok THEN FinishWithClose(e, ends[e], "Frame", CloseCode.ProtocolError)
      ELSE IF d.value = None THEN Quiet(e, [ends[e] EXCEPT !.pc = "AuthRead"])
      ELSE ServerAuthMessage(Unwrap(d.value))
  BY DEF run_auth_loop
<1>3. CASE ~d.ok
  BY <1>1, <1>2, <1>3, SameBase, RefuseMoves
<1>4. CASE d.ok /\ d.value = None
  <2>1. d = Ok(None)
    BY <1>1, <1>4, PoppedIs
  <2> QED BY <1>1, <1>2, <1>4, <2>1, PauseMoves
<1>5. CASE d.ok /\ d.value # None
  <2>1. PICK m \in Message : d = Ok(Some(m)) /\ Unwrap(d.value) = m
    BY <1>1, <1>5, PoppedIs
  <2>2. ServerAuthMessage(m)
    BY <1>2, <1>5, <2>1
  <2> DEFINE b == Taken(e, m)
             valid == validate_message(m, Context("Client", "Authentication"))
  <2>3. /\ Base(e, b, <<m>>) /\ b.pc = ends[e].pc /\ b.read_buf = Popped(e).rest
        /\ b.result = ends[e].result /\ b.authenticated = ends[e].authenticated
    BY <1>1, <2>1, TakenBase
  <2>4. IF ~valid.ok THEN FinishWithClose(e, b, "Violation", CloseCode.ProtocolError)
        ELSE CASE m.ty = "Auth" -> handle_auth(b, m)
               [] m.ty = "Ping" -> Write(e, b, Pong(m))
               [] m.ty = "Pong" -> Quiet(e, b)
               [] m.ty = "Close" -> Finish(e, b, "Completed")
               [] OTHER -> Finish(e, b, "Panic")
    BY <2>2 DEF ServerAuthMessage, Context
  <2>5. PhaseAt(ends[e].pc) = "Authentication"
    BY <1>1 DEF PhaseAt, AuthPc
  <2>6. CASE ~valid.ok
    <3> HIDE DEF b
    <3> QED BY <1>1, <2>3, <2>4, <2>5, <2>6, RefuseMoves
  <2>7. CASE valid.ok
    <3>1. m.ty \in {"Auth", "Ping", "Pong", "Close"}
      BY <2>7, AuthArmsAre
    <3>2. CASE m.ty = "Auth"
      <4>1. handle_auth(b, m)
        BY <2>4, <2>7, <3>2
      <4>2. decode_payload(m).ok
        BY <2>7, <3>2, ValidIs
      <4>3. decode_payload(m) = AuthPayload_decode(m.payload)
        BY <3>2 DEF decode_payload
      <4> QED BY <1>1, <2>1, <3>2, <4>1, <4>2, <4>3, VerdictMoves
    <3>3. CASE m.ty = "Ping"
      <4>1. Write(e, b, Pong(m))
        BY <2>4, <2>7, <3>3
      <4>2. decode_payload(m).ok
        BY <2>7, <3>3, ValidIs
      <4> QED BY <1>1, <2>1, <3>3, <4>1, <4>2, AuthChatMoves
    <3>4. CASE m.ty = "Pong"
      <4>1. Quiet(e, b)
        BY <2>4, <2>7, <3>4
      <4> QED BY <1>1, <2>1, <3>4, <4>1, AuthChatMoves
    <3>5. CASE m.ty = "Close"
      <4>1. Finish(e, b, "Completed")
        BY <2>4, <2>7, <3>5
      <4>2. "Completed" \in Result \ {"Panic"}
        BY DEF Result
      <4> QED BY <1>1, <2>1, <3>5, <4>1, <4>2, AuthChatMoves
    <3> QED BY <3>1, <3>2, <3>3, <3>4, <3>5
  <2> QED BY <2>6, <2>7
<1> QED BY <1>3, <1>4, <1>5

------------------------------------------------------------------------------
(* What every step preserves, whoever is at the other end                  *)

StateOK ==
    /\ ends \in [Endpoint -> End] /\ stream \in [Endpoint -> Seq(Byte)]
    /\ fin \in [Endpoint -> BOOLEAN] /\ broken \in BOOLEAN /\ sends \in 0..MaxSends

LEMMA PeerIs ==
    ASSUME NEW e \in Endpoint
    PROVE  Peer(e) \in Endpoint /\ Peer(e) # e /\ Peer(Peer(e)) = e
           /\ \A f \in Endpoint : f = e \/ f = Peer(e)
BY DEF Endpoint, Peer

LEMMA StepIs ==
    ASSUME StateOK, NEW e \in Endpoint, NEW n \in End, NEW bytes \in Seq(Byte), Step(e, n, bytes)
    PROVE  /\ ends' \in [Endpoint -> End] /\ stream' \in [Endpoint -> Seq(Byte)]
           /\ fin' \in [Endpoint -> BOOLEAN]
           /\ ends'[e] = n /\ ends'[Peer(e)] = ends[Peer(e)]
           /\ stream'[e] = stream[e]
           /\ ends[Peer(e)].pc \notin {"Done", "Foreign"}
                => stream'[Peer(e)] = stream[Peer(e)] \o bytes
<1> DEFINE p == Peer(e)
           s == IF ends[p].pc \in {"Done", "Foreign"} THEN <<>> ELSE stream[p] \o bytes
           d == fin[p] \/ n.pc = "Done"
<1>1. p \in Endpoint /\ p # e
  BY PeerIs
<1>2. /\ ends' = [ends EXCEPT ![e] = n] /\ stream' = [stream EXCEPT ![p] = s]
      /\ fin' = [fin EXCEPT ![p] = d]
  BY DEF Step
<1>3. stream[p] \o bytes \in Seq(Byte)
  BY <1>1, JoinIs DEF StateOK
<1>4. s \in Seq(Byte)
  BY <1>3
<1>5. d \in BOOLEAN
  OBVIOUS
<1>6. ends[p].pc \notin {"Done", "Foreign"} => s = stream[p] \o bytes
  OBVIOUS
<1> HIDE DEF p, s, d
<1>7. ends' \in [Endpoint -> End] /\ ends'[e] = n /\ ends'[p] = ends[p]
  BY <1>1, <1>2 DEF StateOK
<1>8. stream' \in [Endpoint -> Seq(Byte)] /\ stream'[e] = stream[e] /\ stream'[p] = s
  BY <1>1, <1>2, <1>4 DEF StateOK
<1>9. fin' \in [Endpoint -> BOOLEAN]
  BY <1>1, <1>2, <1>5 DEF StateOK
<1> QED BY <1>6, <1>7, <1>8, <1>9 DEF p

LEMMA AppendIs ==
    ASSUME NEW s \in Seq(Message), NEW m \in Message
    PROVE  /\ Append(s, m) \in Seq(Message) /\ Len(Append(s, m)) = Len(s) + 1
           /\ Append(s, m)[Len(s) + 1] = m
           /\ \A i \in 1..Len(s) : Append(s, m)[i] = s[i]
           /\ DOMAIN s = 1..Len(s) /\ DOMAIN Append(s, m) = 1..(Len(s) + 1) /\ Len(s) \in Nat
OBVIOUS

LEMMA TurnPc ==
    ASSUME NEW e, NEW n, NEW in, NEW out, Turn(e, n, in, out)
    PROVE  /\ n.pc # "Foreign" /\ ends[e].pc \notin {"Done", "Foreign"}
           /\ \/ n.authenticated = ends[e].authenticated
              \/ e = "Client" /\ Learn(e, n, in, out)
              \/ e = "Server" /\ Answer(e, n, in, out)
BY DEF Turn, Idle, Leave, Refuse, SendAuth, Answer, Learn, AuthChat, Chat, SessionPc

LEMMA LocalStays ==
    ASSUME EndsOK, NEW e \in Endpoint, NEW n, NEW bytes, NEW in, NEW out,
           Mech(e, n, bytes, in, out), Turn(e, n, in, out), Calm(e, n)
    PROVE  LocalOK(e, n)
<1> DEFINE o == ends[e]
<1>1. n \in End /\ o \in End /\ LocalOK(e, o)
  BY DEF Mech, EndsOK, LocalOK
<1>2. KeysOK(n)
  <2>1. KeysOK(o)
    BY <1>1 DEF LocalOK
  <2>2. CASE n.sent = o.sent /\ SameKeys(o, n)
    BY <2>1, <2>2 DEF KeysOK, SameKeys
  <2>3. CASE \E m \in Message : n.sent = Append(o.sent, m) /\ KeyStep(o, n)
    <3>1. PICK m \in Message : n.sent = Append(o.sent, m) /\ KeyStep(o, n)
      BY <2>3
    <3>2. Len(n.sent) = Len(o.sent) + 1
      BY <1>1, <3>1, EndIs, AppendIs
    <3> HIDE DEF o
    <3> QED BY <1>1, <2>1, <3>1, <3>2, KeysStep
  <2> QED BY <2>2, <2>3 DEF Mech, Outgoing
<1>3. n.pc # "Foreign"
  BY TurnPc
<1>4. o.popped \in Seq(Message)
  BY <1>1, EndIs
<1>5. n.popped = o.popped \/ \E m \in Message : n.popped = Append(o.popped, m)
  BY DEF Mech, Incoming
<1>6. ASSUME e = "Server", n.authenticated
      PROVE  \E i \in DOMAIN n.popped : GoodAuth(n.popped[i])
  <2>1. CASE n.authenticated = o.authenticated
    <3>1. PICK i \in DOMAIN o.popped : GoodAuth(o.popped[i])
      BY <1>1, <1>6, <2>1 DEF LocalOK
    <3>2. i \in DOMAIN n.popped /\ n.popped[i] = o.popped[i]
      <4>1. CASE n.popped = o.popped
        BY <4>1
      <4>2. CASE \E m \in Message : n.popped = Append(o.popped, m)
        <5>1. PICK m \in Message : n.popped = Append(o.popped, m)
          BY <4>2
        <5> QED BY <1>4, <5>1, AppendIs
      <4> QED BY <1>5, <4>1, <4>2
    <3> QED BY <3>1, <3>2
  <2>2. CASE Answer(e, n, in, out) /\ n.authenticated # o.authenticated
    <3>1. PICK m \in Message :
            /\ in = <<m>> /\ m.ty = "Auth" /\ AuthPayload_decode(m.payload).ok
            /\ verify_auth_payload(AuthPayload_decode(m.payload).value) = "Accepted"
      BY <2>2 DEF Answer
    <3>2. GoodAuth(m)
      BY <3>1, AcceptedIsGood
    <3>3. n.popped = Append(o.popped, m)
      BY <3>1 DEF Mech, Incoming
    <3>4. Len(o.popped) + 1 \in DOMAIN n.popped /\ n.popped[Len(o.popped) + 1] = m
      BY <1>4, <3>3, AppendIs
    <3> QED BY <3>2, <3>4
  <2>3. e # "Client"
    BY <1>6
  <2>4. n.authenticated = o.authenticated \/ Answer(e, n, in, out)
    BY <2>3, TurnPc
  <2> QED BY <2>1, <2>2, <2>4
<1> QED BY <1>1, <1>2, <1>3, <1>6 DEF LocalOK

LEMMA LocalNext ==
    ASSUME EndsOK, UNCHANGED config, \A e \in Endpoint : LocalOK(e, ends'[e])
    PROVE  EndsOK'
BY DEF EndsOK, ConfigOK, LocalOK, Calm, LimitsAt, KeysOK, GoodAuth

\* What a read does.
LEMMA ReadIs ==
    ASSUME StateOK, NEW e \in Endpoint, read_more(e)
    PROVE  \E k \in 1..Len(stream[e]) :
            LET n == ends'[e]
                x == SubSeq(stream[e], 1, k)
                y == SubSeq(stream[e], k + 1, Len(stream[e]))
            IN  /\ x \in Seq(Byte) /\ y \in Seq(Byte) /\ x \o y = stream[e]
                /\ ends' \in [Endpoint -> End] /\ stream' \in [Endpoint -> Seq(Byte)]
                /\ ends'[Peer(e)] = ends[Peer(e)] /\ stream'[Peer(e)] = stream[Peer(e)]
                /\ n.read_buf = ends[e].read_buf \o x /\ stream'[e] = y
                /\ \/ ends[e].pc = "Read" /\ n.pc = "Drain"
                   \/ ends[e].pc = "AuthRead" /\ n.pc = "AuthDrain"
                /\ n.result = ends[e].result /\ SameKeys(ends[e], n)
                /\ n.authenticated = ends[e].authenticated
                /\ n.sent = ends[e].sent /\ n.popped = ends[e].popped
<1> DEFINE o == ends[e]
           s == stream[e]
<1>1. PICK k \in 1..Len(s) :
        /\ ends' = [ends EXCEPT ![e].read_buf = @ \o SubSeq(stream[e], 1, k),
                                ![e].pc = IF @ = "Read" THEN "Drain" ELSE "AuthDrain"]
        /\ stream' = [stream EXCEPT ![e] = SubSeq(@, k + 1, Len(@))]
  BY DEF read_more
<1> DEFINE x == SubSeq(s, 1, k)
           y == SubSeq(s, k + 1, Len(s))
           b == o.read_buf \o x
           c == IF o.pc = "Read" THEN "Drain" ELSE "AuthDrain"
           n == [o EXCEPT !.read_buf = b, !.pc = c]
<1>2. o \in End /\ s \in Seq(Byte) /\ k \in Nat /\ k <= Len(s) /\ Len(s) \in Nat
  BY <1>1 DEF StateOK
<1>3. x \in Seq(Byte) /\ y \in Seq(Byte) /\ x \o y = s
  <2> DEFINE j == Len(s) - k
  <2>1. x = Slice(s, 0, k) /\ y = Slice(s, k, j)
    BY <1>2 DEF Slice
  <2>2. j \in Nat /\ 0 + k <= Len(s) /\ k + j = Len(s) /\ 0 \in Nat /\ k + j <= Len(s)
    BY <1>2
  <2> HIDE DEF s, x, y, j
  <2>3. x \in Seq(Byte) /\ y \in Seq(Byte)
    BY <1>2, <2>1, <2>2, SliceIs
  <2>4. Slice(s, 0, k) \o Slice(s, k, j) = Slice(s, 0, k + j)
    BY <1>2, <2>2, PrefixGrows
  <2>5. Slice(s, 0, Len(s)) = s
    BY <1>2, SliceAll
  <2> QED BY <2>1, <2>2, <2>3, <2>4, <2>5
<1>4. b \in Seq(Byte) /\ c \in Pc /\ o.pc \in {"Read", "AuthRead"}
  <2>1. o.read_buf \in Seq(Byte)
    BY <1>2, EndIs
  <2>2. b \in Seq(Byte)
    <3> HIDE DEF x, o
    <3> QED BY <1>3, <2>1, JoinIs
  <2>3. o.pc \in {"Read", "AuthRead"}
    BY DEF read_more, Reading
  <2> QED BY <2>2, <2>3 DEF Pc
<1>5. ends' = [ends EXCEPT ![e] = n] /\ stream' = [stream EXCEPT ![e] = y]
  BY <1>1, <1>2 DEF StateOK, End
<1>6. \/ o.pc = "Read" /\ c = "Drain"
      \/ o.pc = "AuthRead" /\ c = "AuthDrain"
  BY <1>4
<1> HIDE DEF b, c, x, y
<1>7. /\ n \in End /\ n.read_buf = b /\ n.pc = c /\ n.result = o.result /\ SameKeys(o, n)
      /\ n.authenticated = o.authenticated /\ n.sent = o.sent /\ n.popped = o.popped
  BY <1>2, <1>4 DEF End, SameKeys
<1> HIDE DEF n
<1>8. /\ ends' \in [Endpoint -> End] /\ stream' \in [Endpoint -> Seq(Byte)]
      /\ ends'[Peer(e)] = ends[Peer(e)] /\ stream'[Peer(e)] = stream[Peer(e)]
      /\ ends'[e] = n /\ stream'[e] = y
  BY <1>3, <1>5, <1>7, PeerIs DEF StateOK
<1>9. /\ x \in Seq(Byte) /\ y \in Seq(Byte) /\ x \o y = stream[e]
      /\ ends' \in [Endpoint -> End] /\ stream' \in [Endpoint -> Seq(Byte)]
      /\ ends'[Peer(e)] = ends[Peer(e)] /\ stream'[Peer(e)] = stream[Peer(e)]
      /\ ends'[e].read_buf = ends[e].read_buf \o x /\ stream'[e] = y
      /\ \/ ends[e].pc = "Read" /\ ends'[e].pc = "Drain"
         \/ ends[e].pc = "AuthRead" /\ ends'[e].pc = "AuthDrain"
      /\ ends'[e].result = ends[e].result /\ SameKeys(ends[e], ends'[e])
      /\ ends'[e].authenticated = ends[e].authenticated
      /\ ends'[e].sent = ends[e].sent /\ ends'[e].popped = ends[e].popped
  BY <1>3, <1>6, <1>7, <1>8 DEF b
<1> QED BY <1>1, <1>9 DEF x, y

\* The steps of Next, as they matter to the ends.
Elsewhere ==
    /\ UNCHANGED <<ends, config>>
    /\ \/ UNCHANGED fin \/ fin' = [e \in Endpoint |-> TRUE]
       \/ \E e \in Endpoint : fin' = [fin EXCEPT ![Peer(e)] = TRUE]
    /\ \/ UNCHANGED <<stream, broken>>
       \/ \E e \in Endpoint : ForeignWrites(e)
       \/ NetworkFails

LEMMA EndStepIs ==
    ASSUME EndsOK, NEW e \in Endpoint, EndStep(e)
    PROVE  \/ EndMoves(e) /\ UNCHANGED <<broken, config>>
           \/ read_more(e)
           \/ Elsewhere
<1>1. CASE read_more(e)
  BY <1>1
<1>2. CASE ReadEof(e) \/ ReadFails(e) \/ AuthTimeout(e)
  BY <1>2, LeavingMoves DEF ReadEof, ReadFails, AuthTimeout
<1>3. CASE handle_tcp_read(e)
  BY <1>3, SessionReadMoves DEF handle_tcp_read
<1>4. CASE SessionSends(e) \/ handle_tun_packet(e)
  BY <1>4, SessionWritesMove DEF SessionSends, handle_tun_packet
<1>5. CASE SessionCloses(e)
  BY <1>5, SessionClosesMoves DEF SessionCloses
<1>6. CASE ForeignWrites(e)
  BY <1>6 DEF ForeignWrites, Elsewhere
<1>7. CASE ForeignLeaves(e)
  BY <1>7 DEF ForeignLeaves, Elsewhere
<1> QED BY <1>1, <1>2, <1>3, <1>4, <1>5, <1>6, <1>7 DEF EndStep

LEMMA NextIs ==
    ASSUME EndsOK, Next
    PROVE  \/ \E e \in Endpoint : EndMoves(e) /\ UNCHANGED <<broken, config>>
           \/ \E e \in Endpoint : read_more(e)
           \/ Elsewhere
<1>1. "Client" \in Endpoint /\ "Server" \in Endpoint
  BY DEF Endpoint
<1>2. CASE \E e \in Endpoint : EndStep(e)
  BY <1>2, EndStepIs
<1>3. CASE classify_stream
  BY <1>1, <1>3, ClassifyMoves DEF classify_stream
<1>4. CASE ClassificationFails
  BY <1>1, <1>4, LeavingMoves DEF ClassificationFails
<1>5. CASE HelloRetryRequest
  BY <1>5 DEF HelloRetryRequest, Elsewhere
<1>6. CASE ConnectFails
  BY <1>1, <1>6, LeavingMoves DEF ConnectFails
<1>7. CASE send_auth
  BY <1>1, <1>7, SendAuthMoves DEF send_auth
<1>8. CASE ClientAuthDrains
  BY <1>1, <1>8, ClientAuthMoves DEF ClientAuthDrains
<1>9. CASE tls_handshake
  BY <1>1, <1>9, HandshakeMoves DEF tls_handshake
<1>10. CASE run_auth_loop
  BY <1>1, <1>10, ServerAuthMoves DEF run_auth_loop
<1>11. CASE CancelledWriting
  BY <1>1, <1>11, CancelledMoves DEF CancelledWriting
<1>12. CASE NetworkFails
  BY <1>12 DEF NetworkFails, Elsewhere
<1> QED BY <1>2, <1>3, <1>4, <1>5, <1>6, <1>7, <1>8, <1>9, <1>10, <1>11, <1>12 DEF Next

HelloOK ==
    /\ DOMAIN hello = {"message", "sizes", "tail", "peeked", "tokens"}
    /\ hello.peeked \in 0..MAX_TCP_CLIENT_HELLO_WIRE_LEN
    /\ \E S : hello.tokens \in Seq(S)
    /\ Len(hello.tokens) \in 0..2

LEMMA FlightIs ==
    ASSUME NEW message, NEW sizes, NEW tail, hello = Flight(message, sizes, tail)
    PROVE  HelloOK
<1> DEFINE t == session_id(message)
           S == {t}
<1>1. hello = [message |-> message, sizes |-> sizes, tail |-> tail, peeked |-> 0, tokens |-> <<t>>]
  BY DEF Flight
<1>2. <<t>> \in Seq(S) /\ Len(<<t>>) = 1
  OBVIOUS
<1> HIDE DEF t, S
<1>3. /\ DOMAIN hello = {"message", "sizes", "tail", "peeked", "tokens"}
      /\ hello.peeked = 0 /\ hello.tokens = <<t>>
  BY <1>1
<1> QED BY <1>2, <1>3, FieldAssumption DEF HelloOK

LEMMA NoFlightIs ==
    /\ hello = NoFlight => HelloOK
    /\ hello' = NoFlight => HelloOK'
<1>1. /\ DOMAIN NoFlight = {"message", "sizes", "tail", "peeked", "tokens"}
      /\ NoFlight.peeked = 0 /\ NoFlight.tokens = <<>>
  BY DEF NoFlight
<1>2. <<>> \in Seq({}) /\ Len(<<>>) = 0
  OBVIOUS
<1>3. 0 \in 0..MAX_TCP_CLIENT_HELLO_WIRE_LEN /\ 0 \in 0..2
  BY FieldAssumption
<1>4. ASSUME hello = NoFlight PROVE HelloOK
  BY <1>1, <1>2, <1>3, <1>4 DEF HelloOK
<1>5. ASSUME hello' = NoFlight PROVE HelloOK'
  <2>1. \E S : hello'.tokens \in Seq(S)
    BY <1>1, <1>2, <1>5
  <2> QED BY <1>1, <1>2, <1>3, <1>5, <2>1 DEF HelloOK
<1> QED BY <1>4, <1>5

LEMMA HelloStays ==
    ASSUME HelloOK, [Next]_vars
    PROVE  HelloOK'
<1>1. CASE UNCHANGED hello
  BY <1>1 DEF HelloOK
<1>2. CASE hello' = NoFlight
  BY <1>2, NoFlightIs
<1>3. CASE \E k \in 1..MAX_TCP_CLIENT_HELLO_WIRE_LEN : hello' = [hello EXCEPT !.peeked = k]
  <2>1. PICK k \in 1..MAX_TCP_CLIENT_HELLO_WIRE_LEN : hello' = [hello EXCEPT !.peeked = k]
    BY <1>3
  <2>2. /\ DOMAIN hello' = DOMAIN hello /\ hello'.peeked = k /\ hello'.tokens = hello.tokens
    BY <2>1 DEF HelloOK
  <2>3. k \in 0..MAX_TCP_CLIENT_HELLO_WIRE_LEN
    BY <2>1, FieldAssumption
  <2> QED BY <2>2, <2>3 DEF HelloOK
<1>4. CASE HelloRetryRequest
  <2>1. PICK y : hello' = [hello EXCEPT !.tokens = Append(hello.tokens, y)]
    BY <1>4 DEF HelloRetryRequest
  <2>2. Len(hello.tokens) = 1
    BY <1>4 DEF HelloRetryRequest
  <2>3. PICK S : hello.tokens \in Seq(S)
    BY DEF HelloOK
  <2> DEFINE T == S \cup {y}
             t == Append(hello.tokens, y)
  <2>4. t \in Seq(T) /\ Len(t) = 2
    <3>1. hello.tokens \in Seq(T) /\ y \in T
      BY <2>3
    <3> DEFINE h == hello.tokens
    <3> HIDE DEF T, h
    <3>2. h \in Seq(T) /\ Len(h) = 1 /\ t = Append(h, y)
      BY <2>2, <3>1 DEF h
    <3> HIDE DEF t
    <3>3. Append(h, y) \in Seq(T) /\ Len(Append(h, y)) = Len(h) + 1
      BY <3>1, <3>2, AppendProperties, Zenon
    <3> QED BY <3>2, <3>3
  <2> HIDE DEF T, t
  <2>5. DOMAIN hello' = DOMAIN hello /\ hello'.tokens = t /\ hello'.peeked = hello.peeked
    BY <2>1 DEF HelloOK, t
  <2> QED BY <2>4, <2>5 DEF HelloOK
<1>5. \/ UNCHANGED hello \/ hello' = NoFlight \/ HelloRetryRequest
      \/ \E k \in 1..MAX_TCP_CLIENT_HELLO_WIRE_LEN : hello' = [hello EXCEPT !.peeked = k]
  BY DEF Next, EndStep, vars, read_more, ReadEof, ReadFails, AuthTimeout, handle_tcp_read,
         SessionSends, handle_tun_packet, SessionCloses, ForeignWrites, ForeignLeaves,
         classify_stream, ClassificationFails, ConnectFails, send_auth, ClientAuthDrains,
         tls_handshake, run_auth_loop, CancelledWriting, NetworkFails
<1> QED BY <1>1, <1>2, <1>3, <1>4, <1>5

LEMMA SendsStay ==
    ASSUME StateOK, [Next]_vars
    PROVE  sends' \in 0..MaxSends
<1>1. MaxSends \in Nat
  BY WireAssumption
<1>2. UNCHANGED sends \/ sends' = MaxSends \/ (sends < MaxSends /\ sends' = sends + 1)
  BY DEF Next, EndStep, vars, read_more, ReadEof, ReadFails, AuthTimeout, handle_tcp_read,
         SessionSends, handle_tun_packet, SessionCloses, ForeignWrites, ForeignLeaves,
         classify_stream, ClassificationFails, HelloRetryRequest, ConnectFails, send_auth,
         ClientAuthDrains, tls_handshake, run_auth_loop, CancelledWriting, NetworkFails
<1> QED BY <1>1, <1>2 DEF StateOK

ChannelInv == EndsOK /\ StateOK /\ HelloOK

LEMMA NewEndIs ==
    ASSUME NEW pc \in Pc
    PROVE  LET n == NewEnd(pc)
           IN  /\ n \in End /\ n.pc = pc /\ n.read_buf = <<>> /\ n.result = "None" /\ KeysOK(n)
               /\ n.authenticated = FALSE /\ n.sent = <<>> /\ n.popped = <<>>
<1> DEFINE K == KeyUpdateInterval
           n == NewEnd(pc)
<1>1. n = [pc |-> pc, read_buf |-> <<>>, result |-> "None", until_update |-> K,
           updates |-> 0, authenticated |-> FALSE, sent |-> <<>>, popped |-> <<>>]
  BY DEF NewEnd
<1>2. K \in 1..K /\ 0 \in Nat /\ K \in Nat /\ <<>> \in Seq(Byte) /\ <<>> \in Seq(Message)
      /\ "None" \in Result
  BY WireAssumption DEF Result
<1> HIDE DEF n
<1>3. n \in End
  BY <1>1, <1>2 DEF End
<1>4. n.sent = <<>> /\ n.updates = 0 /\ n.until_update = K
  BY <1>1
<1>5. Len(<<>>) = 0 * K + (K - K)
  BY <1>2
<1>6. KeysOK(n)
  BY <1>4, <1>5 DEF KeysOK
<1> QED BY <1>1, <1>3, <1>6 DEF n

LEMMA ChannelInit ==
    ASSUME Init
    PROVE  ChannelInv
<1>1. PICK c, s : /\ ends = NewEnds(c, s) /\ c \in {"Connected", "Foreign"}
                  /\ s \in {"Peek", "Foreign"}
  BY DEF Init
<1>2. c \in Pc /\ s \in Pc
  BY <1>1 DEF Pc
<1>3. /\ ends["Client"] = NewEnd(c) /\ ends["Server"] = NewEnd(s)
      /\ ends \in [Endpoint -> {NewEnd(c), NewEnd(s)}]
  BY <1>1 DEF NewEnds, Endpoint
<1>4. ConfigOK
  BY DEF Init, ConfigOK
<1>5. HelloOK
  <2>1. CASE hello = NoFlight
    BY <2>1, NoFlightIs
  <2>2. CASE \E message, sizes, tail : hello = Flight(message, sizes, tail)
    BY <2>2, FlightIs
  <2>3. \/ hello = NoFlight
        \/ \E message, sizes, tail : hello = Flight(message, sizes, tail)
    BY DEF Init, FirstFlight
  <2> QED BY <2>1, <2>2, <2>3
<1>6. ASSUME NEW e \in Endpoint PROVE LocalOK(e, ends[e])
  <2> DEFINE n == ends[e]
  <2>1. /\ n \in End /\ n.pc = (IF e = "Client" THEN c ELSE s) /\ n.read_buf = <<>>
        /\ n.result = "None" /\ KeysOK(n)
        /\ n.authenticated = FALSE /\ n.sent = <<>> /\ n.popped = <<>>
    <3>1. CASE e = "Client"
      BY <1>2, <1>3, <3>1, NewEndIs
    <3>2. CASE e = "Server"
      BY <1>2, <1>3, <3>2, NewEndIs
    <3> QED BY <3>1, <3>2 DEF Endpoint
  <2> HIDE DEF n
  <2>2. Calm(e, n)
    BY <1>1, <2>1 DEF Calm, Endpoint
  <2> QED BY <2>1, <2>2 DEF LocalOK, n
<1>7. EndsOK
  BY <1>4, <1>6 DEF EndsOK
<1>8. StateOK
  <2>1. ends \in [Endpoint -> End]
    BY <1>2, <1>3, NewEndIs
  <2>2. /\ stream = [e \in Endpoint |-> <<>>] /\ fin = [e \in Endpoint |-> FALSE]
        /\ broken = FALSE /\ sends = 0
    BY DEF Init
  <2>3. stream \in [Endpoint -> Seq(Byte)]
    BY <2>2
  <2>4. fin \in [Endpoint -> BOOLEAN]
    BY <2>2
  <2>5. broken \in BOOLEAN
    BY <2>2, Zenon
  <2>6. 0 \in 0..MaxSends
    BY WireAssumption
  <2>7. sends \in 0..MaxSends
    BY <2>2, <2>6
  <2> QED BY <2>1, <2>3, <2>4, <2>5, <2>7 DEF StateOK
<1> QED BY <1>5, <1>7, <1>8 DEF ChannelInv

LEMMA ChannelNext ==
    ASSUME ChannelInv, [Next]_vars
    PROVE  ChannelInv'
<1>1. EndsOK /\ StateOK /\ HelloOK
  BY DEF ChannelInv
<1>2. HelloOK' /\ sends' \in 0..MaxSends
  BY <1>1, HelloStays, SendsStay
<1>3. CASE UNCHANGED vars
  <2>1. StateOK'
    BY <1>1, <1>3 DEF StateOK, vars
  <2>2. EndsOK'
    BY <1>1, <1>3, LocalNext DEF vars, EndsOK
  <2> QED BY <1>2, <2>1, <2>2 DEF ChannelInv
<1>4. ASSUME NEW e \in Endpoint, EndMoves(e), UNCHANGED <<broken, config>>
      PROVE  ChannelInv'
  <2>1. PICK n, bytes, in, out : /\ Step(e, n, bytes) /\ Mech(e, n, bytes, in, out)
                                 /\ Turn(e, n, in, out) /\ Calm(e, n)
    BY <1>4 DEF EndMoves
  <2>2. LocalOK(e, n)
    BY <1>1, <2>1, LocalStays
  <2>3. n \in End /\ bytes \in Seq(Byte)
    BY <2>1 DEF Mech
  <2>4. /\ ends' \in [Endpoint -> End] /\ stream' \in [Endpoint -> Seq(Byte)]
        /\ fin' \in [Endpoint -> BOOLEAN] /\ ends'[e] = n /\ ends'[Peer(e)] = ends[Peer(e)]
    BY <1>1, <2>1, <2>3, StepIs
  <2>5. StateOK'
    BY <1>1, <1>2, <1>4, <2>4 DEF StateOK
  <2>6. \A f \in Endpoint : LocalOK(f, ends'[f])
    BY <1>1, <2>2, <2>4, PeerIs DEF EndsOK
  <2>7. EndsOK'
    BY <1>1, <1>4, <2>6, LocalNext
  <2> QED BY <1>2, <2>5, <2>7 DEF ChannelInv
<1>5. ASSUME NEW e \in Endpoint, read_more(e)
      PROVE  ChannelInv'
  <2> DEFINE n == ends'[e]
             o == ends[e]
  <2>1. UNCHANGED <<hello, fin, broken, config, sends>>
    BY <1>5 DEF read_more
  <2>2. /\ ends' \in [Endpoint -> End] /\ stream' \in [Endpoint -> Seq(Byte)]
        /\ ends'[Peer(e)] = ends[Peer(e)]
        /\ \/ o.pc = "Read" /\ n.pc = "Drain"
           \/ o.pc = "AuthRead" /\ n.pc = "AuthDrain"
        /\ n.result = o.result /\ SameKeys(o, n) /\ n.authenticated = o.authenticated
        /\ n.sent = o.sent /\ n.popped = o.popped
    BY <1>1, <1>5, ReadIs
  <2>3. n \in End
    BY <2>2
  <2>4. LocalOK(e, o)
    BY <1>1 DEF EndsOK
  <2> HIDE DEF n, o
  <2>5. Calm(e, n)
    BY <2>2, <2>4 DEF LocalOK, Calm
  <2>6. KeysOK(n)
    BY <2>2, <2>4 DEF LocalOK, KeysOK, SameKeys
  <2>7. LocalOK(e, n)
    BY <2>2, <2>3, <2>4, <2>5, <2>6 DEF LocalOK
  <2>8. StateOK'
    BY <1>1, <1>2, <2>1, <2>2 DEF StateOK
  <2>9. \A f \in Endpoint : LocalOK(f, ends'[f])
    BY <1>1, <2>2, <2>7, PeerIs DEF EndsOK, n
  <2>10. EndsOK'
    BY <1>1, <2>1, <2>9, LocalNext
  <2> QED BY <1>2, <2>8, <2>10 DEF ChannelInv
<1>6. CASE Elsewhere
  <2>1. UNCHANGED <<ends, config>>
    BY <1>6 DEF Elsewhere
  <2>2. EndsOK'
    BY <1>1, <2>1, LocalNext DEF EndsOK
  <2>3. broken' \in BOOLEAN /\ stream' \in [Endpoint -> Seq(Byte)]
    <3>1. CASE UNCHANGED <<stream, broken>>
      BY <1>1, <3>1 DEF StateOK
    <3>2. ASSUME NEW e \in Endpoint, ForeignWrites(e)
          PROVE  broken' \in BOOLEAN /\ stream' \in [Endpoint -> Seq(Byte)]
      <4>1. PICK b \in ForeignFrames : stream' = [stream EXCEPT ![Peer(e)] = @ \o b]
        BY <3>2 DEF ForeignWrites
      <4>2. b \in Seq(Byte) /\ stream[Peer(e)] \in Seq(Byte)
        BY <1>1, PeerIs, FieldAssumption DEF StateOK
      <4>3. stream[Peer(e)] \o b \in Seq(Byte)
        BY <4>2, JoinIs
      <4>4. UNCHANGED broken
        BY <3>2 DEF ForeignWrites
      <4> QED BY <1>1, <4>1, <4>3, <4>4 DEF StateOK
    <3>3. CASE NetworkFails
      <4>1. stream' = [e \in Endpoint |-> <<>>] /\ broken' = TRUE
        BY <3>3 DEF NetworkFails
      <4>2. <<>> \in Seq(Byte)
        OBVIOUS
      <4> QED BY <4>1, <4>2
    <3> QED BY <1>6, <3>1, <3>2, <3>3 DEF Elsewhere
  <2> QED
    <3>1. fin' \in [Endpoint -> BOOLEAN]
      <4>1. \/ UNCHANGED fin \/ fin' = [e \in Endpoint |-> TRUE]
            \/ \E e \in Endpoint : fin' = [fin EXCEPT ![Peer(e)] = TRUE]
        BY <1>6 DEF Elsewhere
      <4> QED BY <1>1, <4>1, PeerIs DEF StateOK
    <3> QED BY <1>1, <1>2, <2>1, <2>2, <2>3, <3>1 DEF ChannelInv, StateOK
<1>7. Next \/ UNCHANGED vars
  OBVIOUS
<1> QED BY <1>1, <1>3, <1>4, <1>5, <1>6, <1>7, NextIs

\* The types that the channel and the end of the connection rely on, the bound on
\* the buffer, and the counters of the key updater.
LEMMA ChannelInvIsSound ==
    ASSUME ChannelInv
    PROVE  ChannelIsSound
<1>1. EndsOK /\ StateOK /\ HelloOK
  BY DEF ChannelInv
<1>2. TypeOK
  BY <1>1 DEF TypeOK, StateOK, HelloOK, EndsOK, ConfigOK
<1>3. ASSUME NEW e \in Endpoint, Reading(e)
      PROVE  /\ Popped(e).decoded = Ok(None)
             /\ Len(ends[e].read_buf) < HEADER_LEN + limits(e).max_frame_len
  <2> DEFINE buf == ends[e].read_buf
             l == limits(e)
             d == pop_message_buf(buf, l).decoded
  <2>1. Calm(e, ends[e]) /\ buf \in Seq(Byte) /\ IsLimits(l)
    BY <1>1, EndsOKIs, EndIs, LimitsAre
  <2>2. Popped(e).decoded = d
    BY DEF Popped
  <2>3. d = Ok(None)
    BY <1>3, <2>1, LimitsAtPc DEF Calm, Reading
  <2>4. d.ok /\ d.value = None
    BY <2>3 DEF Ok
  <2> HIDE DEF d, l, buf
  <2>5. \A m \in Message : d.value # Some(m)
    BY <2>4, SomeIs
  <2>6. Len(buf) < HEADER_LEN \/ Len(buf) < HEADER_LEN + l.max_frame_len
    BY <2>1, <2>4, <2>5, PopIs DEF d
  <2>7. Len(buf) \in Nat /\ l.max_frame_len \in Nat
    BY <2>1 DEF IsLimits
  <2>8. Len(buf) < HEADER_LEN + l.max_frame_len
    BY <2>6, <2>7, HeaderIs
  <2> QED BY <2>2, <2>3, <2>8 DEF buf, l
<1>4. KeysAreUpdated
  <2>1. ASSUME NEW e \in Endpoint
        PROVE  ends[e].updates = Len(ends[e].sent) \div KeyUpdateInterval
    BY <1>1, KeysAre DEF EndsOK, LocalOK
  <2> QED BY <2>1 DEF KeysAreUpdated
<1> QED BY <1>2, <1>3, <1>4 DEF ChannelIsSound, BufferIsBounded, NothingWaitsInTheBuffer

\* TcpChannel, whoever is at the other end and whatever it writes: an end that asks
\* for more bytes holds less than one frame of the largest size and nothing that it
\* could handle, and its keys are updated once in every KeyUpdateInterval messages.
THEOREM ChannelStaysSound == Spec => []ChannelIsSound
<1>1. Init => ChannelInv
  BY ChannelInit
<1>2. ChannelInv /\ [Next]_vars => ChannelInv'
  BY ChannelNext
<1>3. ChannelInv => ChannelIsSound
  BY ChannelInvIsSound
<1> QED BY <1>1, <1>2, <1>3, PTL DEF Spec

------------------------------------------------------------------------------
(* A direction of the stream                                               *)

\* J[i] are the bytes of the first `i` messages.
IsFrames(J, ms) ==
    /\ J \in [0..Len(ms) -> Seq(Byte)]
    /\ J[0] = <<>>
    /\ \A i \in 1..Len(ms) : J[i] = J[i - 1] \o encode_frame(ms[i])
    /\ \A i \in 0..Len(ms) : \E t \in Seq(Byte) : J[Len(ms)] = J[i] \o t

IsPrefixOf(s, ms) == Len(s) <= Len(ms) /\ \A i \in 1..Len(s) : ms[i] = s[i]

\* The sender has written `s`, and perhaps a part of one message more; the receiver
\* has taken `k` messages, has `buf` in its buffer, and `str` is on its way to it.
\* What is lost (`rest`) is the end of what was written, and nothing is lost while
\* the connection is open.
Flows(S, s, open, k, buf, str, ms, rest, J) ==
    /\ IsFrames(J, ms)
    /\ \A i \in 1..Len(ms) : ms[i] \in S[i]
    /\ IsPrefixOf(s, ms)
    /\ Len(ms) # Len(s) => Len(ms) = Len(s) + 1 /\ rest # <<>>
    /\ open => rest = <<>>
    /\ k \in 0..Len(ms)
    /\ J[k] \o (buf \o (str \o rest)) = J[Len(ms)]

FlowOf(S, s, open, k, buf, str) ==
    \E ms \in Seq(Message), rest \in Seq(Byte) :
        \E J : Flows(S, s, open, k, buf, str, ms, rest, J)

LEMMA JoinNothing ==
    ASSUME NEW s \in Seq(Byte)
    PROVE  s \o <<>> = s /\ <<>> \o s = s
OBVIOUS

LEMMA NothingJoined ==
    ASSUME NEW s \in Seq(Byte), NEW t \in Seq(Byte), s \o t = <<>>
    PROVE  s = <<>> /\ t = <<>>
<1>1. Len(s) + Len(t) = 0 /\ Len(s) \in Nat /\ Len(t) \in Nat
  BY JoinIs
<1> QED BY <1>1

LEMMA FlowStarts ==
    ASSUME NEW S, NEW open
    PROVE  FlowOf(S, <<>>, open, 0, <<>>, <<>>)
<1> DEFINE e == <<>>
           J == [i \in 0..0 |-> e]
<1>1. e \in Seq(Message) /\ e \in Seq(Byte) /\ Len(e) = 0
  OBVIOUS
<1>2. J \in [0..0 -> Seq(Byte)] /\ J[0] = e
  OBVIOUS
<1>3. e \o e = e
  BY <1>1, JoinNothing
<1> HIDE DEF J
<1>4. IsFrames(J, e)
  <2>1. \A i \in 0..0 : J[0] = J[i] \o e
    BY <1>2, <1>3
  <2> QED BY <1>1, <1>2, <2>1 DEF IsFrames
<1>5. J[0] \o (e \o (e \o e)) = J[0]
  BY <1>2, <1>3
<1> HIDE DEF e
<1>6. Flows(S, e, open, 0, e, e, e, e, J)
  BY <1>1, <1>4, <1>5 DEF Flows, IsPrefixOf
<1>7. FlowOf(S, e, open, 0, e, e)
  BY <1>1, <1>6 DEF FlowOf
<1> QED BY <1>7 DEF e

LEMMA FlowWeakens ==
    ASSUME NEW S, NEW s, NEW open, NEW less, less => open, NEW k, NEW buf, NEW str,
           FlowOf(S, s, open, k, buf, str)
    PROVE  FlowOf(S, s, less, k, buf, str)
<1>1. PICK ms \in Seq(Message), rest \in Seq(Byte) :
        \E J : Flows(S, s, open, k, buf, str, ms, rest, J)
  BY DEF FlowOf
<1>2. PICK J : Flows(S, s, open, k, buf, str, ms, rest, J)
  BY <1>1
<1>3. Flows(S, s, less, k, buf, str, ms, rest, J)
  BY <1>2 DEF Flows
<1> QED BY <1>3 DEF FlowOf

LEMMA FlowIsRead ==
    ASSUME NEW S, NEW s, NEW open, NEW k, NEW buf \in Seq(Byte), NEW x \in Seq(Byte),
           NEW y \in Seq(Byte), NEW str, str = x \o y, FlowOf(S, s, open, k, buf, str)
    PROVE  FlowOf(S, s, open, k, buf \o x, y)
<1>1. PICK ms \in Seq(Message), rest \in Seq(Byte) :
        \E J : Flows(S, s, open, k, buf, str, ms, rest, J)
  BY DEF FlowOf
<1>2. PICK J : Flows(S, s, open, k, buf, str, ms, rest, J)
  BY <1>1
<1>3. buf \o (str \o rest) = (buf \o x) \o (y \o rest)
  <2>1. str \o rest = x \o (y \o rest) /\ y \o rest \in Seq(Byte)
    BY JoinAssociates, JoinIs
  <2>2. (buf \o x) \o (y \o rest) = buf \o (x \o (y \o rest))
    BY <2>1, JoinAssociates
  <2> QED BY <2>1, <2>2
<1>4. Flows(S, s, open, k, buf \o x, y, ms, rest, J)
  BY <1>2, <1>3 DEF Flows
<1> QED BY <1>4 DEF FlowOf

\* What was in flight is lost.
LEMMA FlowIsLost ==
    ASSUME NEW S, NEW s, NEW open, NEW k, NEW buf \in Seq(Byte), NEW str \in Seq(Byte),
           FlowOf(S, s, open, k, buf, str)
    PROVE  FlowOf(S, s, FALSE, k, buf, <<>>)
<1>1. PICK ms \in Seq(Message), rest \in Seq(Byte) :
        \E J : Flows(S, s, open, k, buf, str, ms, rest, J)
  BY DEF FlowOf
<1>2. PICK J : Flows(S, s, open, k, buf, str, ms, rest, J)
  BY <1>1
<1> DEFINE lost == str \o rest
<1>3. lost \in Seq(Byte) /\ <<>> \o lost = lost
  BY JoinIs, JoinNothing
<1>4. rest # <<>> => lost # <<>>
  BY NothingJoined
<1> HIDE DEF lost
<1>5. J[k] \o (buf \o (<<>> \o lost)) = J[Len(ms)]
  BY <1>2, <1>3 DEF Flows, lost
<1>6. Flows(S, s, FALSE, k, buf, <<>>, ms, lost, J)
  BY <1>2, <1>4, <1>5 DEF Flows
<1> QED BY <1>3, <1>6 DEF FlowOf

\* One frame more at the end of a sequence of frames.
LEMMA FramesGrow ==
    ASSUME NEW ms \in Seq(Message), NEW J, IsFrames(J, ms), NEW m \in Message
    PROVE  \E I : /\ IsFrames(I, Append(ms, m))
                  /\ \A i \in 0..Len(ms) : I[i] = J[i]
                  /\ I[Len(ms) + 1] = J[Len(ms)] \o encode_frame(m)
<1> DEFINE n == Len(ms)
           q == Append(ms, m)
           f == encode_frame(m)
           last == J[n] \o f
           I == [i \in 0..(n + 1) |-> IF i <= n THEN J[i] ELSE last]
<1>1. /\ q \in Seq(Message) /\ Len(q) = n + 1 /\ q[n + 1] = m /\ n \in Nat
      /\ \A i \in 1..n : q[i] = ms[i]
  BY AppendIs
<1>2. f \in Seq(Byte)
  BY EncodeIs
<1>3. /\ J \in [0..n -> Seq(Byte)] /\ J[0] = <<>>
      /\ \A i \in 1..n : J[i] = J[i - 1] \o encode_frame(ms[i])
      /\ \A i \in 0..n : \E t \in Seq(Byte) : J[n] = J[i] \o t
  BY DEF IsFrames
<1>4. \A i \in 0..n : J[i] \in Seq(Byte)
  BY <1>1, <1>3
<1>5. last \in Seq(Byte)
  BY <1>1, <1>2, <1>4, JoinIs
<1>6. (\A i \in 0..n : I[i] = J[i]) /\ I[n + 1] = last
  BY <1>1
<1>7. I \in [0..(n + 1) -> Seq(Byte)]
  BY <1>1, <1>4, <1>5
<1> HIDE DEF I, q, n
<1>8. I[0] = <<>>
  BY <1>1, <1>3, <1>6
<1>9. ASSUME NEW i \in 1..(n + 1) PROVE I[i] = I[i - 1] \o encode_frame(q[i])
  <2>1. CASE i <= n
    <3>1. i \in 1..n /\ i \in 0..n /\ i - 1 \in 0..n
      BY <1>1, <2>1
    <3>2. I[i] = J[i] /\ I[i - 1] = J[i - 1] /\ q[i] = ms[i]
      BY <1>1, <1>6, <3>1
    <3> QED BY <1>3, <3>1, <3>2
  <2>2. CASE i = n + 1
    <3>1. i - 1 = n /\ n \in 0..n
      BY <1>1, <2>2
    <3>2. I[i - 1] = J[n] /\ q[i] = m
      BY <1>1, <1>6, <2>2, <3>1
    <3> QED BY <1>6, <2>2, <3>2
  <2>3. i <= n \/ i = n + 1
    BY <1>1
  <2> QED BY <2>1, <2>2, <2>3
<1>10. ASSUME NEW i \in 0..(n + 1) PROVE \E t \in Seq(Byte) : I[n + 1] = I[i] \o t
  <2>1. CASE i <= n
    <3>1. i \in 0..n
      BY <1>1, <2>1
    <3>2. PICK t \in Seq(Byte) : J[n] = J[i] \o t
      BY <1>3, <3>1
    <3>3. t \o f \in Seq(Byte)
      BY <1>2, JoinIs
    <3>4. (J[i] \o t) \o f = J[i] \o (t \o f)
      BY <1>2, <1>4, <3>1, JoinAssociates
    <3>5. I[n + 1] = I[i] \o (t \o f)
      BY <1>6, <3>1, <3>2, <3>4
    <3> QED BY <3>3, <3>5
  <2>2. CASE i = n + 1
    <3>1. I[n + 1] = I[i] \o <<>> /\ <<>> \in Seq(Byte)
      BY <1>5, <1>6, <2>2, JoinNothing
    <3> QED BY <3>1
  <2>3. i <= n \/ i = n + 1
    BY <1>1
  <2> QED BY <2>1, <2>2, <2>3
<1>11. IsFrames(I, q)
  BY <1>1, <1>7, <1>8, <1>9, <1>10 DEF IsFrames
<1> QED BY <1>6, <1>11 DEF q, n

\* The receiver pops the next message, or waits for more of it.
LEMMA FlowPops ==
    ASSUME NEW S, NEW s \in Seq(Message), NEW open, NEW k, NEW buf \in Seq(Byte),
           NEW str \in Seq(Byte), FlowOf(S, s, open, k, buf, str), NEW l, IsLimits(l),
           \A m \in S[k + 1] : m \in Message /\ Admits(l, m) /\ Fits(Len(m.payload), Width.length)
    PROVE  LET p == pop_message_buf(buf, l)
           IN  \/ p.decoded = Ok(None)
               \/ \E m \in Message :
                    /\ p.decoded = Ok(Some(m)) /\ m \in S[k + 1]
                    /\ k + 1 \in 1..Len(s) /\ m = s[k + 1]
                    /\ FlowOf(S, s, open, k + 1, p.rest, str)
<1>1. PICK ms \in Seq(Message), rest \in Seq(Byte) :
        \E J : Flows(S, s, open, k, buf, str, ms, rest, J)
  BY DEF FlowOf
<1>2. PICK J : Flows(S, s, open, k, buf, str, ms, rest, J)
  BY <1>1
<1> DEFINE n == Len(ms)
           x == str \o rest
           p == pop_message_buf(buf, l)
<1>3. n \in Nat /\ k \in 0..n /\ x \in Seq(Byte) /\ Len(s) \in Nat
  BY <1>2, JoinIs DEF Flows
<1>4. /\ J \in [0..n -> Seq(Byte)]
      /\ \A i \in 1..n : J[i] = J[i - 1] \o encode_frame(ms[i])
      /\ \A i \in 0..n : \E t \in Seq(Byte) : J[n] = J[i] \o t
  BY <1>2 DEF Flows, IsFrames
<1>5. J[k] \o (buf \o x) = J[n]
  BY <1>2 DEF Flows
<1>6. J[k] \in Seq(Byte) /\ buf \o x \in Seq(Byte)
  BY <1>3, <1>4, JoinIs
<1>7. CASE k = n
  <2>1. J[k] \o (buf \o x) = J[k] \o <<>> /\ <<>> \in Seq(Byte)
    BY <1>5, <1>6, <1>7, JoinNothing
  <2> HIDE DEF x
  <2>2. buf \o x = <<>>
    <3> DEFINE y == buf \o x
               z == J[k]
    <3> HIDE DEF y, z
    <3>1. y \in Seq(Byte) /\ z \in Seq(Byte) /\ z \o y = z \o <<>>
      BY <1>6, <2>1 DEF y, z
    <3>2. y = <<>>
      BY <2>1, <3>1, SameHead
    <3> QED BY <3>2 DEF y
  <2>3. buf = <<>>
    BY <1>3, <2>2, NothingJoined
  <2> QED BY <2>3, NothingToPop
<1>8. CASE k < n
  <2> DEFINE m == ms[k + 1]
             f == encode_frame(m)
  <2>1. k + 1 \in 1..n /\ k + 1 \in 0..n /\ (k + 1) - 1 = k /\ k + 1 \in Nat
    BY <1>3, <1>8
  <2>2. m \in Message /\ m \in S[k + 1]
    BY <1>2, <2>1 DEF Flows
  <2>3. f \in Seq(Byte)
    BY <2>2, EncodeIs
  <2>4. J[k + 1] = J[k] \o f
    BY <1>4, <2>1
  <2>5. PICK t \in Seq(Byte) : J[n] = J[k + 1] \o t
    BY <1>4, <2>1
  <2> HIDE DEF m, f, n, x
  <2>6. buf \o x = f \o t
    <3> DEFINE y == buf \o x
               z == J[k]
               u == f \o t
    <3>1. u \in Seq(Byte)
      BY <2>3, JoinIs
    <3>2. y \in Seq(Byte) /\ z \in Seq(Byte)
      BY <1>6
    <3>3. z \o y = (z \o f) \o t
      BY <1>5, <2>4, <2>5
    <3> HIDE DEF y, z
    <3>4. z \in Seq(Byte)
      BY <3>2, Zenon
    <3>5. (z \o f) \o t = z \o u
      BY <2>3, <3>4, JoinsAssociate, Zenon
    <3> HIDE DEF u
    <3>6. y = u
      BY <3>1, <3>2, <3>5, <3>3, SameHead
    <3> QED BY <3>6 DEF y, u
  <2>7. Admits(l, m) /\ Fits(Len(m.payload), Width.length)
    BY <2>2
  <2>8. \/ p.decoded = Ok(None)
        \/ /\ p.decoded = Ok(Some(m)) /\ p.rest \in Seq(Byte)
           /\ p.rest \o x = t /\ Len(f) <= Len(buf)
    BY <1>3, <2>2, <2>6, <2>7, FrameHead DEF f
  <2> HIDE DEF p
  <2>9. CASE p.decoded = Ok(Some(m)) /\ p.rest \in Seq(Byte) /\ p.rest \o x = t
             /\ Len(f) <= Len(buf)
    <3>1. J[k + 1] \o (p.rest \o (str \o rest)) = J[Len(ms)]
      BY <2>5, <2>9 DEF n, x
    <3>2. Flows(S, s, open, k + 1, p.rest, str, ms, rest, J)
      BY <1>2, <2>1, <3>1 DEF Flows, n
    <3>3. FlowOf(S, s, open, k + 1, p.rest, str)
      BY <3>2 DEF FlowOf
    <3>4. k + 1 <= Len(s)
      <4>1. SUFFICES ASSUME ~(k + 1 <= Len(s)) PROVE FALSE
        OBVIOUS
      <4>2. n # Len(s) => n = Len(s) + 1 /\ rest # <<>>
        BY <1>2 DEF Flows, n
      <4>3. n = k + 1 /\ rest # <<>>
        BY <1>3, <2>1, <4>1, <4>2
      <4>4. J[n] = J[n] \o t /\ J[n] \in Seq(Byte)
        BY <1>4, <2>1, <2>5, <4>3
      <4>5. J[n] \o t = J[n] \o <<>> /\ <<>> \in Seq(Byte)
        BY <4>4, JoinNothing
      <4> DEFINE z == J[n]
      <4> HIDE DEF z
      <4>6. z \o t = z \o <<>> /\ z \in Seq(Byte)
        BY <4>4, <4>5 DEF z
      <4>7. t = <<>>
        BY <4>5, <4>6, SameHead
      <4>8. x = <<>>
        BY <1>3, <2>9, <4>7, NothingJoined
      <4>9. rest = <<>>
        BY <4>8, NothingJoined DEF x
      <4> QED BY <4>3, <4>9
    <3>5. k + 1 \in 1..Len(s) /\ s[k + 1] = m
      BY <1>2, <1>3, <2>1, <3>4 DEF Flows, IsPrefixOf, m
    <3> QED BY <2>2, <2>9, <3>3, <3>5 DEF p
  <2> QED BY <2>8, <2>9 DEF p
<1>9. k = n \/ k < n
  BY <1>3
<1> QED BY <1>7, <1>8, <1>9

\* The sender writes one message more.
LEMMA FlowGrows ==
    ASSUME NEW S, NEW s \in Seq(Message), NEW k, NEW buf \in Seq(Byte),
           NEW str \in Seq(Byte), FlowOf(S, s, TRUE, k, buf, str),
           NEW m \in Message, m \in S[Len(s) + 1],
           NEW part \in Seq(Byte), NEW lost \in Seq(Byte), part \o lost = encode_frame(m)
    PROVE  /\ lost = <<>> => \A open \in BOOLEAN :
                                FlowOf(S, Append(s, m), open, k, buf, str \o part)
           /\ lost # <<>> => FlowOf(S, s, FALSE, k, buf, str \o part)
<1>1. PICK ms \in Seq(Message), rest \in Seq(Byte) :
        \E J : Flows(S, s, TRUE, k, buf, str, ms, rest, J)
  BY DEF FlowOf
<1>2. PICK J : Flows(S, s, TRUE, k, buf, str, ms, rest, J)
  BY <1>1
<1> DEFINE n == Len(ms)
           q == Append(ms, m)
           f == encode_frame(m)
           u == str \o part
<1>3. rest = <<>> /\ n = Len(s) /\ k \in 0..n /\ n \in Nat /\ Len(s) \in Nat
  BY <1>2 DEF Flows
<1>4. IsFrames(J, ms)
  BY <1>2 DEF Flows
<1>5. PICK I : /\ IsFrames(I, q)
               /\ \A i \in 0..n : I[i] = J[i]
               /\ I[n + 1] = J[n] \o f
  BY <1>4, FramesGrow, Zenon
<1>6. /\ q \in Seq(Message) /\ Len(q) = n + 1 /\ q[n + 1] = m
      /\ \A i \in 1..n : q[i] = ms[i]
  BY AppendIs
<1>7. J \in [0..n -> Seq(Byte)] /\ f \in Seq(Byte) /\ u \in Seq(Byte)
  BY <1>4, EncodeIs, JoinIs DEF IsFrames
<1> HIDE DEF f, q, n, u
<1>8. J[k] \in Seq(Byte) /\ J[n] \in Seq(Byte) /\ f \in Seq(Byte) /\ u \in Seq(Byte)
  BY <1>3, <1>7
<1>9. I[k] = J[k] /\ k \in 0..(n + 1)
  BY <1>3, <1>5
<1>10. I[k] \o (buf \o (u \o lost)) = I[n + 1]
  <2>1. J[k] \o (buf \o (str \o <<>>)) = J[n]
    BY <1>2, <1>3 DEF Flows, n
  <2>2. J[k] \o (buf \o str) = J[n]
    BY <2>1, JoinNothing
  <2> DEFINE z == J[k]
             b == buf \o str
  <2>3. b \in Seq(Byte) /\ z \in Seq(Byte)
    BY <1>8, JoinIs
  <2>4. part \o lost = f /\ u = str \o part
    BY DEF f, u
  <2>5. (str \o part) \o lost = str \o (part \o lost)
    BY JoinAssociates, Zenon
  <2>6. u \o lost = str \o f
    BY <2>4, <2>5, Zenon
  <2>7. f \in Seq(Byte)
    BY <1>8, Zenon
  <2>8. b \o f = buf \o (str \o f)
    BY <2>7, JoinsAssociate, Zenon
  <2>9. z \o b = J[n]
    BY <2>2
  <2> HIDE DEF z, b
  <2>10. z \in Seq(Byte)
    BY <2>3, Zenon
  <2>11. b \in Seq(Byte)
    BY <2>3, Zenon
  <2>12. (z \o b) \o f = z \o (b \o f)
    BY <2>7, <2>10, <2>11, JoinsAssociate, Zenon
  <2>13. I[n + 1] = z \o (b \o f)
    BY <1>5, <2>12, <2>9
  <2>14. z = I[k]
    BY <1>9 DEF z
  <2> QED BY <2>6, <2>8, <2>13, <2>14
<1>11. \A i \in 1..(n + 1) : q[i] \in S[i]
  <2> SUFFICES ASSUME NEW i \in 1..(n + 1) PROVE q[i] \in S[i]
    OBVIOUS
  <2>1. i \in 1..n \/ i = n + 1
    BY <1>3
  <2>2. i \in 1..n => ms[i] \in S[i]
    BY <1>2 DEF Flows, n
  <2> QED BY <1>3, <1>6, <2>1, <2>2
<1>12. \A i \in 1..Len(s) : s[i] = q[i]
  BY <1>2, <1>3, <1>6 DEF Flows, IsPrefixOf
<1>13. ASSUME lost = <<>>, NEW open \in BOOLEAN
       PROVE  FlowOf(S, Append(s, m), open, k, buf, u)
  <2> DEFINE w == Append(s, m)
  <2>1. w \in Seq(Message) /\ Len(w) = n + 1 /\ w[n + 1] = m /\ \A i \in 1..n : w[i] = s[i]
    BY <1>3, AppendIs
  <2> HIDE DEF w
  <2>2. IsPrefixOf(w, q)
    <3>1. ASSUME NEW i \in 1..(n + 1) PROVE q[i] = w[i]
      <4>1. i \in 1..n \/ i = n + 1
        BY <1>3
      <4> QED BY <1>3, <1>6, <1>12, <2>1, <4>1
    <3>2. Len(w) <= Len(q) /\ Len(w) = n + 1
      BY <1>3, <1>6, <2>1
    <3> QED BY <3>1, <3>2 DEF IsPrefixOf
  <2>3. Flows(S, w, open, k, buf, u, q, lost, I)
    BY <1>3, <1>5, <1>6, <1>9, <1>10, <1>11, <1>13, <2>1, <2>2 DEF Flows
  <2>4. FlowOf(S, w, open, k, buf, u)
    BY <1>6, <2>3 DEF FlowOf
  <2> QED BY <2>4 DEF w
<1>14. ASSUME lost # <<>> PROVE FlowOf(S, s, FALSE, k, buf, u)
  <2>1. IsPrefixOf(s, q)
    BY <1>3, <1>6, <1>12 DEF IsPrefixOf
  <2>2. Flows(S, s, FALSE, k, buf, u, q, lost, I)
    BY <1>3, <1>5, <1>6, <1>9, <1>10, <1>11, <1>14, <2>1 DEF Flows
  <2> QED BY <1>6, <2>2 DEF FlowOf
<1> QED BY <1>13, <1>14 DEF u

------------------------------------------------------------------------------
(* The conversation of two ends that run this code                         *)

Refusals == {"UnknownClient", "Disabled", "BadSignature", "IpMismatch", "ChallengeInvalid",
             "MtuMismatch"}

\* What an end says first: the client its AUTH, the server its verdict on that.
First(e, m) ==
    \/ e = "Client" /\ m = AuthMessage
    \/ e = "Server" /\ m = AuthOkMessage /\ Accepted
    \/ e = "Server" /\ \E x \in Refusals : m = AuthFailMessage(x)

\* What an end may say, by the number of the message.
Script(e) ==
    [i \in Nat |-> {m \in Message : IF i = 1 THEN First(e, m)
                                             ELSE Accepted /\ SessionMessage(e, m)}]

PhaseOK(e, n) ==
    /\ n.pc # "Foreign" /\ n.result \notin {"Frame", "Violation", "AuthProtocolError"}
    /\ n.pc \in {"Peek", "Tls", "Connected"} => n.sent = <<>> /\ n.popped = <<>>
    /\ n.pc \in {"AuthRead", "AuthDrain"}
            => n.popped = <<>> /\ Len(n.sent) = IF e = "Client" THEN 1 ELSE 0
    /\ n.pc \in SessionPc => Len(n.sent) >= 1 /\ Len(n.popped) >= 1 /\ Accepted
    /\ e = "Client" /\ n.authenticated => Len(n.sent) >= 1 /\ Accepted

SentOK(e, n) == \A i \in 1..Len(n.sent) : n.sent[i] \in Script(e)[i]

\* What end `e` has written and its peer has taken.
Link(e) ==
    LET p == Peer(e)
    IN  /\ IsPrefixOf(ends[p].popped, ends[e].sent)
        /\ ends[p].pc # "Done" =>
            FlowOf(Script(e), ends[e].sent, ends[e].pc # "Done" /\ ~broken,
                   Len(ends[p].popped), ends[p].read_buf, stream[p])

Conv == \A e \in Endpoint : PhaseOK(e, ends[e]) /\ SentOK(e, ends[e]) /\ Link(e)

BothRun == \A e \in Endpoint : RunsCode(e)

LEMMA ScriptIs ==
    ASSUME NEW e, NEW i \in Nat, NEW m
    PROVE  m \in Script(e)[i] <=> /\ m \in Message
                                  /\ i = 1 => First(e, m)
                                  /\ i # 1 => Accepted /\ SessionMessage(e, m)
BY DEF Script

LEMMA ScriptStays ==
    ASSUME UNCHANGED config, NEW CONSTANT e
    PROVE  Script(e)' = Script(e)
<1>1. Accepted' <=> Accepted
  BY DEF Accepted, AuthMessage, verify_auth_payload
<1>2. AuthMessage' = AuthMessage
  BY DEF AuthMessage
<1>3. \A m : First(e, m)' <=> First(e, m)
  BY <1>1, <1>2 DEF First
<1>4. \A m : SessionMessage(e, m)' <=> SessionMessage(e, m)
  BY DEF SessionMessage, Mtu
<1> QED BY <1>1, <1>3, <1>4 DEF Script

\* The limits and the checks of the peer let the messages of the script pass.
LEMMA FirstIs ==
    ASSUME ConfigOK, NEW e \in Endpoint, NEW m, First(e, m)
    PROVE  /\ m \in Message /\ Fits(Len(m.payload), Width.length)
           /\ validate_message(m, Context(e, "Authentication")).ok
           /\ \A pc \in AuthPc : Admits(LimitsAt(Peer(e), pc), m)
           /\ e = "Client" => m = AuthMessage
           /\ e = "Server" => m.ty \in {"AuthOk", "AuthFail"}
           /\ e = "Server" /\ m.ty = "AuthOk" => Accepted
<1>1. CASE e = "Client"
  <2>1. m = AuthMessage
    BY <1>1 DEF First
  <2>2. \A pc : LimitsAt(Peer(e), pc) = from_mtu(config.server_mtu)
    BY <1>1 DEF Peer, LimitsAt
  <2>3. m \in Message
    BY <2>1, AuthMessageIs
  <2>4. Fits(Len(m.payload), Width.length) /\ Admits(from_mtu(config.server_mtu), m)
        /\ validate_message(m, Context("Client", "Authentication")).ok
    BY <2>1, AuthMessageIsFine
  <2> QED BY <1>1, <2>1, <2>2, <2>3, <2>4
<1>2. CASE e = "Server"
  <2> DEFINE l == [max_frame_len |-> AUTH_MAX_FRAME, max_data_len |-> AUTH_MAX_FRAME]
  <2>1. \A pc \in AuthPc : LimitsAt(Peer(e), pc) = l
    BY <1>2 DEF Peer, LimitsAt
  <2>2. \/ m = AuthOkMessage /\ Accepted
        \/ \E x \in Refusals : m = AuthFailMessage(x)
    BY <1>2 DEF First
  <2>3. AuthOkMessage.ty = "AuthOk" /\ \A x : AuthFailMessage(x).ty = "AuthFail"
    BY DEF AuthOkMessage, AuthFailMessage
  <2>4. /\ m \in Message /\ Len(m.payload) <= 1
        /\ validate_message(m, Context("Server", "Authentication")).ok
    <3>1. CASE m = AuthOkMessage
      BY <3>1, AnswersAre
    <3>2. CASE \E x \in Refusals : m = AuthFailMessage(x)
      <4>1. PICK x \in Refusals : m = AuthFailMessage(x)
        BY <3>2
      <4>2. /\ AuthFailMessage(x) \in Message /\ Len(AuthFailMessage(x).payload) = 1
            /\ validate_message(AuthFailMessage(x), Context("Server", "Authentication")).ok
        BY AnswersAre, Zenon DEF Refusals
      <4> QED BY <4>1, <4>2
    <3> QED BY <2>2, <3>1, <3>2
  <2>5. m.ty \in {"AuthOk", "AuthFail"} /\ (m.ty = "AuthOk" => Accepted)
    BY <2>2, <2>3
  <2>6. m.ty # "Data"
    BY <2>5
  <2> HIDE DEF l
  <2>7. Fits(Len(m.payload), Width.length) /\ Admits(l, m)
    BY <2>4, <2>6, AnswersFit DEF l
  <2> QED BY <1>2, <2>1, <2>4, <2>5, <2>7
<1> QED BY <1>1, <1>2 DEF Endpoint

LEMMA AcceptedMtu ==
    ASSUME ConfigOK, Accepted
    PROVE  config.tun_mtu = config.server_mtu /\ GoodAuth(AuthMessage)
BY AuthMessageIs, AcceptedIsGood DEF Accepted

LEMMA ScriptFits ==
    ASSUME ConfigOK, NEW e \in Endpoint, NEW i \in Nat, NEW m \in Script(e)[i], NEW pc \in Pc,
           i = 1 => pc \in {"AuthRead", "AuthDrain"}, i # 1 => pc \in SessionPc
    PROVE  /\ m \in Message /\ Admits(LimitsAt(Peer(e), pc), m)
           /\ Fits(Len(m.payload), Width.length)
           /\ validate_message(m, Context(e, PhaseAt(pc))).ok
<1>1. CASE i = 1
  <2>1. First(e, m)
    BY <1>1, ScriptIs
  <2>2. pc \in AuthPc /\ PhaseAt(pc) = "Authentication"
    BY <1>1 DEF AuthPc, PhaseAt
  <2> QED BY <2>1, <2>2, FirstIs
<1>2. CASE i # 1
  <2>1. Accepted /\ SessionMessage(e, m)
    BY <1>2, ScriptIs
  <2>2. pc \notin AuthPc /\ PhaseAt(pc) = "Established"
    BY <1>2 DEF AuthPc, SessionPc, PhaseAt
  <2>3. \/ LimitsAt(Peer(e), pc) = from_mtu(config.server_mtu)
        \/ LimitsAt(Peer(e), pc) = from_mtu(config.tun_mtu)
    BY <2>2 DEF LimitsAt
  <2>4. config.tun_mtu = config.server_mtu
    BY <2>1, AcceptedMtu
  <2>5. /\ m \in Message /\ Fits(Len(m.payload), Width.length)
        /\ Admits(from_mtu(config.server_mtu), m) /\ Admits(from_mtu(config.tun_mtu), m)
    BY <2>1, <2>4, SessionAdmitted
  <2>6. validate_message(m, Context(e, "Established")).ok
    BY <2>1 DEF SessionMessage
  <2> QED BY <2>2, <2>3, <2>5, <2>6
<1> QED BY <1>1, <1>2

\* What an end finds in its buffer is the next message of its peer, or nothing yet.
Hears(e, m) ==
    LET p == Peer(e)
        i == Len(ends[e].popped) + 1
    IN  /\ Popped(e).decoded = Ok(Some(m)) /\ m \in Message
        /\ m \in Script(p)[i] /\ i \in 1..Len(ends[p].sent) /\ m = ends[p].sent[i]
        /\ FlowOf(Script(p), ends[p].sent, ends[p].pc # "Done" /\ ~broken, i, Popped(e).rest,
                  stream[e])
        /\ validate_message(m, Context(p, PhaseAt(ends[e].pc))).ok

LEMMA HearsIs ==
    ASSUME ChannelInv, Conv, NEW e \in Endpoint,
           ends[e].pc \in {"AuthRead", "AuthDrain", "Read", "Drain"}
    PROVE  Popped(e).decoded = Ok(None) \/ \E m \in Message : Hears(e, m)
<1> DEFINE p == Peer(e)
           S == Script(p)
           s == ends[p].sent
           open == ends[p].pc # "Done" /\ ~broken
           k == Len(ends[e].popped)
           buf == ends[e].read_buf
           str == stream[e]
           l == limits(e)
           pc == ends[e].pc
<1>1. p \in Endpoint /\ Peer(p) = e
  BY PeerIs
<1>2. ConfigOK /\ ends[e] \in End /\ ends[p] \in End /\ str \in Seq(Byte)
  BY <1>1 DEF ChannelInv, EndsOK, StateOK
<1>3. /\ s \in Seq(Message) /\ buf \in Seq(Byte) /\ pc \in Pc /\ ends[e].popped \in Seq(Message)
      /\ IsLimits(l)
  BY <1>2, EndIs, LimitsAre
<1>4. k \in Nat /\ k + 1 \in Nat
  BY <1>3
<1>5. FlowOf(S, s, open, k, buf, str)
  BY <1>1 DEF Conv, Link
<1>6. PhaseOK(e, ends[e])
  BY DEF Conv
<1>7. /\ k + 1 = 1 => pc \in {"AuthRead", "AuthDrain"}
      /\ k + 1 # 1 => pc \in SessionPc
  <2>1. pc \in {"AuthRead", "AuthDrain"} => k = 0
    BY <1>6 DEF PhaseOK
  <2>2. pc \in SessionPc => k >= 1
    BY <1>6 DEF PhaseOK
  <2> HIDE DEF k, pc
  <2>3. pc \in {"AuthRead", "AuthDrain"} \/ pc \in SessionPc
    BY DEF pc, SessionPc
  <2> QED BY <1>4, <2>1, <2>2, <2>3
<1>8. l = LimitsAt(e, pc)
  BY LimitsAtPc
<1> HIDE DEF p, S, s, open, k, buf, str, l, pc
<1>9. ASSUME NEW m \in S[k + 1]
      PROVE  /\ m \in Message /\ Admits(l, m) /\ Fits(Len(m.payload), Width.length)
             /\ validate_message(m, Context(p, PhaseAt(pc))).ok
  BY <1>1, <1>2, <1>3, <1>4, <1>7, <1>8, ScriptFits DEF S
<1> DEFINE q == pop_message_buf(buf, l)
<1> HIDE DEF q
<1>10. \/ q.decoded = Ok(None)
       \/ \E m \in Message :
            /\ q.decoded = Ok(Some(m)) /\ m \in S[k + 1]
            /\ k + 1 \in 1..Len(s) /\ m = s[k + 1]
            /\ FlowOf(S, s, open, k + 1, q.rest, str)
  <2>1. \A m \in S[k + 1] : m \in Message /\ Admits(l, m) /\ Fits(Len(m.payload), Width.length)
    BY <1>9
  <2>2. str \in Seq(Byte) /\ buf \in Seq(Byte) /\ s \in Seq(Message) /\ IsLimits(l)
    BY <1>2, <1>3
  <2> QED BY <1>5, <2>1, <2>2, FlowPops DEF q
<1>11. q = Popped(e)
  BY DEF q, buf, l, Popped
<1>12. ASSUME NEW m \in Message, q.decoded = Ok(Some(m)), m \in S[k + 1],
              k + 1 \in 1..Len(s), m = s[k + 1], FlowOf(S, s, open, k + 1, q.rest, str)
       PROVE  Hears(e, m)
  <2>1. validate_message(m, Context(p, PhaseAt(pc))).ok
    BY <1>9, <1>12
  <2> QED BY <1>11, <1>12, <2>1 DEF Hears, p, S, s, open, k, str, pc
<1> QED BY <1>10, <1>11, <1>12

LEMMA OkIs ==
    ASSUME NEW m, NEW w
    PROVE  Ok(Some(m)) # Ok(None) /\ Ok(None).ok /\ Ok(Some(m)).ok
           /\ (Ok(Some(m)) = Ok(Some(w)) => m = w)
<1>1. Ok(None).ok /\ Ok(Some(m)).ok /\ Ok(Some(m)).value = Some(m) /\ Ok(None).value = None
      /\ Ok(Some(w)).value = Some(w)
  BY DEF Ok
<1>2. Some(m) # None /\ (Some(m) = Some(w) => m = w)
  BY SomeIs
<1> QED BY <1>1, <1>2

\* So an end refuses nothing, and what it takes is what comes next.
Said(e, n, in, out) ==
    \/ Idle(e, n, in, out) \/ Leave(e, n, in, out) \/ SendAuth(e, n, in, out)
    \/ Answer(e, n, in, out) \/ Learn(e, n, in, out) \/ Chat(e, n, in, out)

LEMMA TurnIs ==
    ASSUME ChannelInv, Conv, NEW e \in Endpoint, NEW n, NEW bytes, NEW in, NEW out,
           Mech(e, n, bytes, in, out), Turn(e, n, in, out)
    PROVE  /\ in = <<>> \/ \E m \in Message : in = <<m>> /\ Hears(e, m)
           /\ Said(e, n, in, out)
<1>1. ASSUME NEW m \in Message, in = <<m>>
      PROVE  Hears(e, m) /\ ends[e].pc \in {"AuthDrain", "Read", "Drain"}
  <2>1. in # <<>>
    BY <1>1
  <2>2. Popped(e).decoded = Ok(Some(m))
    BY <1>1 DEF Mech, Incoming
  <2>3. ends[e].pc \in {"AuthDrain", "Read", "Drain"}
    BY <2>1 DEF Turn, Idle, Leave, Refuse, SendAuth, Answer, Learn, AuthChat, Chat, SessionPc
  <2>4. PICK w \in Message : Hears(e, w)
    BY <2>2, <2>3, HearsIs, OkIs
  <2>5. w = m
    BY <2>2, <2>4, OkIs DEF Hears
  <2> QED BY <2>3, <2>4, <2>5
<1>2. in = <<>> \/ \E m \in Message : in = <<m>>
  BY DEF Mech, Incoming
<1>3. ~Refuse(e, n, in, out)
  <2>1. SUFFICES ASSUME Refuse(e, n, in, out) PROVE FALSE
    OBVIOUS
  <2>2. ends[e].pc \in {"AuthDrain", "Drain"}
    BY <2>1 DEF Refuse
  <2>3. CASE ~Popped(e).decoded.ok
    BY <2>2, <2>3, HearsIs, OkIs DEF Hears
  <2>4. CASE \E m \in Message :
                in = <<m>> /\ ~validate_message(m, Context(Peer(e), PhaseAt(ends[e].pc))).ok
    BY <1>1, <2>4 DEF Hears
  <2> QED BY <2>1, <2>3, <2>4 DEF Refuse
<1>4. ~AuthChat(e, n, in, out)
  <2>1. SUFFICES ASSUME AuthChat(e, n, in, out) PROVE FALSE
    OBVIOUS
  <2>2. PICK m \in Message : in = <<m>> /\ m.ty \in {"Ping", "Pong", "Close"}
    BY <2>1 DEF AuthChat
  <2>3. Hears(e, m) /\ ends[e].pc = "AuthDrain"
    BY <1>1, <2>1, <2>2 DEF AuthChat
  <2>4. Len(ends[e].popped) + 1 = 1
    BY <2>3 DEF Conv, PhaseOK
  <2>5. m \in Script(Peer(e))[1]
    BY <2>3, <2>4 DEF Hears
  <2>6. First(Peer(e), m) /\ ConfigOK /\ Peer(e) \in Endpoint
    BY <2>5, ScriptIs, PeerIs DEF ChannelInv, EndsOK
  <2>7. m.ty \in {"Auth", "AuthOk", "AuthFail"}
    BY <2>6, FirstIs, AuthMessageIs DEF Endpoint
  <2> QED BY <2>2, <2>7
<1> QED BY <1>1, <1>2, <1>3, <1>4 DEF Turn, Said

\* What an end writes is the next message of its script.
LEMMA SaysScript ==
    ASSUME ChannelInv, Conv, NEW e \in Endpoint, NEW n, NEW bytes, NEW in, NEW out,
           Mech(e, n, bytes, in, out), Turn(e, n, in, out), NEW m \in Message, out = <<m>>
    PROVE  m \in Script(e)[Len(ends[e].sent) + 1]
<1> DEFINE o == ends[e]
           i == Len(o.sent) + 1
<1>1. ConfigOK /\ o \in End /\ PhaseOK(e, o)
  BY DEF ChannelInv, EndsOK, LocalOK, Conv
<1>2. o.sent \in Seq(Message)
  BY <1>1, EndIs
<1>3. i \in Nat /\ out # <<>>
  BY <1>2
<1>4. /\ in = <<>> \/ \E w \in Message : in = <<w>> /\ Hears(e, w)
      /\ Said(e, n, in, out)
  BY TurnIs
<1>5. CASE SendAuth(e, n, in, out)
  <2>1. e = "Client" /\ o.pc = "Connected" /\ m = AuthMessage
    BY <1>5 DEF SendAuth
  <2>2. i = 1
    BY <1>1, <2>1 DEF PhaseOK
  <2> QED BY <1>3, <2>1, <2>2, ScriptIs DEF First
<1>6. CASE Answer(e, n, in, out)
  <2>1. e = "Server" /\ o.pc = "AuthDrain"
    BY <1>6 DEF Answer
  <2>2. Len(o.sent) = 0 /\ Len(o.popped) = 0
    BY <1>1, <2>1 DEF PhaseOK
  <2>3. i = 1
    BY <2>2
  <2>4. PICK w \in Message :
            LET verdict == verify_auth_payload(AuthPayload_decode(w.payload).value)
            IN  /\ in = <<w>>
                /\ \/ verdict = "Accepted" /\ out = <<AuthOkMessage>>
                   \/ verdict # "Accepted" /\ out = <<AuthFailMessage(verdict)>>
    BY <1>6 DEF Answer
  <2>5. Hears(e, w)
    BY <1>4, <2>4
  <2>6. w \in Script("Client")[1]
    BY <2>1, <2>2, <2>5 DEF Hears, Peer
  <2>7. w = AuthMessage
    BY <2>6, ScriptIs DEF First
  <2> DEFINE v == verify_auth_payload(AuthPayload_decode(w.payload).value)
  <2>8. CASE v = "Accepted"
    <3>1. m = AuthOkMessage /\ Accepted
      BY <2>4, <2>7, <2>8 DEF Accepted
    <3> QED BY <1>3, <2>1, <2>3, <3>1, ScriptIs DEF First
  <2>9. CASE v # "Accepted"
    <3>1. v \in Refusals
      BY <2>9, VerdictIs DEF Refusals
    <3>2. m = AuthFailMessage(v)
      BY <2>4, <2>9
    <3> HIDE DEF v
    <3>3. First(e, m)
      BY <2>1, <3>1, <3>2 DEF First
    <3> QED BY <1>3, <2>3, <3>3, ScriptIs
  <2> QED BY <2>8, <2>9
<1>7. CASE Chat(e, n, in, out)
  <2>1. o.pc \in SessionPc /\ \E w \in Message : out = <<w>> /\ SessionMessage(e, w)
    BY <1>3, <1>7 DEF Chat
  <2>2. SessionMessage(e, m)
    BY <2>1
  <2>3. Len(o.sent) >= 1 /\ Accepted /\ Len(o.sent) \in Nat
    BY <1>1, <1>2, <2>1 DEF PhaseOK
  <2>4. i # 1
    BY <2>3
  <2> QED BY <1>3, <2>2, <2>3, <2>4, ScriptIs
<1> QED BY <1>3, <1>4, <1>5, <1>6, <1>7 DEF Said, Idle, Leave, Learn

LEMMA SentStays ==
    ASSUME ChannelInv, Conv, NEW e \in Endpoint, NEW n, NEW bytes, NEW in, NEW out,
           Mech(e, n, bytes, in, out), Turn(e, n, in, out)
    PROVE  SentOK(e, n) /\ IsPrefixOf(ends[e].sent, n.sent)
<1> DEFINE s == ends[e].sent
<1>1. s \in Seq(Message) /\ SentOK(e, ends[e])
  BY EndIs DEF ChannelInv, EndsOK, LocalOK, Conv
<1>2. CASE n.sent = s
  BY <1>1, <1>2 DEF SentOK, IsPrefixOf
<1>3. CASE \E m \in Message : out = <<m>> /\ n.sent = Append(s, m)
  <2>1. PICK m \in Message : out = <<m>> /\ n.sent = Append(s, m)
    BY <1>3
  <2>2. m \in Script(e)[Len(s) + 1]
    BY <2>1, SaysScript
  <2>3. /\ Len(n.sent) = Len(s) + 1 /\ n.sent[Len(s) + 1] = m /\ Len(s) \in Nat
        /\ \A i \in 1..Len(s) : n.sent[i] = s[i]
    BY <1>1, <2>1, AppendIs
  <2>4. \A i \in 1..Len(s) : s[i] \in Script(e)[i]
    BY <1>1 DEF SentOK
  <2> HIDE DEF s
  <2>5. ASSUME NEW i \in 1..Len(n.sent) PROVE n.sent[i] \in Script(e)[i]
    <3>1. i \in 1..Len(s) \/ i = Len(s) + 1
      BY <2>3
    <3> QED BY <2>2, <2>3, <2>4, <3>1
  <2>6. IsPrefixOf(s, n.sent)
    BY <2>3 DEF IsPrefixOf
  <2> QED BY <2>5, <2>6 DEF SentOK, s
<1> QED BY <1>2, <1>3 DEF Mech, Outgoing

LEMMA PhaseStays ==
    ASSUME ChannelInv, Conv, NEW e \in Endpoint, NEW n, NEW bytes, NEW in, NEW out,
           Mech(e, n, bytes, in, out), Turn(e, n, in, out), Calm(e, n)
    PROVE  PhaseOK(e, n)
<1> DEFINE o == ends[e]
<1>1. ConfigOK /\ o \in End /\ n \in End /\ PhaseOK(e, o) /\ Calm(e, o)
  BY DEF ChannelInv, EndsOK, LocalOK, Conv, Mech
<1>2. /\ o.sent \in Seq(Message) /\ o.popped \in Seq(Message) /\ Len(o.sent) \in Nat
      /\ Len(o.popped) \in Nat
  BY <1>1, EndIs
<1>3. /\ in = <<>> \/ \E w \in Message : in = <<w>> /\ Hears(e, w)
      /\ Said(e, n, in, out)
  BY TurnIs
<1>4. n.pc # "Foreign"
  BY TurnPc
<1>5. n.result \notin {"Frame", "Violation", "AuthProtocolError"}
  <2>1. n.pc # "Done" => n.result = "None"
    BY DEF Calm
  <2>2. n.pc = "Done" => n.result \in Benign
    BY <1>3 DEF Said, Idle, Leave, SendAuth, Answer, Learn, Chat
  <2> QED BY <2>1, <2>2 DEF Benign
<1>6. /\ in = <<>> => n.popped = o.popped
      /\ in # <<>> => Len(n.popped) = Len(o.popped) + 1
  <2>1. in = <<>> => n.popped = o.popped
    BY DEF Mech, Incoming
  <2>2. in # <<>> => \E w \in Message : n.popped = Append(o.popped, w)
    BY DEF Mech, Incoming
  <2> QED BY <1>2, <2>1, <2>2, AppendIs
<1>7. /\ out = <<>> => n.sent = o.sent
      /\ out # <<>> /\ n.pc # "Done" => Len(n.sent) = Len(o.sent) + 1
      /\ Len(n.sent) >= Len(o.sent)
  <2>1. out = <<>> => n.sent = o.sent
    BY DEF Mech, Outgoing
  <2>2. out # <<>> /\ n.pc # "Done" => \E w \in Message : n.sent = Append(o.sent, w)
    BY DEF Mech, Outgoing
  <2>3. n.sent = o.sent \/ \E w \in Message : n.sent = Append(o.sent, w)
    BY DEF Mech, Outgoing
  <2>4. \A w \in Message : Len(Append(o.sent, w)) = Len(o.sent) + 1
    BY <1>2, AppendIs
  <2> QED BY <1>2, <2>1, <2>2, <2>3, <2>4
<1>8. CASE Idle(e, n, in, out)
  <2>1. n.popped = o.popped /\ n.sent = o.sent /\ n.authenticated = o.authenticated
    BY <1>6, <1>7, <1>8 DEF Idle
  <2>2. CASE o.pc \in {"Peek", "Tls"} /\ n.pc \in {"Peek", "Tls", "AuthRead"}
    <3>1. e # "Client" /\ n.sent = <<>> /\ n.popped = <<>>
      BY <1>1, <2>1, <2>2 DEF Calm, PhaseOK
    <3> QED BY <1>4, <1>5, <2>2, <3>1 DEF PhaseOK, SessionPc
  <2>3. CASE o.pc = "AuthDrain" /\ n.pc = "AuthRead"
    BY <1>1, <1>4, <1>5, <2>1, <2>3 DEF PhaseOK, SessionPc
  <2>4. CASE o.pc = "Drain" /\ n.pc = "Read"
    BY <1>1, <1>4, <1>5, <2>1, <2>4 DEF PhaseOK, SessionPc
  <2> QED BY <1>8, <2>2, <2>3, <2>4 DEF Idle
<1>9. CASE Leave(e, n, in, out)
  <2>1. n.pc = "Done" /\ n.sent = o.sent /\ n.authenticated = o.authenticated
    BY <1>7, <1>9 DEF Leave
  <2> QED BY <1>1, <1>4, <1>5, <2>1 DEF PhaseOK, SessionPc
<1>10. CASE SendAuth(e, n, in, out)
  <2>1. /\ e = "Client" /\ o.pc = "Connected" /\ n.pc \in {"AuthRead", "Done"}
        /\ in = <<>> /\ out # <<>> /\ n.authenticated = o.authenticated
    BY <1>10 DEF SendAuth
  <2>2. o.sent = <<>> /\ o.popped = <<>>
    BY <1>1, <2>1 DEF PhaseOK
  <2>3. n.popped = <<>> /\ (n.pc # "Done" => Len(n.sent) = 1)
    BY <1>6, <1>7, <2>1, <2>2
  <2>4. ~(Len(o.sent) >= 1)
    BY <2>2
  <2>5. ~n.authenticated
    BY <1>1, <2>1, <2>4 DEF PhaseOK
  <2> QED BY <1>4, <1>5, <2>1, <2>3, <2>5 DEF PhaseOK, SessionPc
<1>11. CASE Answer(e, n, in, out)
  <2>1. PICK m \in Message :
        /\ in = <<m>>
        /\ n.pc \in SessionPc \cup {"Done"}
        /\ out = <<AuthOkMessage>> \/ \E x : out = <<AuthFailMessage(x)>>
    BY <1>11, Zenon DEF Answer
  <2>2. /\ e = "Server" /\ o.pc = "AuthDrain" /\ n.pc \in SessionPc \cup {"Done"}
        /\ in # <<>> /\ out # <<>>
    <3>1. e = "Server" /\ o.pc = "AuthDrain"
      BY <1>11, Zenon DEF Answer
    <3>2. in # <<>> /\ out # <<>>
      BY <2>1
    <3> QED BY <2>1, <3>1, <3>2
  <2>3. Len(n.popped) >= 1 /\ (n.pc # "Done" => Len(n.sent) >= 1)
    BY <1>2, <1>6, <1>7, <2>2
  <2>4. n.pc \in SessionPc => Accepted
    <3>1. SUFFICES ASSUME n.pc \in SessionPc PROVE Accepted
      OBVIOUS
    <3>2. out = <<AuthOkMessage>>
      BY <1>11, <3>1 DEF Answer, SessionPc
    <3>3. AuthOkMessage \in Script("Server")[Len(o.sent) + 1]
      BY <2>2, <3>2, AnswersAre, SaysScript
    <3>4. Len(o.sent) = 0
      BY <1>1, <2>2 DEF PhaseOK
    <3>5. First("Server", AuthOkMessage) /\ "Server" \in Endpoint /\ AuthOkMessage.ty = "AuthOk"
      BY <3>3, <3>4, ScriptIs DEF Endpoint, AuthOkMessage
    <3> QED BY <1>1, <3>5, FirstIs
  <2> QED BY <1>4, <1>5, <2>2, <2>3, <2>4 DEF PhaseOK, SessionPc
<1>12. CASE Learn(e, n, in, out)
  <2>1. /\ e = "Client" /\ o.pc = "AuthDrain" /\ in # <<>> /\ out = <<>>
    BY <1>12 DEF Learn
  <2>2. PICK m \in Message :
        /\ in = <<m>>
        /\ \/ m.ty = "AuthOk" /\ n.pc \in SessionPc
           \/ m.ty = "AuthFail" /\ n.pc = "Done" /\ n.authenticated = o.authenticated
    BY <1>12 DEF Learn
  <2>3. Hears(e, m)
    BY <1>3, <2>2
  <2>4. Len(o.popped) = 0 /\ Len(o.sent) = 1
    BY <1>1, <2>1 DEF PhaseOK
  <2>5. m \in Script("Server")[1]
    BY <2>1, <2>3, <2>4 DEF Hears, Peer
  <2>6. First("Server", m) /\ "Server" \in Endpoint
    BY <2>5, ScriptIs DEF Endpoint
  <2>7. m.ty = "AuthOk" => Accepted
    BY <1>1, <2>6, FirstIs
  <2>8. Len(n.popped) >= 1 /\ Len(n.sent) >= 1
    BY <1>6, <1>7, <2>1, <2>4
  <2>9. CASE m.ty = "AuthOk" /\ n.pc \in SessionPc
    BY <1>4, <1>5, <2>7, <2>8, <2>9 DEF PhaseOK, SessionPc
  <2>10. CASE n.pc = "Done" /\ n.authenticated = o.authenticated
    BY <1>1, <1>4, <1>5, <2>8, <2>10 DEF PhaseOK, SessionPc
  <2> QED BY <2>2, <2>9, <2>10
<1>13. CASE Chat(e, n, in, out)
  <2>1. o.pc \in SessionPc /\ n.pc \in SessionPc \cup {"Done"}
    BY <1>13 DEF Chat
  <2>2. Len(o.sent) >= 1 /\ Len(o.popped) >= 1 /\ Accepted
    BY <1>1, <2>1 DEF PhaseOK
  <2>3. Len(n.sent) >= 1
    <3>1. Len(n.sent) \in Nat
      BY <1>1, EndIs
    <3> QED BY <1>2, <1>7, <2>2, <3>1
  <2>4. Len(n.popped) >= 1
    BY <1>2, <1>6, <2>2
  <2> QED BY <1>4, <1>5, <2>1, <2>2, <2>3, <2>4 DEF PhaseOK, SessionPc
<1> QED BY <1>3, <1>8, <1>9, <1>10, <1>11, <1>12, <1>13 DEF Said

\* Link, for what the two ends are after a step.
LinkOf(e, s, open, o, str) ==
    /\ IsPrefixOf(o.popped, s)
    /\ o.pc # "Done" => FlowOf(Script(e), s, open, Len(o.popped), o.read_buf, str)

LEMMA LinkIs ==
    ASSUME NEW e
    PROVE  Link(e) <=> LinkOf(e, ends[e].sent, ends[e].pc # "Done" /\ ~broken,
                              ends[Peer(e)], stream[Peer(e)])
BY DEF Link, LinkOf

\* All that a step has to establish.
LEMMA ConvFrom ==
    ASSUME UNCHANGED config,
           \A e \in Endpoint :
                /\ PhaseOK(e, ends'[e]) /\ SentOK(e, ends'[e])
                /\ LinkOf(e, ends'[e].sent, ends'[e].pc # "Done" /\ ~broken',
                          ends'[Peer(e)], stream'[Peer(e)])
    PROVE  Conv'
<1>1. Accepted' <=> Accepted
  BY DEF Accepted, AuthMessage, verify_auth_payload
<1>2. ASSUME NEW CONSTANT e \in Endpoint
      PROVE  (PhaseOK(e, ends[e]) /\ SentOK(e, ends[e]) /\ Link(e))'
  <2>1. Script(e)' = Script(e)
    BY ScriptStays
  <2>2. PhaseOK(e, ends[e])'
    BY <1>1 DEF PhaseOK
  <2>3. SentOK(e, ends[e])'
    BY <2>1 DEF SentOK
  <2>4. Link(e)'
    BY <2>1 DEF Link, LinkOf, Peer
  <2> QED BY <2>2, <2>3, <2>4
<1> QED BY <1>2 DEF Conv

LEMMA PrefixOfPrefix ==
    ASSUME NEW s \in Seq(Message), NEW t \in Seq(Message), NEW u \in Seq(Message),
           IsPrefixOf(s, t), IsPrefixOf(t, u)
    PROVE  IsPrefixOf(s, u)
<1>1. Len(s) \in Nat /\ Len(t) \in Nat /\ Len(u) \in Nat /\ Len(s) <= Len(t) /\ Len(t) <= Len(u)
  BY DEF IsPrefixOf
<1>2. \A i \in 1..Len(s) : i \in 1..Len(t)
  BY <1>1
<1> QED BY <1>1, <1>2 DEF IsPrefixOf

LEMMA PrefixTakesNext ==
    ASSUME NEW s \in Seq(Message), NEW t \in Seq(Message), IsPrefixOf(s, t), NEW m \in Message,
           Len(s) + 1 \in 1..Len(t), m = t[Len(s) + 1]
    PROVE  IsPrefixOf(Append(s, m), t)
<1> DEFINE q == Append(s, m)
<1>1. /\ Len(q) = Len(s) + 1 /\ q[Len(s) + 1] = m /\ Len(s) \in Nat
      /\ \A i \in 1..Len(s) : q[i] = s[i]
  BY AppendIs
<1>2. \A i \in 1..Len(s) : t[i] = s[i]
  BY DEF IsPrefixOf
<1> HIDE DEF q
<1>3. ASSUME NEW i \in 1..Len(q) PROVE t[i] = q[i]
  <2>1. i \in 1..Len(s) \/ i = Len(s) + 1
    BY <1>1
  <2> QED BY <1>1, <1>2, <2>1
<1>4. Len(q) <= Len(t)
  BY <1>1
<1> QED BY <1>3, <1>4 DEF IsPrefixOf, q

\* The direction in which an end writes.
LEMMA LinkOut ==
    ASSUME ChannelInv, Conv, NEW e \in Endpoint, NEW n, NEW bytes, NEW in, NEW out,
           Step(e, n, bytes), Mech(e, n, bytes, in, out), Turn(e, n, in, out)
    PROVE  LinkOf(e, n.sent, n.pc # "Done" /\ ~broken, ends[Peer(e)], stream'[Peer(e)])
<1> DEFINE p == Peer(e)
           S == Script(e)
           s == ends[e].sent
           o == ends[p]
           k == Len(o.popped)
           buf == o.read_buf
           str == stream[p]
           new == stream'[p]
           open == ends[e].pc # "Done" /\ ~broken
           now == n.pc # "Done" /\ ~broken
<1>1. p \in Endpoint /\ StateOK /\ ends[e] \in End /\ o \in End /\ n \in End /\ bytes \in Seq(Byte)
  BY PeerIs DEF ChannelInv, StateOK, Mech
<1>2. s \in Seq(Message) /\ o.popped \in Seq(Message) /\ buf \in Seq(Byte) /\ str \in Seq(Byte)
      /\ n.sent \in Seq(Message)
  BY <1>1, EndIs DEF StateOK
<1>3. IsPrefixOf(s, n.sent)
  BY SentStays
<1>4. IsPrefixOf(o.popped, s) /\ (o.pc # "Done" => FlowOf(S, s, open, k, buf, str))
  BY DEF Conv, Link
<1>5. IsPrefixOf(o.popped, n.sent)
  BY <1>2, <1>3, <1>4, PrefixOfPrefix
<1>6. o.pc # "Foreign" /\ ends[e].pc # "Done"
  BY <1>1, TurnPc DEF Conv, PhaseOK
<1>7. o.pc # "Done" => new = str \o bytes
  BY <1>1, <1>6, StepIs
<1>8. now \in BOOLEAN /\ open \in BOOLEAN /\ (now => open) /\ (open <=> ~broken)
  BY <1>6
<1>9. \A m \in Message : out = <<m>> => m \in S[Len(s) + 1]
  BY SaysScript
<1>10. \/ out = <<>> /\ bytes = <<>> /\ n.sent = s
       \/ \E m \in Message :
            out = <<m>> /\ bytes = encode_frame(m) /\ ~broken /\ n.sent = Append(s, m)
       \/ \E m \in Message :
            /\ out = <<m>> /\ n.pc = "Done" /\ n.sent = s
            /\ \E j \in Nat : /\ j < Len(encode_frame(m)) /\ (broken => j = 0)
                              /\ bytes = SubSeq(encode_frame(m), 1, j)
  BY DEF Mech, Outgoing
<1>11. n.pc = "Done" => now = FALSE
  OBVIOUS
<1>12. ASSUME o.pc # "Done" PROVE FlowOf(S, n.sent, now, k, buf, new)
  <2> HIDE DEF p, S, s, o, k, buf, str, new, open, now
  <2>1. FlowOf(S, s, open, k, buf, str) /\ new = str \o bytes
    BY <1>4, <1>7, <1>12
  <2>2. CASE bytes = <<>> /\ n.sent = s
    <3>1. new = str
      BY <1>2, <2>1, <2>2, JoinNothing
    <3> QED BY <1>8, <2>1, <2>2, <3>1, FlowWeakens
  <2>3. CASE \E m \in Message :
            out = <<m>> /\ bytes = encode_frame(m) /\ ~broken /\ n.sent = Append(s, m)
    <3>1. PICK m \in Message :
            out = <<m>> /\ bytes = encode_frame(m) /\ ~broken /\ n.sent = Append(s, m)
      BY <2>3
    <3>2. FlowOf(S, s, TRUE, k, buf, str)
      BY <1>8, <2>1, <3>1, FlowWeakens
    <3>3. m \in S[Len(s) + 1] /\ bytes \o <<>> = encode_frame(m) /\ <<>> \in Seq(Byte)
      BY <1>1, <1>9, <3>1, JoinNothing
    <3>4. \A b \in BOOLEAN : FlowOf(S, Append(s, m), b, k, buf, str \o bytes)
      BY <1>1, <1>2, <3>2, <3>3, FlowGrows
    <3> QED BY <1>8, <2>1, <3>1, <3>4
  <2>4. CASE \E m \in Message :
            /\ out = <<m>> /\ n.pc = "Done" /\ n.sent = s
            /\ \E j \in Nat : /\ j < Len(encode_frame(m)) /\ (broken => j = 0)
                              /\ bytes = SubSeq(encode_frame(m), 1, j)
    <3>1. PICK m \in Message, j \in Nat :
            /\ out = <<m>> /\ n.pc = "Done" /\ n.sent = s
            /\ j < Len(encode_frame(m)) /\ (broken => j = 0)
            /\ bytes = SubSeq(encode_frame(m), 1, j)
      BY <2>4
    <3> DEFINE f == encode_frame(m)
               lost == SubSeq(f, j + 1, Len(f))
    <3>2. f \in Seq(Byte) /\ Len(f) \in Nat
      BY EncodeIs
    <3>3. CASE j = 0
      <4>1. bytes = <<>>
        BY <3>1, <3>2, <3>3
      <4> QED BY <2>2, <3>1, <4>1
    <3>4. CASE j # 0
      <4>1. ~broken
        BY <3>1, <3>4
      <4> HIDE DEF f
      <4>2. lost \in Seq(Byte) /\ Len(lost) = Len(f) - j
        BY <3>1, <3>2 DEF f
      <4>3. bytes \o lost = f
        <5> DEFINE r == Len(f) - j
        <5>1. bytes = Slice(f, 0, j) /\ lost = Slice(f, j, r)
          BY <3>1, <3>2 DEF Slice, f
        <5>2. r \in Nat /\ j + r = Len(f) /\ 0 + j <= Len(f) /\ j + r <= Len(f) /\ 0 \in Nat
          BY <3>1, <3>2 DEF f
        <5> HIDE DEF r, lost
        <5>3. Slice(f, 0, j) \o Slice(f, j, r) = Slice(f, 0, j + r)
          BY <3>2, <5>2, PrefixGrows
        <5>4. Slice(f, 0, Len(f)) = f
          BY <3>2, SliceAll
        <5> QED BY <5>1, <5>2, <5>3, <5>4
      <4>4. Len(f) - j > 0
        BY <3>1, <3>2 DEF f
      <4> HIDE DEF lost
      <4>5. lost # <<>>
        BY <4>2, <4>4
      <4>6. FlowOf(S, s, TRUE, k, buf, str)
        BY <1>8, <2>1, <4>1, FlowWeakens
      <4>7. m \in S[Len(s) + 1]
        BY <1>9, <3>1
      <4>8. FlowOf(S, s, FALSE, k, buf, str \o bytes)
        BY <1>1, <1>2, <4>2, <4>3, <4>5, <4>6, <4>7, FlowGrows DEF f
      <4> QED BY <1>11, <2>1, <3>1, <4>8
    <3> QED BY <3>3, <3>4
  <2> QED BY <1>10, <2>2, <2>3, <2>4
<1> QED BY <1>5, <1>12 DEF LinkOf

\* The direction from which it reads.
LEMMA LinkIn ==
    ASSUME ChannelInv, Conv, NEW e \in Endpoint, NEW n, NEW bytes, NEW in, NEW out,
           Step(e, n, bytes), Mech(e, n, bytes, in, out), Turn(e, n, in, out)
    PROVE  LinkOf(Peer(e), ends[Peer(e)].sent, ends[Peer(e)].pc # "Done" /\ ~broken,
                  n, stream'[e])
<1> DEFINE p == Peer(e)
           o == ends[e]
           s == ends[p].sent
           open == ends[p].pc # "Done" /\ ~broken
<1>1. p \in Endpoint /\ Peer(p) = e /\ StateOK /\ o \in End /\ ends[p] \in End /\ n \in End
      /\ bytes \in Seq(Byte)
  BY PeerIs DEF ChannelInv, StateOK, Mech
<1>2. s \in Seq(Message) /\ o.popped \in Seq(Message)
  BY <1>1, EndIs
<1>3. stream'[e] = stream[e]
  BY <1>1, StepIs
<1>4. LinkOf(p, s, open, o, stream[e])
  BY <1>1, LinkIs DEF Conv
<1>5. o.pc # "Done"
  BY TurnPc
<1> HIDE DEF open
<1>6. CASE in = <<>>
  <2>1. n.popped = o.popped /\ (n.read_buf = o.read_buf \/ n.pc = "Done")
    BY <1>6 DEF Mech, Incoming
  <2>2. LinkOf(p, s, open, n, stream'[e])
    BY <1>3, <1>4, <1>5, <2>1 DEF LinkOf
  <2> QED BY <2>2 DEF open
<1>7. ASSUME NEW m \in Message, in = <<m>>
      PROVE  LinkOf(p, s, open, n, stream'[e])
  <2>1. Hears(e, m)
    <3>1. PICK w \in Message : in = <<w>> /\ Hears(e, w)
      BY <1>7, TurnIs
    <3> QED BY <1>7, <3>1
  <2> DEFINE i == Len(o.popped) + 1
  <2>2. /\ i \in 1..Len(s) /\ m = s[i]
        /\ FlowOf(Script(p), s, open, i, Popped(e).rest, stream[e])
    BY <2>1 DEF Hears, open
  <2>3. n.popped = Append(o.popped, m) /\ (n.read_buf = Popped(e).rest \/ n.pc = "Done")
    BY <1>7 DEF Mech, Incoming
  <2>4. Len(n.popped) = i
    BY <1>2, <2>3, AppendIs
  <2>5. IsPrefixOf(o.popped, s)
    BY <1>4 DEF LinkOf
  <2>6. IsPrefixOf(n.popped, s)
    BY <1>2, <2>2, <2>3, <2>5, PrefixTakesNext
  <2> HIDE DEF i
  <2> QED BY <1>3, <2>2, <2>3, <2>4, <2>6 DEF LinkOf
<1>8. in = <<>> \/ \E m \in Message : in = <<m>>
  BY DEF Mech, Incoming
<1> QED BY <1>6, <1>7, <1>8 DEF open

LEMMA ConvMoves ==
    ASSUME ChannelInv, Conv, NEW e \in Endpoint, EndMoves(e), UNCHANGED <<broken, config>>
    PROVE  Conv'
<1> DEFINE p == Peer(e)
<1>1. PICK n, bytes, in, out : /\ Step(e, n, bytes) /\ Mech(e, n, bytes, in, out)
                               /\ Turn(e, n, in, out) /\ Calm(e, n)
  BY DEF EndMoves
<1>2. /\ p \in Endpoint /\ Peer(p) = e /\ StateOK /\ n \in End /\ bytes \in Seq(Byte)
      /\ \A f \in Endpoint : f = e \/ f = p
  BY <1>1, PeerIs DEF ChannelInv, Mech
<1>3. ends'[e] = n /\ ends'[p] = ends[p]
  BY <1>1, <1>2, StepIs
<1>4. PhaseOK(e, n) /\ SentOK(e, n) /\ PhaseOK(p, ends[p]) /\ SentOK(p, ends[p])
  BY <1>1, <1>2, PhaseStays, SentStays DEF Conv
<1>5. LinkOf(e, n.sent, n.pc # "Done" /\ ~broken, ends[p], stream'[p])
  BY <1>1, LinkOut
<1>6. LinkOf(p, ends[p].sent, ends[p].pc # "Done" /\ ~broken, n, stream'[e])
  BY <1>1, LinkIn
<1> HIDE DEF p
<1>7. p = Peer(e)
  BY DEF p
<1>8. ASSUME NEW f \in Endpoint
      PROVE  /\ PhaseOK(f, ends'[f]) /\ SentOK(f, ends'[f])
             /\ LinkOf(f, ends'[f].sent, ends'[f].pc # "Done" /\ ~broken',
                       ends'[Peer(f)], stream'[Peer(f)])
  <2>1. CASE f = e
    BY <1>3, <1>4, <1>5, <1>7, <2>1
  <2>2. CASE f = p
    BY <1>2, <1>3, <1>4, <1>6, <2>2
  <2> QED BY <1>2, <2>1, <2>2
<1> QED BY <1>8, ConvFrom

LEMMA ConvReads ==
    ASSUME ChannelInv, Conv, NEW e \in Endpoint, read_more(e)
    PROVE  Conv'
<1> DEFINE p == Peer(e)
           n == ends'[e]
           o == ends[e]
<1>1. StateOK /\ UNCHANGED <<broken, config>>
  BY DEF ChannelInv, read_more
<1>2. /\ p \in Endpoint /\ Peer(p) = e /\ \A f \in Endpoint : f = e \/ f = p
  BY PeerIs
<1>3. PICK x \in Seq(Byte), y \in Seq(Byte) :
        /\ x \o y = stream[e] /\ ends'[p] = ends[p] /\ stream'[p] = stream[p]
        /\ n.read_buf = o.read_buf \o x /\ stream'[e] = y
        /\ \/ o.pc = "Read" /\ n.pc = "Drain"
           \/ o.pc = "AuthRead" /\ n.pc = "AuthDrain"
        /\ n.result = o.result /\ n.authenticated = o.authenticated
        /\ n.sent = o.sent /\ n.popped = o.popped
  BY <1>1, ReadIs
<1>4. o \in End /\ o.read_buf \in Seq(Byte)
  BY <1>1, EndIs DEF StateOK
<1>5. PhaseOK(e, o) /\ SentOK(e, o) /\ PhaseOK(p, ends[p]) /\ SentOK(p, ends[p])
  BY <1>2 DEF Conv
<1>6. LinkOf(e, o.sent, o.pc # "Done" /\ ~broken, ends[p], stream[p])
  BY LinkIs DEF Conv
<1>7. LinkOf(p, ends[p].sent, ends[p].pc # "Done" /\ ~broken, o, stream[e])
  BY <1>2, LinkIs DEF Conv
<1> HIDE DEF p, n, o
<1>8. n.pc # "Done" /\ o.pc # "Done"
  BY <1>3
<1>9. PhaseOK(e, n) /\ SentOK(e, n)
  BY <1>3, <1>5 DEF PhaseOK, SentOK, SessionPc
<1>10. LinkOf(e, n.sent, n.pc # "Done" /\ ~broken, ends[p], stream[p])
  BY <1>3, <1>6, <1>8
<1>11. LinkOf(p, ends[p].sent, ends[p].pc # "Done" /\ ~broken, n, y)
  <2> DEFINE S == Script(p)
             s == ends[p].sent
             open == ends[p].pc # "Done" /\ ~broken
             k == Len(o.popped)
             str == stream[e]
  <2> HIDE DEF S, s, open, k, str
  <2>1. IsPrefixOf(o.popped, s) /\ FlowOf(S, s, open, k, o.read_buf, str)
    BY <1>7, <1>8 DEF LinkOf, S, s, open, k, str
  <2>2. str = x \o y
    BY <1>3 DEF str
  <2>3. FlowOf(S, s, open, k, o.read_buf \o x, y)
    BY <1>4, <2>1, <2>2, FlowIsRead
  <2> QED BY <1>3, <2>1, <2>3 DEF LinkOf, S, s, open, k
<1>12. p = Peer(e)
  BY DEF p
<1>13. ASSUME NEW f \in Endpoint
       PROVE  /\ PhaseOK(f, ends'[f]) /\ SentOK(f, ends'[f])
              /\ LinkOf(f, ends'[f].sent, ends'[f].pc # "Done" /\ ~broken',
                        ends'[Peer(f)], stream'[Peer(f)])
  <2>1. CASE f = e
    BY <1>1, <1>3, <1>9, <1>10, <1>12, <2>1 DEF n
  <2>2. CASE f = p
    BY <1>1, <1>2, <1>3, <1>5, <1>11, <2>2 DEF n
  <2> QED BY <1>2, <2>1, <2>2
<1> QED BY <1>1, <1>13, ConvFrom

LEMMA ConvElsewhere ==
    ASSUME ChannelInv, Conv, Elsewhere
    PROVE  Conv'
<1>1. UNCHANGED <<ends, config>> /\ StateOK
  BY DEF Elsewhere, ChannelInv
<1>2. \A e \in Endpoint : ~ForeignWrites(e)
  BY DEF Conv, PhaseOK, ForeignWrites
<1>3. CASE UNCHANGED <<stream, broken>>
  <2>1. ASSUME NEW e \in Endpoint
        PROVE  /\ PhaseOK(e, ends'[e]) /\ SentOK(e, ends'[e])
               /\ LinkOf(e, ends'[e].sent, ends'[e].pc # "Done" /\ ~broken',
                         ends'[Peer(e)], stream'[Peer(e)])
    BY <1>1, <1>3, LinkIs DEF Conv
  <2> QED BY <1>1, <2>1, ConvFrom
<1>4. CASE NetworkFails
  <2>1. broken' = TRUE /\ stream' = [e \in Endpoint |-> <<>>]
    BY <1>4 DEF NetworkFails
  <2>2. ASSUME NEW e \in Endpoint
        PROVE  /\ PhaseOK(e, ends'[e]) /\ SentOK(e, ends'[e])
               /\ LinkOf(e, ends'[e].sent, ends'[e].pc # "Done" /\ ~broken',
                         ends'[Peer(e)], stream'[Peer(e)])
    <3> DEFINE p == Peer(e)
               S == Script(e)
               s == ends[e].sent
               open == ends[e].pc # "Done" /\ ~broken
               o == ends[p]
               now == ends'[e].pc # "Done" /\ ~broken'
    <3>1. p \in Endpoint /\ stream'[p] = <<>> /\ o \in End /\ stream[p] \in Seq(Byte)
      BY <1>1, <2>1, PeerIs DEF StateOK
    <3>2. now = FALSE
      BY <2>1
    <3>3. LinkOf(e, s, open, o, stream[p])
      BY LinkIs DEF Conv
    <3>4. o.read_buf \in Seq(Byte)
      BY <3>1, EndIs
    <3> HIDE DEF S, open, now
    <3>5. o.pc # "Done" => FlowOf(S, s, FALSE, Len(o.popped), o.read_buf, <<>>)
      BY <3>1, <3>3, <3>4, FlowIsLost DEF LinkOf, S
    <3>6. LinkOf(e, s, now, o, <<>>)
      BY <3>2, <3>3, <3>5 DEF LinkOf, S
    <3> QED BY <1>1, <3>1, <3>6 DEF Conv, now
  <2> QED BY <1>1, <2>2, ConvFrom
<1> QED BY <1>2, <1>3, <1>4 DEF Elsewhere

\* Two ends that run this code keep to the script.
ConvInv == ChannelInv /\ (BothRun => Conv)

LEMMA ConvInit ==
    ASSUME Init
    PROVE  ConvInv
<1>1. ChannelInv
  BY ChannelInit
<1>2. ASSUME BothRun PROVE Conv
  <2>1. PICK c \in Pc, d \in Pc :
            /\ ends = NewEnds(c, d) /\ c \in {"Connected", "Foreign"} /\ d \in {"Peek", "Foreign"}
    BY DEF Init, Pc
  <2>2. stream = [e \in Endpoint |-> <<>>]
    BY DEF Init
  <2>3. ASSUME NEW e \in Endpoint
        PROVE  /\ ends[e].pc \in {"Connected", "Peek", "Foreign"} /\ ends[e].read_buf = <<>>
               /\ ends[e].result = "None" /\ ends[e].authenticated = FALSE
               /\ ends[e].sent = <<>> /\ ends[e].popped = <<>>
    <3> DEFINE pc == IF e = "Client" THEN c ELSE d
    <3>1. ends[e] = NewEnd(pc) /\ pc \in Pc /\ pc \in {"Connected", "Peek", "Foreign"}
      BY <2>1 DEF NewEnds
    <3> HIDE DEF pc
    <3> QED BY <3>1, NewEndIs
  <2>4. ASSUME NEW e \in Endpoint
        PROVE  PhaseOK(e, ends[e]) /\ SentOK(e, ends[e]) /\ Link(e)
    <3>1. ends[e].pc # "Foreign"
      BY <1>2 DEF BothRun, RunsCode
    <3>2. PhaseOK(e, ends[e])
      BY <2>3, <3>1 DEF PhaseOK, SessionPc
    <3>3. SentOK(e, ends[e])
      <4>1. ends[e].sent = <<>>
        BY <2>3
      <4>2. \A i \in 1..Len(<<>>) : FALSE
        OBVIOUS
      <4> QED BY <4>1, <4>2 DEF SentOK
    <3>4. Peer(e) \in Endpoint
      BY PeerIs
    <3> DEFINE p == Peer(e)
               open == ends[e].pc # "Done" /\ ~broken
    <3>5. /\ ends[e].sent = <<>> /\ ends[p].popped = <<>> /\ ends[p].read_buf = <<>>
          /\ stream[p] = <<>> /\ Len(<<>>) = 0
      BY <2>2, <2>3, <3>4
    <3> HIDE DEF open, p
    <3>6. FlowOf(Script(e), <<>>, open, 0, <<>>, <<>>)
      BY FlowStarts
    <3>7. IsPrefixOf(<<>>, <<>>)
      BY DEF IsPrefixOf
    <3>8. LinkOf(e, ends[e].sent, open, ends[p], stream[p])
      BY <3>5, <3>6, <3>7 DEF LinkOf
    <3>9. Link(e)
      BY <3>8, LinkIs DEF open, p
    <3> QED BY <3>2, <3>3, <3>9
  <2> QED BY <2>4 DEF Conv
<1> QED BY <1>1, <1>2 DEF ConvInv

LEMMA ConvNext ==
    ASSUME ConvInv, [Next]_vars
    PROVE  ConvInv'
<1>1. ChannelInv /\ EndsOK /\ StateOK
  BY DEF ConvInv, ChannelInv
<1>2. ChannelInv'
  BY <1>1, ChannelNext
<1>3. BothRun' => BothRun
  <2>1. ASSUME NEW e \in Endpoint, ends[e].pc = "Foreign" PROVE ends'[e].pc = "Foreign"
    <3>1. CASE UNCHANGED vars
      BY <2>1, <3>1 DEF vars
    <3>2. ASSUME NEW f \in Endpoint, EndMoves(f) PROVE ends'[e] = ends[e]
      <4>1. PICK n, bytes, in, out : /\ Step(f, n, bytes) /\ Mech(f, n, bytes, in, out)
                                     /\ Turn(f, n, in, out)
        BY <3>2 DEF EndMoves
      <4>2. e = Peer(f)
        BY <2>1, <4>1, TurnPc, PeerIs
      <4> QED BY <1>1, <4>1, <4>2, StepIs DEF Mech
    <3>3. ASSUME NEW f \in Endpoint, read_more(f) PROVE ends'[e] = ends[e]
      <4>1. e = Peer(f)
        BY <2>1, <3>3, PeerIs DEF read_more, Reading
      <4> QED BY <1>1, <3>3, <4>1, ReadIs
    <3>4. CASE Elsewhere
      BY <2>1, <3>4 DEF Elsewhere
    <3> QED BY <1>1, <2>1, <3>1, <3>2, <3>3, <3>4, NextIs
  <2> QED BY <2>1 DEF BothRun, RunsCode
<1>4. ASSUME Conv PROVE Conv'
  <2>1. CASE UNCHANGED vars
    <3>1. UNCHANGED <<config, ends, stream, broken>>
      BY <2>1 DEF vars
    <3>2. \A e \in Endpoint :
                /\ PhaseOK(e, ends'[e]) /\ SentOK(e, ends'[e])
                /\ LinkOf(e, ends'[e].sent, ends'[e].pc # "Done" /\ ~broken',
                          ends'[Peer(e)], stream'[Peer(e)])
      BY <1>4, <3>1, LinkIs DEF Conv
    <3> QED BY <3>1, <3>2, ConvFrom
  <2> QED BY <1>1, <1>4, <2>1, NextIs, ConvMoves, ConvReads, ConvElsewhere
<1> QED BY <1>2, <1>3, <1>4 DEF ConvInv

LEMMA ConvInvAgrees ==
    ASSUME ConvInv
    PROVE  EndsAgree
<1>1. ChannelInv /\ EndsOK /\ ConfigOK /\ "Client" \in Endpoint /\ "Server" \in Endpoint
  BY DEF ConvInv, ChannelInv, EndsOK, Endpoint
<1>2. SessionsAreAuthenticated
  <2>1. ends["Server"].authenticated =>
            \E i \in DOMAIN ends["Server"].popped : GoodAuth(ends["Server"].popped[i])
    BY <1>1 DEF EndsOK, LocalOK
  <2>2. ASSUME ends["Client"].authenticated, RunsCode("Server")
        PROVE  GoodAuth(ends["Client"].sent[1])
    <3>1. BothRun
      BY <1>1, <2>2 DEF EndsOK, LocalOK, BothRun, RunsCode, Endpoint
    <3>2. PhaseOK("Client", ends["Client"]) /\ SentOK("Client", ends["Client"])
      BY <1>1, <3>1 DEF ConvInv, Conv
    <3>3. Accepted /\ Len(ends["Client"].sent) >= 1
      BY <2>2, <3>2 DEF PhaseOK
    <3>4. Len(ends["Client"].sent) \in Nat
      BY <1>1, EndsOKIs, EndIs
    <3>5. ends["Client"].sent[1] \in Script("Client")[1]
      BY <3>2, <3>3, <3>4 DEF SentOK
    <3>6. ends["Client"].sent[1] = AuthMessage
      BY <3>5, ScriptIs DEF First
    <3> QED BY <1>1, <3>3, <3>6, AcceptedMtu
  <2> QED BY <2>1, <2>2 DEF SessionsAreAuthenticated
<1>3. EndsUnderstandEachOther
  BY DEF ConvInv, Conv, BothRun, PhaseOK, EndsUnderstandEachOther
<1>4. NoUnreachableArm
  BY <1>1, EndsOKIs DEF Calm, NoUnreachableArm
<1>5. PayloadsAreCanonical
  <2>1. ASSUME NEW e \in Endpoint, NEW i \in DOMAIN ends[e].popped
        PROVE  LET m == ends[e].popped[i]
               IN  decode_payload(m).ok => encode_payload(m.ty, decode_payload(m).value) = m.payload
    <3> DEFINE m == ends[e].popped[i]
    <3>1. ends[e].popped \in Seq(Message)
      BY <1>1, EndsOKIs, EndIs
    <3>2. m \in Message
      BY <3>1
    <3> HIDE DEF m
    <3>3. decode_payload(m).ok => encode_payload(m.ty, decode_payload(m).value) = m.payload
      BY <3>2, PayloadIsCanonical
    <3> QED BY <3>3 DEF m
  <2> QED BY <2>1 DEF PayloadsAreCanonical
<1> QED BY <1>2, <1>3, <1>4, <1>5 DEF EndsAgree

\* AuthHandler, handle_auth_message and handle_tcp_message, over any TLS stream: a
\* session starts only for an AUTH that a client of the allowlist signed for this
\* connection; two ends that run this code never refuse a frame or a message of each
\* other; no arm declared unreachable is reached; and what was decoded from a payload
\* encodes to that payload again.
THEOREM EndsStayAgreed == Spec => []EndsAgree
<1>1. Init => ConvInv
  BY ConvInit
<1>2. ConvInv /\ [Next]_vars => ConvInv'
  BY ConvNext
<1>3. ConvInv => EndsAgree
  BY ConvInvAgrees
<1> QED BY <1>1, <1>2, <1>3, PTL DEF Spec

------------------------------------------------------------------------------
(* The refinement                                                          *)

\* What MessagePipe sees of the two ends.
Written == [e \in Endpoint |-> ends[e].sent]
TakenOf == [e \in Endpoint |-> IF RunsCode(e) THEN ends[Peer(e)].popped ELSE <<>>]

LEMMA PutIs ==
    ASSUME ends \in [Endpoint -> End], NEW e \in Endpoint, NEW m \in Message,
           ends'[e].sent = Append(ends[e].sent, m),
           \A f \in Endpoint : f # e => ends'[f].sent = ends[f].sent
    PROVE  Pipe!Put(e)
<1> DEFINE W == Written
           X == Written'
<1>1. /\ W = [f \in Endpoint |-> ends[f].sent] /\ X = [f \in Endpoint |-> ends'[f].sent]
  BY DEF Written
<1>2. ends[e].sent \in Seq(Message)
  BY EndIs
<1> HIDE DEF W, X
<1>3. W[e] \in Seq(Message) /\ X[e] = Append(W[e], m) /\ \A f \in Endpoint \ {e} : X[f] = W[f]
  BY <1>1, <1>2
<1>4. Len(X[e]) = Len(W[e]) + 1 /\ X[e][Len(W[e]) + 1] = m
  BY <1>3, AppendIs
<1>5. X = [W EXCEPT ![e] = Append(W[e], X[e][Len(W[e]) + 1])]
  <2> DEFINE q == Append(W[e], m)
  <2> HIDE DEF q
  <2>1. X[e] = q /\ q = Append(W[e], X[e][Len(W[e]) + 1])
    BY <1>3, <1>4 DEF q
  <2>2. X = [W EXCEPT ![e] = q]
    BY <1>1, <1>3, <2>1
  <2> QED BY <2>1, <2>2
<1> QED BY <1>4, <1>5 DEF Pipe!Put, W, X, Written

LEMMA TakeIs ==
    ASSUME NEW e \in Endpoint, RunsCode(e), RunsCode(e)', ends \in [Endpoint -> End],
           Len(ends[Peer(e)].popped) + 1 \in 1..Len(ends[e].sent),
           ends'[Peer(e)].popped =
              Append(ends[Peer(e)].popped, ends[e].sent[Len(ends[Peer(e)].popped) + 1]),
           ends'[e].popped = ends[e].popped, RunsCode(Peer(e)), RunsCode(Peer(e))'
    PROVE  Pipe!Take(e)
<1> DEFINE T == TakenOf
           U == TakenOf'
           W == Written
           p == Peer(e)
<1>1. p \in Endpoint /\ Peer(p) = e /\ p # e /\ \A f \in Endpoint : f = e \/ f = p
  BY PeerIs
<1>2. /\ W = [f \in Endpoint |-> ends[f].sent]
      /\ T = [f \in Endpoint |-> IF RunsCode(f) THEN ends[Peer(f)].popped ELSE <<>>]
      /\ U = [f \in Endpoint |-> IF RunsCode(f)' THEN ends'[Peer(f)].popped ELSE <<>>]
  BY DEF Written, TakenOf, RunsCode, Peer
<1>3. /\ W[e] = ends[e].sent /\ T[e] = ends[p].popped /\ U[e] = ends'[p].popped
      /\ T[p] = ends[e].popped /\ U[p] = ends'[e].popped
  BY <1>1, <1>2
<1>4. Len(ends[p].popped) \in Nat
  BY <1>1, EndIs
<1> HIDE DEF W, T, U
<1>5. Len(T[e]) < Len(W[e])
  BY <1>3, <1>4
<1>6. U = [T EXCEPT ![e] = Append(T[e], W[e][Len(T[e]) + 1])]
  <2> DEFINE q == Append(T[e], W[e][Len(T[e]) + 1])
  <2>1. U[e] = q /\ U[p] = T[p]
    BY <1>3
  <2> HIDE DEF q
  <2>2. U = [T EXCEPT ![e] = q]
    BY <1>1, <1>2, <2>1
  <2> QED BY <2>2 DEF q
<1> QED BY <1>5, <1>6 DEF Pipe!Take, W, T, U, Written, TakenOf

LEMMA PipeStep ==
    ASSUME ConvInv, Next
    PROVE  Pipe!Next \/ UNCHANGED <<Written, TakenOf>>
<1>1. ChannelInv /\ EndsOK /\ StateOK
  BY DEF ConvInv, ChannelInv
<1>2. ASSUME UNCHANGED ends PROVE UNCHANGED <<Written, TakenOf>>
  BY <1>2 DEF Written, TakenOf, RunsCode, Peer
<1>3. ASSUME NEW e \in Endpoint, read_more(e) PROVE UNCHANGED <<Written, TakenOf>>
  <2>1. /\ ends'[e].sent = ends[e].sent /\ ends'[e].popped = ends[e].popped
        /\ ends'[e].pc # "Foreign" /\ ends[e].pc # "Foreign" /\ ends'[Peer(e)] = ends[Peer(e)]
    BY <1>1, <1>3, ReadIs
  <2>2. \A f \in Endpoint : ends'[f].sent = ends[f].sent /\ ends'[f].popped = ends[f].popped
                            /\ (RunsCode(f)' <=> RunsCode(f))
    BY <2>1, PeerIs DEF RunsCode
  <2>3. Written' = Written
    BY <2>2 DEF Written
  <2>4. TakenOf' = TakenOf
    BY <2>2, PeerIs DEF TakenOf, Peer
  <2> QED BY <2>3, <2>4
<1>4. ASSUME NEW e \in Endpoint, EndMoves(e)
      PROVE  Pipe!Next \/ UNCHANGED <<Written, TakenOf>>
  <2> DEFINE p == Peer(e)
             o == ends[e]
  <2>1. PICK n, bytes, in, out : /\ Step(e, n, bytes) /\ Mech(e, n, bytes, in, out)
                                 /\ Turn(e, n, in, out) /\ Calm(e, n)
    BY <1>4 DEF EndMoves
  <2>2. n \in End /\ bytes \in Seq(Byte)
    BY <2>1 DEF Mech
  <2>3. ends'[e] = n /\ ends'[p] = ends[p]
    BY <1>1, <2>1, <2>2, StepIs
  <2>4. /\ p \in Endpoint /\ p # e /\ Peer(p) = e /\ \A f \in Endpoint : f = e \/ f = p
    BY PeerIs
  <2>5. RunsCode(e) /\ RunsCode(e)' /\ (RunsCode(p)' <=> RunsCode(p))
    BY <2>1, <2>3, TurnPc DEF RunsCode
  <2>6. UNCHANGED Written \/ Pipe!Put(e)
    <3>1. CASE n.sent = o.sent
      <4>1. \A f \in Endpoint : ends'[f].sent = ends[f].sent
        BY <2>3, <2>4, <3>1
      <4> QED BY <4>1 DEF Written
    <3>2. CASE \E m \in Message : n.sent = Append(o.sent, m)
      <4>1. PICK m \in Message : n.sent = Append(o.sent, m)
        BY <3>2
      <4>2. \A f \in Endpoint : f # e => ends'[f].sent = ends[f].sent
        BY <2>3, <2>4
      <4>3. ends'[e].sent = Append(ends[e].sent, m) /\ ends \in [Endpoint -> End]
        BY <1>1, <2>3, <4>1 DEF StateOK
      <4> QED BY <4>2, <4>3, PutIs
    <3>3. n.sent = o.sent \/ \E m \in Message : n.sent = Append(o.sent, m)
      BY <2>1 DEF Mech, Outgoing
    <3> QED BY <3>1, <3>2, <3>3
  <2>7. UNCHANGED TakenOf \/ Pipe!Take(p)
    <3>1. CASE n.popped = o.popped \/ ~RunsCode(p)
      <4>1. \A f \in Endpoint : (RunsCode(f)' <=> RunsCode(f))
        BY <2>4, <2>5
      <4>2. \A f \in Endpoint : RunsCode(f) => ends'[Peer(f)].popped = ends[Peer(f)].popped
        BY <2>3, <2>4, <3>1
      <4> QED BY <4>1, <4>2 DEF TakenOf, Peer
    <3>2. CASE n.popped # o.popped /\ RunsCode(p)
      <4>1. BothRun
        BY <2>4, <2>5, <3>2 DEF BothRun
      <4>2. Conv
        BY <4>1 DEF ConvInv
      <4>3. in # <<>>
        <5>1. \E m \in Message : in = <<m>>
          BY <2>1, <3>2, Zenon DEF Mech, Incoming
        <5> QED BY <5>1
      <4>4. PICK m \in Message : in = <<m>> /\ Hears(e, m)
        BY <1>1, <2>1, <4>2, <4>3, TurnIs
      <4>5. n.popped = Append(o.popped, m)
        BY <2>1, <4>4 DEF Mech, Incoming
      <4>6. /\ Len(o.popped) + 1 \in 1..Len(ends[p].sent)
            /\ m = ends[p].sent[Len(o.popped) + 1]
        BY <4>4 DEF Hears
      <4>7. ends \in [Endpoint -> End] /\ RunsCode(p)'
        BY <1>1, <2>5, <3>2 DEF StateOK
      <4> QED BY <2>3, <2>4, <2>5, <3>2, <4>5, <4>6, <4>7, TakeIs
    <3> QED BY <3>1, <3>2
  <2>8. CASE UNCHANGED Written /\ UNCHANGED TakenOf
    BY <2>8
  <2>9. CASE Pipe!Put(e) /\ UNCHANGED TakenOf
    BY <2>9 DEF Pipe!Next, TakenOf
  <2>10. CASE Pipe!Take(p) /\ UNCHANGED Written
    BY <2>4, <2>10 DEF Pipe!Next, Written
  <2>11. CASE Pipe!Put(e) /\ Pipe!Take(p)
    BY <2>4, <2>11 DEF Pipe!Next
  <2> QED BY <2>6, <2>7, <2>8, <2>9, <2>10, <2>11
<1>5. CASE Elsewhere
  BY <1>2, <1>5 DEF Elsewhere
<1> QED BY <1>1, <1>3, <1>4, <1>5, NextIs

LEMMA PipeInit ==
    ASSUME Init
    PROVE  Pipe!Init
<1>1. PICK c \in Pc, d \in Pc : ends = NewEnds(c, d)
  BY DEF Init, Pc
<1>2. ASSUME NEW e \in Endpoint PROVE ends[e].sent = <<>> /\ ends[e].popped = <<>>
  <2> DEFINE pc == IF e = "Client" THEN c ELSE d
  <2>1. ends[e] = NewEnd(pc) /\ pc \in Pc
    BY <1>1 DEF NewEnds
  <2> HIDE DEF pc
  <2> QED BY <2>1, NewEndIs
<1>3. [e \in Endpoint |-> ends[e].sent] = [e \in Endpoint |-> <<>>]
  BY <1>2
<1>4. [e \in Endpoint |-> IF RunsCode(e) THEN ends[Peer(e)].popped ELSE <<>>]
        = [e \in Endpoint |-> <<>>]
  BY <1>2, PeerIs
<1> QED BY <1>3, <1>4 DEF Pipe!Init

\* transport/tcp.rs, read_more and try_pop_message over write_message: the framed
\* connection implements the pipe of messages.  However the bytes are cut into reads,
\* whichever write is interrupted, and whoever takes the channel over, what an end
\* takes is what the other wrote, whole, once and in order.
THEOREM ConnectionImplementsPipe == Spec => ImplementsPipe
<1>1. Init => ConvInv /\ Pipe!Init
  BY ConvInit, PipeInit
<1>2. ConvInv /\ [Next]_vars => ConvInv'
  BY ConvNext
<1>3. ConvInv /\ [Next]_vars =>
        [Pipe!Next]_<<[e \in Endpoint |-> ends[e].sent],
                      [e \in Endpoint |-> IF RunsCode(e) THEN ends[Peer(e)].popped ELSE <<>>]>>
  <2>1. SUFFICES ASSUME ConvInv, [Next]_vars
                 PROVE  Pipe!Next \/ UNCHANGED <<Written, TakenOf>>
    BY DEF Written, TakenOf
  <2>2. CASE Next
    BY <2>1, <2>2, PipeStep
  <2>3. CASE UNCHANGED vars
    BY <2>3 DEF vars, Written, TakenOf, RunsCode, Peer
  <2> QED BY <2>1, <2>2, <2>3
<1> QED BY <1>1, <1>2, <1>3, PTL DEF Spec, ImplementsPipe, Pipe!Spec

------------------------------------------------------------------------------
(* The first flight on the wire                                            *)

LEMMA TupleIs ==
    ASSUME NEW s, IsTuple(s)
    PROVE  /\ Len(s) \in Nat /\ DOMAIN s = 1..Len(s)
           /\ \E S : s \in Seq(S)
<1> DEFINE n == Len(s)
           S == {s[i] : i \in 1..n}
<1>1. n \in Nat /\ s = [i \in 1..n |-> s[i]]
  BY DEF IsTuple
<1> HIDE DEF n
<1>2. \A i \in 1..n : s[i] \in S
  OBVIOUS
<1> HIDE DEF S
<1>3. DOMAIN s = 1..n /\ s \in [1..n -> S]
  BY <1>1, <1>2
<1>4. s \in Seq(S)
  BY <1>1, <1>3
<1> QED BY <1>1, <1>3, <1>4 DEF n

LEMMA TuplePart ==
    ASSUME NEW s, IsTuple(s), NEW n \in Nat, n <= Len(s)
    PROVE  LET x == SubSeq(s, 1, n)
           IN  IsTuple(x) /\ Len(x) = n /\ \A i \in 1..n : x[i] = s[i]
<1>1. PICK S : s \in Seq(S)
  BY TupleIs
<1> DEFINE x == SubSeq(s, 1, n)
<1>2. x = [i \in 1..n |-> s[i]] /\ x \in Seq(S) /\ Len(x) = n
  BY <1>1
<1> HIDE DEF x
<1>3. \A i \in 1..n : x[i] = s[i]
  BY <1>2
<1>4. x = [i \in 1..n |-> x[i]]
  BY <1>2
<1> QED BY <1>2, <1>3, <1>4 DEF IsTuple, x

LEMMA CarriedIs ==
    ASSUME NEW sizes \in Seq(Nat)
    PROVE  LET c == Carried(sizes)
               m == Len(sizes)
           IN  /\ m \in Nat /\ c \in [1..m + 1 -> Nat] /\ c[1] = 0
               /\ \A k \in 1..m : c[k + 1] = c[k] + sizes[k]
<1> DEFINE m == Len(sizes)
           Is(f) == f = [k \in 1..m + 1 |-> IF k = 1 THEN 0 ELSE f[k - 1] + sizes[k - 1]]
           step == [k \in Nat |-> [v \in Nat |-> IF k \in 1..m THEN v + sizes[k] ELSE v]]
<1>1. m \in Nat /\ \A k \in 1..m : sizes[k] \in Nat
  OBVIOUS
<1> HIDE DEF m
<1>2. step \in [Nat -> [Nat -> Nat]]
  <2> SUFFICES ASSUME NEW k \in Nat, NEW v \in Nat
               PROVE (IF k \in 1..m THEN v + sizes[k] ELSE v) \in Nat
    BY Zenon
  <2> QED BY <1>1
<1>3. \A k \in 1..m : \A v \in Nat : step[k][v] = v + sizes[k]
  BY <1>1
<1> HIDE DEF step
<1>4. PICK g : Unrolls(g, Nat, 0, m, step)
  BY <1>1, <1>2, StepsExist
<1>5. /\ g \in [0..m -> Nat] /\ g[0] = 0
      /\ \A k \in 1..m : g[k] = step[k][g[k - 1]]
  BY <1>4 DEF Unrolls
<1>6. \A k \in 1..m : g[k] = g[k - 1] + sizes[k]
  <2> SUFFICES ASSUME NEW k \in 1..m PROVE g[k] = g[k - 1] + sizes[k]
    OBVIOUS
  <2>1. g[k - 1] \in Nat
    BY <1>1, <1>5
  <2> QED BY <1>3, <1>5, <2>1
<1> DEFINE h == [k \in 1..m + 1 |-> g[k - 1]]
<1>7. Is(h)
  <2>1. ASSUME NEW k \in 1..m + 1
        PROVE  h[k] = IF k = 1 THEN 0 ELSE h[k - 1] + sizes[k - 1]
    <3>1. CASE k = 1
      BY <1>1, <1>5, <3>1
    <3>2. CASE k # 1
      <4>1. k - 1 \in 1..m /\ k - 1 \in 1..m + 1 /\ h[k] = g[k - 1] /\ h[k - 1] = g[(k - 1) - 1]
        BY <1>1, <3>2
      <4> HIDE DEF h
      <4>2. g[k - 1] = g[(k - 1) - 1] + sizes[k - 1]
        BY <1>6, <4>1
      <4> QED BY <3>2, <4>1, <4>2
    <3> QED BY <3>1, <3>2
  <2>2. h = [k \in 1..m + 1 |-> h[k]]
    OBVIOUS
  <2> HIDE DEF h
  <2> QED BY <2>1, <2>2
<1> DEFINE f == CHOOSE x : Is(x)
<1>8. Is(f)
  <2> HIDE DEF h
  <2> QED BY <1>7
<1>9. Carried(sizes) = f
  BY DEF Carried, m
<1> HIDE DEF f
<1>10. f[1] = 0 /\ DOMAIN f = 1..m + 1 /\ \A k \in 1..m : f[k + 1] = f[k] + sizes[k]
  <2>1. f[1] = 0 /\ DOMAIN f = 1..m + 1
    BY <1>1, <1>8
  <2>2. ASSUME NEW k \in 1..m PROVE f[k + 1] = f[k] + sizes[k]
    <3>1. k + 1 \in 1..m + 1 /\ k + 1 # 1 /\ (k + 1) - 1 = k
      BY <1>1
    <3> QED BY <1>8, <3>1
  <2> QED BY <2>1, <2>2
<1>11. \A k \in 1..m + 1 : f[k] \in Nat
  <2> DEFINE S == {k \in Nat : k + 1 <= m + 1 => f[k + 1] \in Nat}
  <2>1. 0 \in S
    BY <1>10
  <2>2. ASSUME NEW k \in Nat, k \in S PROVE k + 1 \in S
    <3>1. CASE (k + 1) + 1 <= m + 1
      <4>1. k + 1 \in 1..m /\ k + 1 <= m + 1
        BY <1>1, <3>1
      <4>2. f[(k + 1) + 1] = f[k + 1] + sizes[k + 1] /\ sizes[k + 1] \in Nat
        BY <1>1, <1>10, <4>1
      <4>3. f[k + 1] \in Nat
        BY <2>2, <4>1
      <4> QED BY <4>2, <4>3
    <3>2. CASE ~((k + 1) + 1 <= m + 1)
      BY <3>2
    <3> QED BY <3>1, <3>2
  <2> HIDE DEF S
  <2>3. Nat \subseteq S
    BY <2>1, <2>2, NumbersFrom0
  <2>4. ASSUME NEW k \in 1..m + 1 PROVE f[k] \in Nat
    <3>1. k - 1 \in Nat /\ (k - 1) + 1 = k /\ k <= m + 1
      BY <1>1
    <3>2. k - 1 \in S
      BY <2>3, <3>1
    <3> QED BY <3>1, <3>2 DEF S
  <2> QED BY <2>4
<1>12. f \in [1..m + 1 -> Nat]
  <2>1. f = [k \in 1..m + 1 |-> f[k]]
    BY <1>8, <1>10
  <2> QED BY <1>11, <2>1
<1> QED BY <1>1, <1>9, <1>10, <1>12 DEF m

Counts(sizes, c, m) ==
    /\ m \in Nat /\ c \in [1..m + 1 -> Nat] /\ c[1] = 0
    /\ \A i \in 1..m : c[i + 1] = c[i] + sizes[i] /\ sizes[i] \in Nat

LEMMA CarriedCounts ==
    ASSUME NEW sizes \in Seq(Nat)
    PROVE  Counts(sizes, Carried(sizes), Len(sizes))
<1> DEFINE c == Carried(sizes)
           m == Len(sizes)
<1>1. /\ m \in Nat /\ c \in [1..m + 1 -> Nat] /\ c[1] = 0
      /\ \A k \in 1..m : c[k + 1] = c[k] + sizes[k]
  BY CarriedIs
<1>2. \A k \in 1..m : sizes[k] \in Nat
  OBVIOUS
<1>3. Carried(sizes) = c /\ Len(sizes) = m
  OBVIOUS
<1> HIDE DEF c, m
<1> QED BY <1>1, <1>2, <1>3 DEF Counts

\* Records follow each other.
LEMMA CarriedGrows ==
    ASSUME NEW sizes \in Seq(Nat), NEW j \in 1..Len(sizes) + 1, NEW k \in 1..Len(sizes) + 1, j <= k
    PROVE  Carried(sizes)[j] <= Carried(sizes)[k]
<1> DEFINE c == Carried(sizes)
           m == Len(sizes)
<1>1. /\ m \in Nat /\ c \in [1..m + 1 -> Nat]
      /\ \A i \in 1..m : c[i + 1] = c[i] + sizes[i]
      /\ \A i \in 1..m : sizes[i] \in Nat
  BY CarriedIs
<1>2. j \in 1..m + 1 /\ k \in 1..m + 1
  OBVIOUS
<1> HIDE DEF c, m
<1> DEFINE S == {d \in Nat : j + d <= m + 1 => c[j] <= c[j + d]}
<1>3. 0 \in S
  BY <1>1, <1>2
<1>4. ASSUME NEW d \in Nat, d \in S PROVE d + 1 \in S
  <2>1. CASE j + (d + 1) <= m + 1
    <3>1. j + d \in 1..m /\ j + d <= m + 1 /\ j + (d + 1) = (j + d) + 1 /\ j + d \in 1..m + 1
      BY <1>1, <1>2, <2>1
    <3>2. c[(j + d) + 1] = c[j + d] + sizes[j + d] /\ sizes[j + d] \in Nat
      BY <1>1, <3>1
    <3>3. c[j] <= c[j + d] /\ c[j] \in Nat /\ c[j + d] \in Nat
      BY <1>1, <1>2, <1>4, <3>1
    <3>4. c[j] <= c[j + (d + 1)]
      BY <3>1, <3>2, <3>3
    <3> QED BY <3>4
  <2>2. CASE ~(j + (d + 1) <= m + 1)
    BY <2>2
  <2> QED BY <2>1, <2>2
<1> HIDE DEF S
<1>5. Nat \subseteq S
  BY <1>3, <1>4, NumbersFrom0
<1>6. k - j \in Nat /\ j + (k - j) = k /\ k <= m + 1
  BY <1>1, <1>2
<1>7. k - j \in S
  BY <1>5, <1>6
<1>8. c[j] <= c[k]
  BY <1>6, <1>7 DEF S
<1> QED BY <1>8 DEF c

\* The record that carries a cell of the message.
LEMMA RecordOfCell ==
    ASSUME NEW sizes \in Seq(Nat), NEW i \in Nat, 1 <= i,
           i <= Carried(sizes)[Len(sizes) + 1]
    PROVE  \E k \in 1..Len(sizes) : Carried(sizes)[k] < i /\ i <= Carried(sizes)[k + 1]
<1> DEFINE c == Carried(sizes)
           m == Len(sizes)
<1>1. m \in Nat /\ c \in [1..m + 1 -> Nat] /\ c[1] = 0
  BY CarriedIs
<1>2. i <= c[m + 1]
  OBVIOUS
<1> SUFFICES ASSUME \A k \in 1..m : c[k] < i => ~(i <= c[k + 1])
             PROVE  FALSE
  OBVIOUS
<1> HIDE DEF c, m
<1> DEFINE S == {k \in Nat : k <= m => c[k + 1] < i}
<1>3. 0 \in S
  BY <1>1
<1>4. ASSUME NEW k \in Nat, k \in S PROVE k + 1 \in S
  <2>1. CASE k + 1 <= m
    <3>1. k + 1 \in 1..m /\ k <= m /\ (k + 1) + 1 \in 1..m + 1
      BY <1>1, <2>1
    <3>2. c[k + 1] < i
      BY <1>4, <3>1
    <3>3. ~(i <= c[(k + 1) + 1]) /\ c[(k + 1) + 1] \in Nat
      BY <1>1, <3>1, <3>2
    <3> QED BY <3>3
  <2>2. CASE ~(k + 1 <= m)
    BY <2>2
  <2> QED BY <2>1, <2>2
<1> HIDE DEF S
<1>5. Nat \subseteq S
  BY <1>3, <1>4, NumbersFrom0
<1>6. m \in S
  BY <1>1, <1>5
<1>7. c[m + 1] < i /\ c[m + 1] \in Nat
  BY <1>1, <1>6 DEF S
<1> QED BY <1>2, <1>7

\* The cells of a flight: in each record a header of two cells, then a part of the
\* message; behind the last record, something else.
WireIs(h, x) ==
    LET c == Carried(h.sizes)
        m == Len(h.sizes)
    IN  /\ IsTuple(x) /\ Len(x) = c[m + 1] + 2 * m + Len(h.tail)
        /\ \A k \in 1..m :
            /\ x[c[k] + 2 * k - 1] = TLS_HANDSHAKE_CONTENT_TYPE
            /\ x[c[k] + 2 * k] = <<h.sizes[k]>>
            /\ \A i \in Nat : c[k] < i /\ i <= c[k + 1] => x[i + 2 * k] = h.message[i]
        /\ h.tail # <<>> => x[c[m + 1] + 2 * m + 1] # TLS_HANDSHAKE_CONTENT_TYPE

LEMMA FlightIsWire ==
    ASSUME NEW h, IsFlight(h)
    PROVE  WireIs(h, FlightCells(h))
<1> DEFINE c == Carried(h.sizes)
           m == Len(h.sizes)
           t == Len(h.tail)
           S(k) == RecordStart(h, k)
           record(p) == CHOOSE k \in 1..m : S(k) < p /\ p <= S(k + 1)
           cell(p, k) == IF p = S(k) + 1 THEN TLS_HANDSHAKE_CONTENT_TYPE
                         ELSE IF p = S(k) + 2 THEN <<h.sizes[k]>>
                         ELSE h.message[p - k * TLS_RECORD_HEADER_LEN]
           n == S(m + 1) + t
           x == FlightCells(h)
<1>1. h.sizes \in Seq(Nat) /\ t \in Nat
  BY DEF IsFlight, IsTuple
<1>2. /\ m \in Nat /\ c \in [1..m + 1 -> Nat] /\ c[1] = 0
      /\ \A k \in 1..m : c[k + 1] = c[k] + h.sizes[k] /\ h.sizes[k] \in Nat
  BY <1>1, CarriedIs
<1>3. \A j, k \in 1..m + 1 : j <= k => c[j] <= c[k]
  BY <1>1, CarriedGrows
<1>4. \A k : S(k) = c[k] + (k - 1) * 2
  BY DEF RecordStart, TLS_RECORD_HEADER_LEN
<1>5. x = [p \in 1..n |-> IF p <= S(m + 1) THEN cell(p, record(p)) ELSE h.tail[p - S(m + 1)]]
  BY DEF FlightCells
<1>6. \A p, k : cell(p, k) = IF p = S(k) + 1 THEN TLS_HANDSHAKE_CONTENT_TYPE
                             ELSE IF p = S(k) + 2 THEN <<h.sizes[k]>>
                             ELSE h.message[p - k * 2]
  BY DEF TLS_RECORD_HEADER_LEN
<1>7. \A p : record(p) = CHOOSE k \in 1..m : S(k) < p /\ p <= S(k + 1)
  OBVIOUS
<1> HIDE DEF c, m, t, S, record, cell, x
<1>8. ASSUME NEW k \in 1..m + 1 PROVE S(k) \in Nat /\ S(k) = c[k] + 2 * k - 2
  <2>1. S(k) = c[k] + (k - 1) * 2 /\ c[k] \in Nat
    BY <1>2, <1>4
  <2>2. k \in Nat /\ 1 <= k
    BY <1>2
  <2> QED BY <2>1, <2>2
<1>9. \A j, k \in 1..m + 1 : j <= k => S(j) <= S(k)
  <2> SUFFICES ASSUME NEW j \in 1..m + 1, NEW k \in 1..m + 1, j <= k PROVE S(j) <= S(k)
    OBVIOUS
  <2>1. c[j] <= c[k] /\ c[j] \in Nat /\ c[k] \in Nat
    BY <1>2, <1>3
  <2>2. S(j) = c[j] + 2 * j - 2 /\ S(k) = c[k] + 2 * k - 2 /\ j \in Nat /\ k \in Nat
    BY <1>8
  <2> QED BY <2>1, <2>2
<1>10. ASSUME NEW p \in Nat, NEW k \in 1..m, S(k) < p, p <= S(k + 1)
       PROVE  p \in 1..n /\ x[p] = cell(p, k)
  <2>1. \A j \in 1..m : S(j) < p /\ p <= S(j + 1) => j = k
    <3> SUFFICES ASSUME NEW j \in 1..m, S(j) < p, p <= S(j + 1), j # k PROVE FALSE
      OBVIOUS
    <3>1. /\ j \in 1..m + 1 /\ k \in 1..m + 1 /\ j + 1 \in 1..m + 1 /\ k + 1 \in 1..m + 1
          /\ (j + 1 <= k \/ k + 1 <= j)
      BY <1>2
    <3>2. S(j) \in Nat /\ S(k) \in Nat /\ S(j + 1) \in Nat /\ S(k + 1) \in Nat
      BY <1>8, <3>1
    <3>3. S(j + 1) <= S(k) \/ S(k + 1) <= S(j)
      BY <1>9, <3>1
    <3> QED BY <1>10, <3>2, <3>3
  <2>2. record(p) = k
    BY <1>7, <1>10, <2>1
  <2>3. k + 1 \in 1..m + 1 /\ m + 1 \in 1..m + 1 /\ k \in 1..m + 1 /\ k + 1 <= m + 1
    BY <1>2
  <2>4. S(k + 1) <= S(m + 1) /\ S(k + 1) \in Nat /\ S(m + 1) \in Nat /\ S(k) \in Nat
    BY <1>8, <1>9, <2>3
  <2>5. p <= S(m + 1) /\ p \in 1..n
    BY <1>1, <1>10, <2>4
  <2> QED BY <1>5, <2>2, <2>5
<1>11. n \in Nat /\ S(m + 1) \in Nat /\ S(m + 1) = c[m + 1] + 2 * m /\ n = c[m + 1] + 2 * m + t
  <2>1. m + 1 \in 1..m + 1
    BY <1>2
  <2>2. S(m + 1) \in Nat /\ S(m + 1) = c[m + 1] + 2 * (m + 1) - 2 /\ c[m + 1] \in Nat
    BY <1>2, <1>8, <2>1
  <2> QED BY <1>1, <1>2, <2>2
<1>12. IsTuple(x) /\ Len(x) = n
  <2> HIDE DEF n
  <2>1. DOMAIN x = 1..n /\ x = [p \in 1..n |-> x[p]]
    BY <1>5
  <2>2. Len(x) = n
    BY <1>11, <2>1
  <2> QED BY <1>11, <2>1, <2>2 DEF IsTuple
<1>13. ASSUME NEW k \in 1..m
       PROVE  /\ x[c[k] + 2 * k - 1] = TLS_HANDSHAKE_CONTENT_TYPE
              /\ x[c[k] + 2 * k] = <<h.sizes[k]>>
              /\ \A i \in Nat : c[k] < i /\ i <= c[k + 1] => x[i + 2 * k] = h.message[i]
  <2>1. /\ k \in Nat /\ k \in 1..m + 1 /\ k + 1 \in 1..m + 1
        /\ c[k] \in Nat /\ c[k + 1] \in Nat /\ h.sizes[k] \in Nat /\ c[k + 1] = c[k] + h.sizes[k]
        /\ S(k) = c[k] + 2 * k - 2 /\ S(k + 1) = c[k + 1] + 2 * (k + 1) - 2
        /\ S(k) \in Nat /\ S(k + 1) \in Nat
    <3>1. k \in Nat /\ k \in 1..m + 1 /\ k + 1 \in 1..m + 1
      BY <1>2
    <3>2. S(k) = c[k] + 2 * k - 2 /\ S(k) \in Nat
      BY <1>8, <3>1
    <3>3. S(k + 1) = c[k + 1] + 2 * (k + 1) - 2 /\ S(k + 1) \in Nat
      BY <1>8, <3>1
    <3> QED BY <1>2, <3>1, <3>2, <3>3
  <2>2. x[c[k] + 2 * k - 1] = TLS_HANDSHAKE_CONTENT_TYPE
    <3> DEFINE p == c[k] + 2 * k - 1
    <3>1. p \in Nat /\ p = S(k) + 1 /\ S(k) < p /\ p <= S(k + 1)
      BY <2>1
    <3> HIDE DEF p
    <3>2. x[p] = cell(p, k)
      BY <1>10, <3>1
    <3>3. cell(p, k) = TLS_HANDSHAKE_CONTENT_TYPE
      BY <1>6, <3>1
    <3> QED BY <3>2, <3>3 DEF p
  <2>3. x[c[k] + 2 * k] = <<h.sizes[k]>>
    <3> DEFINE p == c[k] + 2 * k
    <3>1. p \in Nat /\ p = S(k) + 2 /\ p # S(k) + 1 /\ S(k) < p /\ p <= S(k + 1)
      BY <2>1
    <3> HIDE DEF p
    <3>2. x[p] = cell(p, k)
      BY <1>10, <3>1
    <3>3. cell(p, k) = <<h.sizes[k]>>
      BY <1>6, <3>1
    <3> QED BY <3>2, <3>3 DEF p
  <2>4. ASSUME NEW i \in Nat, c[k] < i, i <= c[k + 1]
        PROVE  x[i + 2 * k] = h.message[i]
    <3> DEFINE p == i + 2 * k
    <3>1. /\ p \in Nat /\ p # S(k) + 2 /\ p # S(k) + 1 /\ S(k) < p /\ p <= S(k + 1)
          /\ p - k * 2 = i
      BY <2>1, <2>4
    <3> HIDE DEF p
    <3>2. x[p] = cell(p, k)
      BY <1>10, <3>1
    <3>3. cell(p, k) = h.message[i]
      BY <1>6, <3>1
    <3> QED BY <3>2, <3>3 DEF p
  <2> QED BY <2>2, <2>3, <2>4
<1>14. ASSUME h.tail # <<>> PROVE x[c[m + 1] + 2 * m + 1] # TLS_HANDSHAKE_CONTENT_TYPE
  <2> DEFINE p == S(m + 1) + 1
  <2>1. IsTuple(h.tail) /\ h.tail[1] # TLS_HANDSHAKE_CONTENT_TYPE
    BY <1>14 DEF IsFlight
  <2>2. PICK A : h.tail \in Seq(A)
    BY <2>1, TupleIs
  <2>3. t >= 1
    BY <1>14, <2>2 DEF t
  <2>4. p \in 1..n /\ ~(p <= S(m + 1)) /\ p - S(m + 1) = 1 /\ p = c[m + 1] + 2 * m + 1
    BY <1>1, <1>11, <2>3
  <2> HIDE DEF p, n
  <2>5. x[p] = h.tail[p - S(m + 1)]
    BY <1>5, <2>4
  <2> QED BY <2>1, <2>4, <2>5
<1>15. IsTuple(x) /\ Len(x) = c[m + 1] + 2 * m + t
  BY <1>11, <1>12
<1> HIDE DEF n
<1> QED BY <1>13, <1>14, <1>15 DEF WireIs, c, m, t, x

------------------------------------------------------------------------------
(* The records of a stream                                                 *)

\* What RecordReader goes through.
Reads(r, buf) ==
    /\ r[0] = [pos |-> 0, at |-> <<>>, end |-> "Ok"]
    /\ \A k \in 1..Len(buf) + 1 : r[k] = ReadRecord(buf, r[k - 1])

LEMMA RecordsAre ==
    ASSUME NEW buf, Len(buf) \in Nat
    PROVE  \E r : Reads(r, buf) /\ Records(buf) = r[Len(buf) + 1]
<1> DEFINE first == [pos |-> 0, at |-> <<>>, end |-> "Ok"]
           m == Len(buf) + 1
           Next1(v) == ReadRecord(buf, v)
           Is(f, n) == f = [k \in 0..n |-> IF k = 0 THEN first ELSE Next1(f[k - 1])]
           S == {n \in Nat : \E f : Is(f, n)}
<1>1. m \in Nat
  OBVIOUS
<1>2. Records(buf) = (CHOOSE f : Is(f, m))[m]
  BY DEF Records
<1> HIDE DEF first, m, Next1
<1>3. 0 \in S
  <2> DEFINE f == [k \in 0..0 |-> first]
  <2>1. Is(f, 0)
    OBVIOUS
  <2> QED BY <2>1
<1>4. ASSUME NEW n \in Nat, n \in S PROVE n + 1 \in S
  <2>1. PICK g : Is(g, n)
    BY <1>4
  <2> DEFINE last == Next1(g[n])
             f == [k \in 0..n + 1 |-> IF k = n + 1 THEN last ELSE g[k]]
  <2>2. ASSUME NEW k \in 0..n + 1
        PROVE  f[k] = IF k = 0 THEN first ELSE Next1(f[k - 1])
    <3>1. CASE k = n + 1
      <4>1. f[k] = last /\ f[k - 1] = g[n] /\ k # 0
        BY <3>1
      <4> HIDE DEF f
      <4> QED BY <4>1
    <3>2. CASE k # n + 1
      <4>1. f[k] = g[k] /\ k \in 0..n /\ (k # 0 => k - 1 \in 0..n /\ f[k - 1] = g[k - 1])
        BY <3>2
      <4>2. g[k] = IF k = 0 THEN first ELSE Next1(g[k - 1])
        BY <2>1, <4>1
      <4> HIDE DEF f
      <4> QED BY <4>1, <4>2
    <3> QED BY <3>1, <3>2
  <2>3. f = [k \in 0..n + 1 |-> f[k]]
    OBVIOUS
  <2> HIDE DEF f
  <2>4. Is(f, n + 1)
    BY <2>2, <2>3
  <2> QED BY <2>4
<1>5. Nat \subseteq S
  <2> HIDE DEF S
  <2> QED BY <1>3, <1>4, NumbersFrom0
<1>6. \E f : Is(f, m)
  BY <1>1, <1>5
<1> DEFINE r == CHOOSE f : Is(f, m)
<1>7. Is(r, m)
  BY <1>6
<1> HIDE DEF r
<1>8. r[0] = first
  BY <1>1, <1>7
<1>9. ASSUME NEW k \in 1..m PROVE r[k] = Next1(r[k - 1])
  <2>1. k \in 0..m /\ k # 0
    BY <1>1
  <2> QED BY <1>7, <2>1
<1>10. Reads(r, buf)
  BY <1>8, <1>9 DEF Reads, first, m, Next1
<1> QED BY <1>2, <1>10 DEF r, m

\* The next record, as far as it has arrived.
ReadsTo(buf, v, w) ==
    LET s == v.pos + 2
        full == s + buf[s][1]
        stop == IF full <= Len(buf) THEN full ELSE Len(buf)
        l == Len(v.at)
    IN  /\ w.pos = stop /\ w.at \in Seq(Nat) /\ Len(w.at) = l + (stop - s)
        /\ \A i \in 1..l : w.at[i] = v.at[i]
        /\ \A i \in Nat : l < i /\ i <= l + (stop - s) => w.at[i] = s + (i - l)
        /\ w.end = IF full <= Len(buf) THEN "Ok" ELSE "Incomplete"
        /\ w = [pos |-> w.pos, at |-> w.at, end |-> w.end]

LEMMA ReadsOn ==
    ASSUME NEW buf, NEW v, v.end = "Ok", next_record(buf, v.pos) = "Ok", Len(buf) \in Nat,
           v.at \in Seq(Nat), v.pos \in Nat, v.pos + 2 <= Len(buf), buf[v.pos + 2][1] \in Nat
    PROVE  ReadsTo(buf, v, ReadRecord(buf, v))
<1> DEFINE n == Len(buf)
           s == v.pos + 2
           full == s + buf[s][1]
           stop == IF full <= n THEN full ELSE n
           run == [i \in 1..(stop - s) |-> s + i]
           w == ReadRecord(buf, v)
           g == stop - s
           t == v.at
           u == w.at
           l == Len(t)
<1>1. w = IF v.end # "Ok" THEN v
          ELSE IF next_record(buf, v.pos) # "Ok" THEN [v EXCEPT !.end = next_record(buf, v.pos)]
          ELSE [pos |-> stop, at |-> t \o run, end |-> IF full <= n THEN "Ok" ELSE "Incomplete"]
  BY DEF ReadRecord, TLS_RECORD_HEADER_LEN
<1>2. s \in Nat /\ g \in Nat /\ full \in Nat /\ stop = s + g
  <2>1. s \in Nat /\ n \in Nat /\ s <= n /\ buf[s][1] \in Nat
    OBVIOUS
  <2> HIDE DEF s, n
  <2>2. full \in Nat /\ s <= full
    BY <2>1
  <2> HIDE DEF full
  <2> QED BY <2>1, <2>2
<1>3. run = [i \in 1..g |-> s + i]
  OBVIOUS
<1> HIDE DEF run, stop, full, w, s, g
<1>4. w = [pos |-> stop, at |-> t \o run, end |-> IF full <= n THEN "Ok" ELSE "Incomplete"]
  BY <1>1
<1>5. /\ w.pos = stop /\ u = t \o run /\ w.end = IF full <= n THEN "Ok" ELSE "Incomplete"
      /\ w = [pos |-> w.pos, at |-> w.at, end |-> w.end]
  BY <1>4
<1>6. run \in Seq(Nat) /\ Len(run) = g /\ \A i \in 1..g : run[i] = s + i
  BY <1>2, <1>3
<1>7. t \in Seq(Nat) /\ l \in Nat
  OBVIOUS
<1> HIDE DEF t, u
<1>8. u \in Seq(Nat) /\ Len(u) = l + g /\ \A i \in 1..l : u[i] = t[i]
  <2>1. /\ t \o run \in Seq(Nat) /\ Len(t \o run) = Len(t) + Len(run)
        /\ \A i \in 1..Len(t) + Len(run) : (t \o run)[i] =
                IF i <= Len(t) THEN t[i] ELSE run[i - Len(t)]
    BY <1>6, <1>7, ConcatProperties
  <2>2. \A i \in 1..l : i \in 1..Len(t) + Len(run) /\ i <= Len(t)
    BY <1>2, <1>6, <1>7
  <2> QED BY <1>5, <1>6, <1>7, <2>1, <2>2
<1>9. ASSUME NEW i \in Nat, l < i, i <= l + g
      PROVE  u[i] = s + (i - l)
  <2>1. i - l \in 1..g /\ i \in 1..l + g /\ ~(i <= l)
    BY <1>2, <1>7, <1>9
  <2>2. u[i] = run[i - l]
    BY <1>5, <1>6, <1>7, <2>1
  <2> QED BY <1>6, <2>1, <2>2
<1> QED BY <1>5, <1>8, <1>9 DEF ReadsTo, w, stop, full, s, g, t, u

\* `at` is where the first `l` cells of the message are.
AtIs(h, at, l) ==
    /\ at \in Seq(Nat) /\ Len(at) = l
    /\ \A j \in 1..Len(h.sizes), i \in 1..l :
        Carried(h.sizes)[j] < i /\ i <= Carried(h.sizes)[j + 1] => at[i] = i + 2 * j

\* The first `l` cells of the message are among the first `n` cells of the flight,
\* and no others.
Arrived(h, n, l) ==
    \A j \in 1..Len(h.sizes), i \in Nat :
        Carried(h.sizes)[j] < i /\ i <= Carried(h.sizes)[j + 1] => (i <= l <=> i + 2 * j <= n)

\* The reader has taken the first `k` records.
Took(h, k, v) ==
    /\ v = [pos |-> Carried(h.sizes)[k + 1] + 2 * k, at |-> v.at, end |-> "Ok"]
    /\ AtIs(h, v.at, Carried(h.sizes)[k + 1])

\* `buf` is the beginning of a flight.
PeekedAt(h, buf) ==
    /\ IsFlight(h) /\ IsTuple(buf) /\ Len(buf) <= Len(FlightCells(h))
    /\ \A p \in 1..Len(buf) : buf[p] = FlightCells(h)[p]

LEMMA FullRecord ==
    ASSUME NEW h, NEW buf, PeekedAt(h, buf), NEW k \in Nat, k < Len(h.sizes), NEW v, Took(h, k, v),
           Carried(h.sizes)[k + 2] + 2 * (k + 1) <= Len(buf)
    PROVE  Took(h, k + 1, ReadRecord(buf, v))
<1> DEFINE c == Carried(h.sizes)
           m == Len(h.sizes)
           n == Len(buf)
           d == h.sizes[k + 1]
           pos == c[k + 1] + 2 * k
           start == pos + 2
           w == ReadRecord(buf, v)
<1>1. h.sizes \in Seq(Nat) /\ n \in Nat
  BY DEF PeekedAt, IsFlight, IsTuple
<1>2. /\ m \in Nat /\ c \in [1..m + 1 -> Nat]
      /\ \A i \in 1..m : c[i + 1] = c[i] + h.sizes[i] /\ h.sizes[i] \in Nat
  <2>1. Counts(h.sizes, c, m)
    BY <1>1, CarriedCounts
  <2> HIDE DEF c, m
  <2> QED BY <2>1 DEF Counts
<1>3. \A i, j \in 1..m + 1 : i <= j => c[i] <= c[j]
  BY <1>1, CarriedGrows
<1>4. WireIs(h, FlightCells(h))
  BY FlightIsWire DEF PeekedAt
<1>5. /\ k + 1 \in 1..m /\ k + 1 \in 1..m + 1 /\ k + 2 \in 1..m + 1
      /\ c[k + 1] \in Nat /\ c[k + 2] \in Nat /\ d \in Nat
      /\ c[k + 2] = c[k + 1] + d
  <2>1. k + 1 \in 1..m /\ k + 1 \in 1..m + 1 /\ k + 2 \in 1..m + 1 /\ k + 2 = (k + 1) + 1
    BY <1>2
  <2> HIDE DEF c, m
  <2>2. c[(k + 1) + 1] = c[k + 1] + h.sizes[k + 1] /\ h.sizes[k + 1] \in Nat
    BY <1>2, <2>1
  <2> QED BY <1>2, <2>1, <2>2
<1>6. /\ v.pos = pos /\ v.end = "Ok" /\ AtIs(h, v.at, c[k + 1])
      /\ c[k + 2] + 2 * (k + 1) <= n
  <2>1. v = [pos |-> pos, at |-> v.at, end |-> "Ok"]
    BY DEF Took
  <2>2. v.pos = pos /\ v.end = "Ok"
    BY <2>1
  <2> QED BY <2>2 DEF Took
<1>7. /\ FlightCells(h)[c[k + 1] + 2 * (k + 1) - 1] = TLS_HANDSHAKE_CONTENT_TYPE
      /\ FlightCells(h)[c[k + 1] + 2 * (k + 1)] = <<d>>
  BY <1>4, <1>5 DEF WireIs
<1>8. \A p \in 1..n : buf[p] = FlightCells(h)[p]
  BY DEF PeekedAt
<1>9. next_record(buf, pos) = IF pos + 2 > n THEN "Incomplete"
                              ELSE IF buf[pos + 1] # TLS_HANDSHAKE_CONTENT_TYPE THEN "Pass"
                              ELSE "Ok"
  BY DEF next_record, TLS_RECORD_HEADER_LEN
<1> HIDE DEF c, m, n, d, w
<1>10. /\ pos \in Nat /\ start \in Nat /\ start + d <= n /\ pos + 1 \in 1..n /\ start \in 1..n
       /\ pos + 1 = c[k + 1] + 2 * (k + 1) - 1 /\ start = c[k + 1] + 2 * (k + 1)
       /\ start + d = c[k + 2] + 2 * (k + 1) /\ ~(pos + 2 > n) /\ start = pos + 2
  <2> DEFINE b == c[k + 1]
             e == c[k + 2]
  <2>1. b \in Nat /\ e \in Nat /\ d \in Nat /\ e = b + d /\ e + 2 * (k + 1) <= n /\ n \in Nat
    BY <1>1, <1>5, <1>6
  <2> HIDE DEF b, e
  <2>2. /\ b + 2 * k \in Nat /\ b + 2 * k + 2 + d <= n /\ b + 2 * k + 1 \in 1..n
        /\ b + 2 * k + 2 \in 1..n /\ b + 2 * k + 1 = b + 2 * (k + 1) - 1
        /\ b + 2 * k + 2 = b + 2 * (k + 1) /\ b + 2 * k + 2 + d = e + 2 * (k + 1)
    BY <2>1
  <2>3. pos = b + 2 * k /\ start = b + 2 * k + 2
    BY DEF b
  <2> HIDE DEF pos, start
  <2>4. pos \in Nat /\ n \in Nat
    BY <2>1, <2>2, <2>3
  <2> QED BY <2>2, <2>3, <2>4 DEF b, e
<1> HIDE DEF pos, start
<1>11. buf[pos + 1] = TLS_HANDSHAKE_CONTENT_TYPE /\ buf[start] = <<d>>
  BY <1>7, <1>8, <1>10
<1>12. next_record(buf, pos) = "Ok" /\ buf[start][1] = d
  BY <1>9, <1>10, <1>11
<1> DEFINE a == w.at
           l == c[k + 1]
           stop == IF start + d <= Len(buf) THEN start + d ELSE Len(buf)
<1>13. /\ w.pos = stop /\ w.at \in Seq(Nat) /\ Len(w.at) = Len(v.at) + (stop - start)
       /\ \A i \in 1..Len(v.at) : w.at[i] = v.at[i]
       /\ \A i \in Nat : Len(v.at) < i /\ i <= Len(v.at) + (stop - start)
                            => w.at[i] = start + (i - Len(v.at))
       /\ w.end = (IF start + d <= Len(buf) THEN "Ok" ELSE "Incomplete")
       /\ w = [pos |-> w.pos, at |-> w.at, end |-> w.end]
  <2>1. /\ v.end = "Ok" /\ next_record(buf, v.pos) = "Ok" /\ Len(buf) \in Nat /\ v.pos \in Nat
        /\ v.pos + 2 = start /\ v.pos + 2 <= Len(buf) /\ buf[v.pos + 2][1] = d
        /\ v.at \in Seq(Nat) /\ d \in Nat
    BY <1>1, <1>5, <1>6, <1>10, <1>12 DEF n, AtIs
  <2>2. ReadsTo(buf, v, w)
    BY <2>1, ReadsOn DEF w
  <2> QED BY <2>1, <2>2 DEF ReadsTo
<1>14. stop = start + d /\ stop - start = d
  BY <1>5, <1>10 DEF n
<1> HIDE DEF stop
<1>15. /\ w.pos = start + d /\ w.end = "Ok" /\ w = [pos |-> w.pos, at |-> w.at, end |-> w.end]
  BY <1>10, <1>13, <1>14 DEF n
<1>16. /\ a \in Seq(Nat) /\ Len(a) = l + d
       /\ \A i \in 1..l : a[i] = v.at[i]
       /\ \A i \in Nat : l < i /\ i <= l + d => a[i] = start + (i - l)
  <2>1. Len(v.at) = l
    BY <1>6 DEF AtIs
  <2> QED BY <1>13, <1>14, <2>1
<1> HIDE DEF a
<1>17. AtIs(h, a, c[k + 2])
  <2>1. a \in Seq(Nat) /\ Len(a) = c[k + 2]
    BY <1>5, <1>16
  <2>2. ASSUME NEW j \in 1..m, NEW i \in 1..c[k + 2], c[j] < i, i <= c[j + 1]
        PROVE  a[i] = i + 2 * j
    <3>1. /\ j \in 1..m + 1 /\ j + 1 \in 1..m + 1 /\ c[j] \in Nat /\ c[j + 1] \in Nat /\ i \in Nat
          /\ 1 <= i
      BY <1>2, <1>5, <2>2
    <3>2. CASE i <= l
      <4>1. i \in 1..l
        BY <1>5, <3>1, <3>2
      <4>2. v.at[i] = i + 2 * j
        BY <1>6, <2>2, <4>1 DEF AtIs, c, m
      <4> QED BY <1>16, <4>1, <4>2
    <3>3. CASE ~(i <= l)
      <4>1. ~(j + 1 <= k + 1) /\ ~(k + 2 <= j)
        <5>1. ASSUME j + 1 <= k + 1 PROVE FALSE
          <6>1. c[j + 1] <= c[k + 1]
            BY <1>3, <1>5, <3>1, <5>1
          <6> QED BY <1>5, <2>2, <3>1, <3>3, <6>1
        <5>2. ASSUME k + 2 <= j PROVE FALSE
          <6>1. c[k + 2] <= c[j]
            BY <1>3, <1>5, <3>1, <5>2
          <6> QED BY <1>5, <2>2, <3>1, <6>1
        <5> QED BY <5>1, <5>2
      <4>2. j = k + 1
        BY <3>1, <4>1
      <4>3. a[i] = start + (i - l)
        <5>1. l < i /\ i <= l + d
          BY <1>5, <2>2, <3>1, <3>3
        <5> QED BY <1>16, <3>1, <5>1
      <4>4. start = l + 2 * (k + 1) /\ l \in Nat
        BY <1>5, <1>10
      <4> HIDE DEF l
      <4> QED BY <3>1, <4>2, <4>3, <4>4
    <3> QED BY <3>2, <3>3
  <2> QED BY <2>1, <2>2 DEF AtIs, c, m
<1>18. w.at = a /\ w = [pos |-> c[k + 2] + 2 * (k + 1), at |-> w.at, end |-> "Ok"]
  BY <1>10, <1>15 DEF a
<1>19. (k + 1) + 1 = k + 2
  OBVIOUS
<1> QED BY <1>17, <1>18, <1>19 DEF Took, c, w

\* The first records of a flight, when only a part of the next one has arrived.
ArrivedUpTo(h, n, k, l) ==
    LET c == Carried(h.sizes)
    IN  /\ c[k + 1] <= l /\ c[k + 1] + 2 * k <= n
        /\ \/ l = c[k + 1] /\ (k < Len(h.sizes) => n < c[k + 1] + 2 * k + 2)
           \/ /\ k < Len(h.sizes) /\ l + 2 * (k + 1) = n /\ n < c[k + 2] + 2 * (k + 1)

LEMMA PartArrives ==
    ASSUME NEW h, h.sizes \in Seq(Nat), NEW n \in Nat, NEW k \in Nat, k <= Len(h.sizes),
           NEW l \in Nat, ArrivedUpTo(h, n, k, l)
    PROVE  Arrived(h, n, l) /\ l <= Carried(h.sizes)[Len(h.sizes) + 1]
<1> DEFINE c == Carried(h.sizes)
           m == Len(h.sizes)
<1>1. m \in Nat /\ c \in [1..m + 1 -> Nat]
  BY CarriedIs
<1>2. \A i, j \in 1..m + 1 : i <= j => c[i] <= c[j]
  BY CarriedGrows
<1>3. /\ c[k + 1] <= l /\ c[k + 1] + 2 * k <= n
      /\ \/ l = c[k + 1] /\ (k < m => n < c[k + 1] + 2 * k + 2)
         \/ /\ k < m /\ l + 2 * (k + 1) = n /\ n < c[k + 2] + 2 * (k + 1)
  BY DEF ArrivedUpTo
<1>4. k <= m
  OBVIOUS
<1> HIDE DEF c, m
<1>5. /\ k + 1 \in 1..m + 1 /\ m + 1 \in 1..m + 1 /\ (k < m => k + 2 \in 1..m + 1)
      /\ k + 1 <= m + 1 /\ (k < m => k + 2 <= m + 1)
  BY <1>1, <1>4
<1>6. c[k + 1] \in Nat /\ c[m + 1] \in Nat /\ c[k + 1] <= c[m + 1]
  BY <1>1, <1>2, <1>5
<1>7. ASSUME k < m PROVE c[k + 2] \in Nat /\ c[k + 2] <= c[m + 1]
  BY <1>1, <1>2, <1>5, <1>7
<1>8. l <= c[m + 1]
  BY <1>3, <1>6, <1>7
<1>9. ASSUME NEW j \in 1..m, NEW i \in Nat, c[j] < i, i <= c[j + 1]
      PROVE  i <= l <=> i + 2 * j <= n
  <2>1. /\ j \in Nat /\ j \in 1..m + 1 /\ j + 1 \in 1..m + 1 /\ c[j] \in Nat /\ c[j + 1] \in Nat
        /\ j <= m
    BY <1>1
  <2>2. CASE j <= k
    <3>1. c[j + 1] <= c[k + 1]
      BY <1>2, <1>5, <2>1, <2>2
    <3>2. i <= l
      BY <1>3, <1>6, <1>9, <2>1, <3>1
    <3>3. i + 2 * j <= n
      BY <1>3, <1>6, <1>9, <2>1, <2>2, <3>1
    <3> QED BY <3>2, <3>3
  <2>3. CASE ~(j <= k)
    <3>1. k < m /\ c[k + 1] <= c[j] /\ k + 1 <= j
      BY <1>1, <1>2, <1>5, <2>1, <2>3
    <3>2. CASE l = c[k + 1] /\ n < c[k + 1] + 2 * k + 2
      <4> DEFINE a == c[j]
      <4>1. /\ a \in Nat /\ l <= a /\ a < i /\ n < l + 2 * k + 2 /\ k + 1 <= j /\ j \in Nat
        BY <1>9, <2>1, <3>1, <3>2
      <4> HIDE DEF a
      <4>2. ~(i <= l) /\ ~(i + 2 * j <= n)
        BY <4>1
      <4> QED BY <4>2
    <3>3. CASE l + 2 * (k + 1) = n /\ n < c[k + 2] + 2 * (k + 1)
      <4>1. CASE j = k + 1
        BY <1>9, <2>1, <3>3, <4>1
      <4>2. CASE j # k + 1
        <5>1. k + 2 <= j
          BY <2>1, <3>1, <4>2
        <5>2. c[k + 2] <= c[j] /\ c[k + 2] \in Nat
          BY <1>1, <1>2, <1>5, <2>1, <3>1, <5>1
        <5> QED BY <1>9, <2>1, <3>3, <5>1, <5>2
      <4> QED BY <4>1, <4>2
    <3> QED BY <1>3, <3>1, <3>2, <3>3
  <2> QED BY <2>2, <2>3
<1> QED BY <1>8, <1>9 DEF Arrived, c, m

LEMMA LastRecord ==
    ASSUME NEW h, NEW buf, PeekedAt(h, buf), NEW k \in Nat, k <= Len(h.sizes), NEW v, Took(h, k, v),
           Carried(h.sizes)[k + 1] + 2 * k <= Len(buf),
           k < Len(h.sizes) => ~(Carried(h.sizes)[k + 2] + 2 * (k + 1) <= Len(buf))
    PROVE  LET w == ReadRecord(buf, v)
               total == Carried(h.sizes)[Len(h.sizes) + 1]
           IN  \E l \in Nat : /\ AtIs(h, w.at, l) /\ Arrived(h, Len(buf), l) /\ l <= total
                              /\ w.end \in {"Incomplete", "Pass"}
                              /\ l < total => w.end = "Incomplete"
<1> DEFINE c == Carried(h.sizes)
           m == Len(h.sizes)
           n == Len(buf)
<1>1. h.sizes \in Seq(Nat) /\ n \in Nat /\ Len(h.tail) \in Nat
  BY DEF PeekedAt, IsFlight, IsTuple
<1>2. /\ m \in Nat /\ c \in [1..m + 1 -> Nat]
      /\ \A i \in 1..m : c[i + 1] = c[i] + h.sizes[i] /\ h.sizes[i] \in Nat
  <2>1. Counts(h.sizes, c, m)
    BY <1>1, CarriedCounts
  <2> HIDE DEF c, m
  <2> QED BY <2>1 DEF Counts
<1>3. \A i, j \in 1..m + 1 : i <= j => c[i] <= c[j]
  BY <1>1, CarriedGrows
<1>4. WireIs(h, FlightCells(h)) /\ n <= Len(FlightCells(h))
  BY FlightIsWire DEF PeekedAt
<1> DEFINE b == c[k + 1]
           pos == b + 2 * k
           w == ReadRecord(buf, v)
<1>5. /\ v = [pos |-> pos, at |-> v.at, end |-> "Ok"] /\ AtIs(h, v.at, b)
      /\ pos <= n /\ k <= m /\ (k < m => ~(c[k + 2] + 2 * (k + 1) <= n))
  BY DEF Took
<1>6. \A p \in 1..n : buf[p] = FlightCells(h)[p]
  BY DEF PeekedAt
<1>7. next_record(buf, pos) = IF pos + 2 > n THEN "Incomplete"
                              ELSE IF buf[pos + 1] # TLS_HANDSHAKE_CONTENT_TYPE THEN "Pass"
                              ELSE "Ok"
  BY DEF next_record, TLS_RECORD_HEADER_LEN
<1>8. v.end = "Ok" /\ next_record(buf, v.pos) # "Ok"
        => w = [v EXCEPT !.end = next_record(buf, v.pos)]
  BY DEF ReadRecord
<1>9. /\ Len(FlightCells(h)) = c[m + 1] + 2 * m + Len(h.tail)
      /\ h.tail # <<>> => FlightCells(h)[c[m + 1] + 2 * m + 1] # TLS_HANDSHAKE_CONTENT_TYPE
      /\ \A j \in 1..m : /\ FlightCells(h)[c[j] + 2 * j - 1] = TLS_HANDSHAKE_CONTENT_TYPE
                         /\ FlightCells(h)[c[j] + 2 * j] = <<h.sizes[j]>>
  BY <1>4 DEF WireIs
<1> HIDE DEF c, m, n, w
<1>10. /\ k + 1 \in 1..m + 1 /\ b \in Nat /\ pos \in Nat /\ k + 1 <= m + 1
       /\ c[m + 1] \in Nat /\ b <= c[m + 1]
  <2>1. k + 1 \in 1..m + 1 /\ m + 1 \in 1..m + 1 /\ k + 1 <= m + 1
    BY <1>2, <1>5
  <2>2. c[k + 1] \in Nat /\ c[m + 1] \in Nat /\ c[k + 1] <= c[m + 1]
    BY <1>2, <1>3, <2>1
  <2> QED BY <2>1, <2>2
<1>11. v.pos = pos /\ v.end = "Ok"
  BY <1>5
<1> HIDE DEF b
<1>12. ASSUME NEW e, e \in {"Incomplete", "Pass"}, next_record(buf, pos) = e,
              ArrivedUpTo(h, n, k, b), b < c[m + 1] => e = "Incomplete"
       PROVE  \E l \in Nat : /\ AtIs(h, w.at, l) /\ Arrived(h, n, l) /\ l <= c[m + 1]
                             /\ w.end \in {"Incomplete", "Pass"}
                             /\ l < c[m + 1] => w.end = "Incomplete"
  <2>1. w = [v EXCEPT !.end = e]
    BY <1>8, <1>11, <1>12
  <2>2. w.at = v.at /\ w.end = e
    <3> HIDE DEF pos
    <3> QED BY <1>5, <2>1
  <2>3. Arrived(h, n, b) /\ b <= c[m + 1]
    BY <1>1, <1>5, <1>10, <1>12, PartArrives DEF c, m
  <2> QED BY <1>5, <1>10, <1>12, <2>2, <2>3
<1>13. CASE k < m /\ pos + 2 > n
  <2>1. next_record(buf, pos) = "Incomplete"
    BY <1>7, <1>13
  <2>2. ArrivedUpTo(h, n, k, b)
    BY <1>1, <1>5, <1>10, <1>13 DEF ArrivedUpTo, b, c, m
  <2>3. \E l \in Nat : /\ AtIs(h, w.at, l) /\ Arrived(h, n, l) /\ l <= c[m + 1]
                       /\ w.end \in {"Incomplete", "Pass"}
                       /\ l < c[m + 1] => w.end = "Incomplete"
    BY <1>12, <2>1, <2>2
  <2> QED BY <2>3 DEF c, m, n, w
<1>14. CASE k = m
  <2>1. ArrivedUpTo(h, n, k, b) /\ b = c[m + 1]
    BY <1>1, <1>2, <1>5, <1>10, <1>14 DEF ArrivedUpTo, b, c, m
  <2>2. next_record(buf, pos) \in {"Incomplete", "Pass"}
    <3>1. CASE pos + 2 > n
      BY <1>7, <3>1
    <3>2. CASE ~(pos + 2 > n)
      <4>1. h.tail # <<>>
        <5>1. ASSUME h.tail = <<>> PROVE FALSE
          <6>1. Len(h.tail) = 0
            BY <5>1
          <6> QED BY <1>1, <1>2, <1>4, <1>9, <1>10, <1>14, <2>1, <3>2, <6>1
        <5> QED BY <5>1
      <4>2. pos + 1 \in 1..n /\ pos + 1 = c[m + 1] + 2 * m + 1
        <5>1. pos = c[m + 1] + 2 * m
          BY <1>14, <2>1
        <5>2. pos \in Nat /\ n \in Nat /\ pos + 2 <= n
          BY <1>1, <1>10, <3>2
        <5> HIDE DEF pos
        <5> QED BY <5>1, <5>2
      <4>3. buf[pos + 1] # TLS_HANDSHAKE_CONTENT_TYPE
        BY <1>6, <1>9, <4>1, <4>2
      <4> QED BY <1>7, <3>2, <4>3
    <3> QED BY <3>1, <3>2
  <2>3. ~(b < c[m + 1])
    BY <1>10, <2>1
  <2>4. \E l \in Nat : /\ AtIs(h, w.at, l) /\ Arrived(h, n, l) /\ l <= c[m + 1]
                       /\ w.end \in {"Incomplete", "Pass"}
                       /\ l < c[m + 1] => w.end = "Incomplete"
    BY <1>12, <2>1, <2>2, <2>3
  <2> QED BY <2>4 DEF c, m, n, w
<1>15. CASE k < m /\ ~(pos + 2 > n)
  <2> DEFINE d == h.sizes[k + 1]
             start == pos + 2
             l == b + (n - start)
  <2>1. /\ k + 1 \in 1..m /\ d \in Nat /\ c[k + 2] = b + d /\ c[k + 2] \in Nat
        /\ k + 2 \in 1..m + 1 /\ c[k + 2] <= c[m + 1]
    <3>1. k + 1 \in 1..m /\ k + 2 \in 1..m + 1 /\ (k + 1) + 1 = k + 2 /\ m + 1 \in 1..m + 1
          /\ k + 2 <= m + 1
      BY <1>2, <1>15
    <3>2. c[(k + 1) + 1] = c[k + 1] + h.sizes[k + 1] /\ h.sizes[k + 1] \in Nat
      BY <1>2, <3>1
    <3>3. c[k + 2] \in Nat /\ c[k + 2] <= c[m + 1]
      BY <1>2, <1>3, <3>1
    <3> QED BY <3>1, <3>2, <3>3 DEF b
  <2> HIDE DEF d
  <2>2. /\ start \in Nat /\ start <= n /\ pos + 1 \in 1..n /\ start \in 1..n
        /\ pos + 1 = b + 2 * (k + 1) - 1 /\ start = b + 2 * (k + 1)
        /\ ~(start + d <= n) /\ l \in Nat /\ b <= l /\ l + 2 * (k + 1) = n
        /\ n < c[k + 2] + 2 * (k + 1) /\ l < c[m + 1] /\ pos + 2 = start
    <3> DEFINE e == c[k + 2]
               f == c[m + 1]
    <3>1. /\ b \in Nat /\ d \in Nat /\ e = b + d /\ e \in Nat /\ e <= f /\ f \in Nat /\ n \in Nat
          /\ ~(e + 2 * (k + 1) <= n) /\ ~(b + 2 * k + 2 > n)
      BY <1>1, <1>5, <1>10, <1>15, <2>1
    <3>2. pos = b + 2 * k /\ start = b + 2 * k + 2 /\ l = b + (n - start)
      OBVIOUS
    <3> HIDE DEF e, f, pos, start, l
    <3>3. /\ start \in Nat /\ start <= n /\ pos + 1 \in 1..n /\ start \in 1..n
          /\ pos + 1 = b + 2 * (k + 1) - 1 /\ start = b + 2 * (k + 1) /\ pos + 2 = start
      BY <3>1, <3>2
    <3>4. ~(start + d <= n) /\ n < e + 2 * (k + 1)
      BY <3>1, <3>2
    <3>5. l \in Nat /\ b <= l /\ l + 2 * (k + 1) = n
      BY <3>1, <3>2, <3>3
    <3>6. l < f
      BY <3>1, <3>4, <3>5
    <3> QED BY <3>3, <3>4, <3>5, <3>6 DEF e, f
  <2>3. buf[pos + 1] = TLS_HANDSHAKE_CONTENT_TYPE /\ buf[start] = <<d>>
    BY <1>6, <1>9, <2>1, <2>2 DEF b, d
  <2>4. next_record(buf, pos) = "Ok" /\ buf[start][1] = d
    BY <1>7, <1>15, <2>3
  <2> HIDE DEF start, pos
  <2>5. /\ w.at \in Seq(Nat) /\ Len(w.at) = Len(v.at) + (n - start)
        /\ \A i \in 1..Len(v.at) : w.at[i] = v.at[i]
        /\ \A i \in Nat : Len(v.at) < i /\ i <= Len(v.at) + (n - start)
                             => w.at[i] = start + (i - Len(v.at))
        /\ w.end = "Incomplete"
    <3>1. /\ v.end = "Ok" /\ next_record(buf, v.pos) = "Ok" /\ Len(buf) \in Nat /\ v.pos \in Nat
          /\ v.pos + 2 = start /\ v.pos + 2 <= Len(buf) /\ buf[v.pos + 2][1] = d
          /\ v.at \in Seq(Nat) /\ d \in Nat
      BY <1>1, <1>5, <1>10, <1>11, <2>1, <2>2, <2>4 DEF n, AtIs
    <3> DEFINE stop == IF start + d <= Len(buf) THEN start + d ELSE Len(buf)
    <3>2. /\ w.pos = stop /\ w.at \in Seq(Nat) /\ Len(w.at) = Len(v.at) + (stop - start)
          /\ \A i \in 1..Len(v.at) : w.at[i] = v.at[i]
          /\ \A i \in Nat : Len(v.at) < i /\ i <= Len(v.at) + (stop - start)
                               => w.at[i] = start + (i - Len(v.at))
          /\ w.end = (IF start + d <= Len(buf) THEN "Ok" ELSE "Incomplete")
          /\ w = [pos |-> w.pos, at |-> w.at, end |-> w.end]
      <4>1. ReadsTo(buf, v, w)
        BY <3>1, ReadsOn DEF w
      <4> QED BY <3>1, <4>1 DEF ReadsTo
    <3>3. stop = n /\ ~(start + d <= Len(buf))
      BY <2>2 DEF n
    <3> HIDE DEF stop
    <3> QED BY <3>2, <3>3
  <2>6. ArrivedUpTo(h, n, k, l)
    <3> HIDE DEF l
    <3> QED BY <1>5, <1>10, <1>15, <2>2 DEF ArrivedUpTo, b, c, m, pos
  <2>7. Arrived(h, n, l)
    <3> HIDE DEF l
    <3> QED BY <1>1, <1>5, <2>2, <2>6, PartArrives DEF m
  <2>8. Len(v.at) = b
    BY <1>5 DEF AtIs
  <2>9. AtIs(h, w.at, l)
    <3>1. w.at \in Seq(Nat) /\ Len(w.at) = l
      BY <2>5, <2>8
    <3>2. ASSUME NEW j \in 1..m, NEW i \in 1..l, c[j] < i, i <= c[j + 1]
          PROVE  w.at[i] = i + 2 * j
      <4>1. /\ j \in 1..m + 1 /\ j + 1 \in 1..m + 1 /\ c[j] \in Nat /\ c[j + 1] \in Nat /\ i \in Nat
            /\ 1 <= i /\ i <= l /\ j \in Nat
        <5> HIDE DEF l
        <5> QED BY <1>2, <2>2, <3>2
      <4>2. CASE i <= b
        <5>1. i \in 1..b
          BY <1>10, <4>1, <4>2
        <5>2. v.at[i] = i + 2 * j
          BY <1>5, <3>2, <5>1 DEF AtIs, c, m
        <5> QED BY <2>5, <2>8, <5>1, <5>2
      <4>3. CASE ~(i <= b)
        <5>1. ASSUME j + 1 <= k + 1 PROVE FALSE
          <6>1. c[j + 1] <= b
            BY <1>3, <1>10, <4>1, <5>1 DEF b
          <6> QED BY <1>10, <3>2, <4>1, <4>3, <6>1
        <5>2. ASSUME k + 2 <= j PROVE FALSE
          <6>1. c[k + 2] <= c[j]
            BY <1>3, <2>1, <4>1, <5>2
          <6>2. l < c[k + 2]
            <7> DEFINE e == c[k + 2]
            <7>1. l \in Nat /\ e \in Nat /\ l + 2 * (k + 1) = n /\ n < e + 2 * (k + 1)
              BY <2>1, <2>2
            <7> HIDE DEF l, e
            <7>2. l < e
              BY <7>1
            <7> QED BY <7>2 DEF e
          <6>3. l \in Nat /\ i <= l /\ c[k + 2] \in Nat
            BY <2>1, <2>2, <4>1
          <6> HIDE DEF l
          <6> QED BY <3>2, <4>1, <6>1, <6>2, <6>3
        <5>3. j = k + 1
          BY <4>1, <5>1, <5>2
        <5>4. w.at[i] = start + (i - b)
          BY <2>5, <2>8, <4>1, <4>3
        <5>5. start = b + 2 * (k + 1)
          BY <2>2
        <5> HIDE DEF l
        <5> QED BY <1>10, <4>1, <5>3, <5>4, <5>5
      <4> QED BY <4>2, <4>3
    <3> HIDE DEF l
    <3> QED BY <3>1, <3>2 DEF AtIs, c, m
  <2>10. l \in Nat /\ l <= c[m + 1] /\ w.end \in {"Incomplete", "Pass"} /\ w.end = "Incomplete"
    <3> HIDE DEF l
    <3> QED BY <1>10, <2>2, <2>5
  <2> HIDE DEF l
  <2> QED BY <2>7, <2>9, <2>10 DEF c, m, n, w
<1> QED BY <1>2, <1>5, <1>13, <1>14, <1>15

\* What the classifier knows of a flight when `n` cells of it have arrived: where the
\* first `l` cells of the message are, and that no others are there.
ReadUpTo(h, n, rec, l) ==
    LET total == Carried(h.sizes)[Len(h.sizes) + 1]
    IN  /\ AtIs(h, rec.at, l) /\ Arrived(h, n, l) /\ l <= total
        /\ rec.end \in {"Incomplete", "Pass"}
        /\ l < total => rec.end = "Incomplete"

LEMMA RecordsOf ==
    ASSUME NEW h, NEW buf, PeekedAt(h, buf)
    PROVE  \E l \in Nat : ReadUpTo(h, Len(buf), Records(buf), l)
<1> DEFINE c == Carried(h.sizes)
           m == Len(h.sizes)
           n == Len(buf)
<1>1. h.sizes \in Seq(Nat) /\ n \in Nat
  BY DEF PeekedAt, IsFlight, IsTuple
<1>2. m \in Nat /\ c \in [1..m + 1 -> Nat] /\ c[1] = 0
  BY <1>1, CarriedIs
<1>3. \A i, j \in 1..m + 1 : i <= j => c[i] <= c[j]
  BY <1>1, CarriedGrows
<1>4. PICK r : Reads(r, buf) /\ Records(buf) = r[n + 1]
  BY <1>1, RecordsAre
<1>5. /\ r[0] = [pos |-> 0, at |-> <<>>, end |-> "Ok"]
      /\ \A i \in 1..n + 1 : r[i] = ReadRecord(buf, r[i - 1])
  BY <1>4 DEF Reads
<1>6. Took(h, 0, r[0])
  <2>1. AtIs(h, <<>>, 0)
    BY DEF AtIs
  <2>2. c[0 + 1] = 0 /\ c[0 + 1] + 2 * 0 = 0 /\ r[0].at = <<>>
    BY <1>2, <1>5
  <2> HIDE DEF c
  <2> QED BY <1>5, <2>1, <2>2 DEF Took, c
<1> DEFINE Arr(k) == k <= m /\ c[k + 1] + 2 * k <= n
<1>7. \E k \in Nat : Arr(k) /\ ~Arr(k + 1)
  <2> SUFFICES ASSUME \A k \in Nat : Arr(k) => Arr(k + 1)
               PROVE  FALSE
    OBVIOUS
  <2> DEFINE S == {k \in Nat : Arr(k)}
  <2>1. 0 \in S
    BY <1>1, <1>2
  <2> HIDE DEF Arr
  <2>2. Nat \subseteq S
    <3>1. ASSUME NEW k \in Nat, k \in S PROVE k + 1 \in S
      BY <3>1
    <3> HIDE DEF S
    <3> QED BY <2>1, <3>1, NumbersFrom0
  <2>3. Arr(m + 1)
    BY <1>2, <2>2
  <2> QED BY <1>2, <2>3 DEF Arr
<1>8. PICK k \in Nat : Arr(k) /\ ~Arr(k + 1)
  BY <1>7
<1> HIDE DEF c, m, n
<1>9. /\ k <= m /\ c[k + 1] + 2 * k <= n /\ c[k + 1] \in Nat /\ k + 1 \in 1..m + 1
      /\ (k < m => ~(c[k + 2] + 2 * (k + 1) <= n)) /\ k <= n
  <2>1. k <= m /\ c[k + 1] + 2 * k <= n
    BY <1>8
  <2>2. k + 1 \in 1..m + 1 /\ (k + 1) + 1 = k + 2
    BY <1>2, <2>1
  <2>3. c[k + 1] \in Nat
    BY <1>2, <2>2
  <2>4. k < m => ~(c[k + 2] + 2 * (k + 1) <= n)
    BY <1>2, <1>8, <2>2
  <2>5. k <= n
    BY <1>1, <2>1, <2>3
  <2> QED BY <2>1, <2>2, <2>3, <2>4, <2>5
<1> HIDE DEF Arr
<1> DEFINE S == {i \in Nat : i <= k => Took(h, i, r[i])}
<1>10. 0 \in S
  BY <1>6
<1>11. ASSUME NEW i \in Nat, i \in S PROVE i + 1 \in S
  <2>1. CASE i + 1 <= k
    <3>1. i < m /\ i <= k /\ i + 2 \in 1..m + 1 /\ i + 2 <= k + 1 /\ i + 1 \in 1..n + 1
          /\ (i + 1) - 1 = i
      BY <1>1, <1>2, <1>9, <2>1
    <3>2. c[i + 2] <= c[k + 1] /\ c[i + 2] \in Nat
      BY <1>2, <1>3, <1>9, <3>1
    <3>3. c[i + 2] + 2 * (i + 1) <= n
      <4> DEFINE a == c[i + 2]
                 b == c[k + 1]
      <4>1. a \in Nat /\ b \in Nat /\ a <= b /\ b + 2 * k <= n
        BY <1>9, <3>2
      <4> HIDE DEF a, b
      <4>2. a + 2 * (i + 1) <= n
        BY <1>1, <2>1, <4>1
      <4> QED BY <4>2 DEF a
    <3>4. Took(h, i, r[i])
      BY <1>11, <3>1
    <3>5. Took(h, i + 1, ReadRecord(buf, r[i]))
      BY <3>1, <3>3, <3>4, FullRecord DEF c, m, n
    <3>6. r[i + 1] = ReadRecord(buf, r[i])
      BY <1>5, <3>1
    <3>7. Took(h, i + 1, r[i + 1])
      BY <3>5, <3>6
    <3> QED BY <3>7
  <2>2. CASE ~(i + 1 <= k)
    BY <2>2
  <2> QED BY <2>1, <2>2
<1>12. Took(h, k, r[k])
  <2> HIDE DEF S
  <2>1. k \in S
    BY <1>10, <1>11, NumbersFrom0
  <2> QED BY <2>1 DEF S
<1> HIDE DEF S
<1>13. k + 1 \in 1..n + 1 /\ r[k + 1] = ReadRecord(buf, r[k])
  <2>1. k + 1 \in 1..n + 1 /\ (k + 1) - 1 = k
    BY <1>1, <1>9
  <2> QED BY <1>5, <2>1
<1>14. PICK l \in Nat : ReadUpTo(h, n, r[k + 1], l)
  <2> DEFINE w == ReadRecord(buf, r[k])
             total == Carried(h.sizes)[Len(h.sizes) + 1]
  <2>1. \E l \in Nat : /\ AtIs(h, w.at, l) /\ Arrived(h, Len(buf), l) /\ l <= total
                       /\ w.end \in {"Incomplete", "Pass"}
                       /\ l < total => w.end = "Incomplete"
    BY <1>9, <1>12, LastRecord DEF c, m, n
  <2>2. r[k + 1] = w
    BY <1>13
  <2> HIDE DEF w
  <2> QED BY <2>1, <2>2 DEF ReadUpTo, n
<1>15. r[k + 1].end # "Ok"
  BY <1>14 DEF ReadUpTo
<1> DEFINE T == {i \in Nat : (k + 1) + i <= n + 1 => r[(k + 1) + i] = r[k + 1]}
<1>16. 0 \in T
  OBVIOUS
<1>17. ASSUME NEW i \in Nat, i \in T PROVE i + 1 \in T
  <2>1. CASE (k + 1) + (i + 1) <= n + 1
    <3> DEFINE p == (k + 1) + (i + 1)
    <3>1. p \in 1..n + 1 /\ p - 1 = (k + 1) + i /\ (k + 1) + i <= n + 1
      BY <1>1, <2>1
    <3>2. r[p - 1] = r[k + 1]
      BY <1>17, <3>1
    <3> HIDE DEF p
    <3>3. r[p] = ReadRecord(buf, r[k + 1])
      BY <1>5, <3>1, <3>2
    <3>4. ReadRecord(buf, r[k + 1]) = r[k + 1]
      BY <1>15 DEF ReadRecord
    <3> QED BY <3>3, <3>4 DEF p
  <2>2. CASE ~((k + 1) + (i + 1) <= n + 1)
    BY <2>2
  <2> QED BY <2>1, <2>2
<1>18. r[n + 1] = r[k + 1]
  <2>1. n - k \in Nat /\ (k + 1) + (n - k) = n + 1
    BY <1>1, <1>9
  <2> HIDE DEF T
  <2>2. n - k \in T
    BY <1>16, <1>17, <2>1, NumbersFrom0
  <2>3. (k + 1) + (n - k) <= n + 1 => r[(k + 1) + (n - k)] = r[k + 1]
    BY <2>2 DEF T
  <2> QED BY <1>1, <2>1, <2>3
<1> QED BY <1>4, <1>14, <1>18 DEF n

\* The cells that the reader has found are those of the message.
LEMMA CellsAre ==
    ASSUME NEW h, NEW buf, PeekedAt(h, buf), NEW rec, NEW l \in Nat, ReadUpTo(h, Len(buf), rec, l),
           NEW i \in 1..l
    PROVE  /\ buf[rec.at[i]] = h.message[i]
           /\ \E j \in 1..Len(h.sizes) :
                /\ Carried(h.sizes)[j] < i /\ i <= Carried(h.sizes)[j + 1]
                /\ rec.at[i] = i + 2 * j
<1> DEFINE c == Carried(h.sizes)
           m == Len(h.sizes)
           n == Len(buf)
<1>1. h.sizes \in Seq(Nat) /\ n \in Nat
  BY DEF PeekedAt, IsFlight, IsTuple
<1>2. m \in Nat /\ c \in [1..m + 1 -> Nat]
  BY <1>1, CarriedIs
<1>3. l <= c[m + 1] /\ AtIs(h, rec.at, l) /\ Arrived(h, n, l)
  BY DEF ReadUpTo
<1>4. i \in Nat /\ 1 <= i /\ i <= l
  OBVIOUS
<1>5. i <= c[m + 1]
  <2>1. c[m + 1] \in Nat
    BY <1>2
  <2> HIDE DEF c, m
  <2> QED BY <1>3, <1>4, <2>1
<1>6. PICK j \in 1..m : c[j] < i /\ i <= c[j + 1]
  BY <1>1, <1>4, <1>5, RecordOfCell
<1>7. rec.at[i] = i + 2 * j
  BY <1>3, <1>6 DEF AtIs
<1>8. i + 2 * j <= n
  BY <1>3, <1>4, <1>6 DEF Arrived
<1>9. i + 2 * j \in 1..n
  BY <1>1, <1>2, <1>4, <1>8
<1>10. FlightCells(h)[i + 2 * j] = h.message[i]
  <2>1. WireIs(h, FlightCells(h))
    BY FlightIsWire DEF PeekedAt
  <2> QED BY <1>4, <1>6, <2>1 DEF WireIs
<1>11. buf[i + 2 * j] = h.message[i]
  BY <1>9, <1>10 DEF PeekedAt
<1> QED BY <1>6, <1>7, <1>11

\* The steps of the classifier.
CellAt(buf, i) == buf[Records(buf).at[i]]
HsLen(buf) == CellAt(buf, 2)[1]
ReadTo(buf, upto) == HandshakeRead(Records(buf), HsLen(buf), upto)

LEMMA WithinIs ==
    ASSUME NEW buf, NEW secret
    PROVE  classify_tcp_client_hello_within_limit(buf, secret) =
            IF Len(Records(buf).at) < 2 THEN Records(buf).end
            ELSE IF CellAt(buf, 1) # HANDSHAKE_TYPE_CLIENT_HELLO THEN "Pass"
            ELSE IF 2 + (2 + HsLen(buf)) > MAX_TCP_CLIENT_HELLO_WIRE_LEN THEN "Pass"
            ELSE IF ReadTo(buf, 3) # "Ok" THEN ReadTo(buf, 3)
            ELSE IF ReadTo(buf, 5) # "Ok" THEN ReadTo(buf, 5)
            ELSE IF ReadTo(buf, 6) # "Ok" THEN ReadTo(buf, 6)
            ELSE IF CellAt(buf, 6) # LEGACY_SESSION_ID_LEN THEN "Pass"
            ELSE IF ReadTo(buf, 8) # "Ok" THEN ReadTo(buf, 8)
            ELSE IF CellAt(buf, 8 - 1) # candidate_session_id_tag(CellAt(buf, 4), secret)
                 THEN "Pass"
            ELSE IF ReadTo(buf, 2 + HsLen(buf)) # "Ok" THEN ReadTo(buf, 2 + HsLen(buf))
            ELSE IF Records(buf).at[2 + HsLen(buf)] > MAX_TCP_CLIENT_HELLO_WIRE_LEN THEN "Pass"
            ELSE classify_session_id([i \in 1..2 + HsLen(buf) |-> CellAt(buf, i)], secret)
BY DEF classify_tcp_client_hello_within_limit, CellAt, HsLen, ReadTo, HANDSHAKE_HEADER_LEN, VERSION,
       RANDOM, SESSION_ID_LEN, SESSION_ID, RANDOM_PREFIX, TLS_RECORD_HEADER_LEN

LEMMA ReadToIs ==
    ASSUME NEW buf, NEW upto
    PROVE  ReadTo(buf, upto) = IF upto > 2 + HsLen(buf) THEN "Pass"
                               ELSE IF upto > Len(Records(buf).at) THEN Records(buf).end ELSE "Ok"
BY DEF ReadTo, HandshakeRead, HANDSHAKE_HEADER_LEN

LEMMA PrefixIs ==
    ASSUME NEW s, IsTuple(s), NEW n \in Nat, n <= Len(s)
    PROVE  SubSeq(s, 1, n) = [i \in 1..n |-> s[i]]
<1>1. PICK S : s \in Seq(S)
  BY TupleIs
<1> QED BY <1>1

LEMMA ClaimIsGenuine ==
    ASSUME NEW h, NEW buf, PeekedAt(h, buf),
           classify_tcp_client_hello(buf, ServerSecret) = "Claim"
    PROVE  Genuine(h)
<1> DEFINE rec == Records(buf)
           hs == HsLen(buf)
           len == 2 + hs
           v == classify_tcp_client_hello_within_limit(buf, ServerSecret)
           x == [i \in 1..len |-> CellAt(buf, i)]
           total == Carried(h.sizes)[Len(h.sizes) + 1]
<1>1. v = "Claim"
  BY DEF classify_tcp_client_hello
<1>2. PICK l \in Nat : ReadUpTo(h, Len(buf), rec, l)
  BY RecordsOf
<1>3. /\ AtIs(h, rec.at, l) /\ Len(rec.at) = l /\ l <= total
      /\ rec.end # "Claim" /\ rec.end # "Ok"
  BY <1>2 DEF ReadUpTo, AtIs
<1>4. \A u : ReadTo(buf, u) # "Claim" /\ (ReadTo(buf, u) = "Ok" => ~(u > Len(rec.at)))
  BY <1>3, ReadToIs
<1>5. /\ ~(Len(rec.at) < 2) /\ ReadTo(buf, len) = "Ok"
      /\ ~(rec.at[len] > MAX_TCP_CLIENT_HELLO_WIRE_LEN)
      /\ classify_session_id(x, ServerSecret) = "Claim"
  <2> HIDE DEF rec, hs, x
  <2> QED BY <1>1, <1>3, <1>4, WithinIs DEF rec, hs, x
<1>6. l >= 2 /\ ~(len > l)
  BY <1>3, <1>4, <1>5
<1>7. \A i \in 1..l : CellAt(buf, i) = h.message[i]
  BY <1>2, CellsAre DEF CellAt
<1>8. IsMessage(h.message) /\ total <= Len(h.message) /\ h.sizes \in Seq(Nat)
  BY DEF PeekedAt, IsFlight
<1>9. /\ Len(h.message) \in Nat /\ Len(h.message) >= 2 /\ l <= Len(h.message) /\ total \in Nat
      /\ IsTuple(h.message)
  <2>1. total \in Nat
    BY <1>8, CarriedIs
  <2>2. Len(h.message) \in Nat /\ IsTuple(h.message)
    BY <1>8 DEF IsMessage, IsTuple
  <2> HIDE DEF total
  <2> QED BY <1>3, <1>6, <1>8, <2>1, <2>2
<1>10. hs = h.message[2][1] /\ hs \in Nat
  <2>1. 2 \in 1..l
    BY <1>6
  <2>2. CellAt(buf, 2) = h.message[2]
    BY <1>7, <2>1
  <2>3. h.message[2][1] \in Nat
    BY <1>8, <1>9 DEF IsMessage, HANDSHAKE_HEADER_LEN
  <2> QED BY <2>2, <2>3 DEF HsLen
<1> HIDE DEF hs
<1>11. len \in Nat /\ len <= l /\ len \in 1..l /\ len <= Len(h.message)
  BY <1>6, <1>9, <1>10
<1>12. x = SubSeq(h.message, 1, len)
  <2>1. SubSeq(h.message, 1, len) = [i \in 1..len |-> h.message[i]]
    BY <1>9, <1>11, PrefixIs
  <2>2. \A i \in 1..len : i \in 1..l
    BY <1>11
  <2>3. \A i \in 1..len : CellAt(buf, i) = h.message[i]
    BY <1>7, <2>2
  <2> HIDE DEF len
  <2> QED BY <2>1, <2>3
<1>13. PICK j \in 1..Len(h.sizes) : /\ len <= Carried(h.sizes)[j + 1]
                                   /\ rec.at[len] = len + 2 * j
  <2> HIDE DEF len
  <2> QED BY <1>2, <1>11, CellsAre
<1>14. verify_legacy_session_id(SubSeq(h.message, 1, len), ServerSecret)
  <2> HIDE DEF x
  <2> QED BY <1>5, <1>12 DEF classify_session_id
<1>15. j * 2 + len <= MAX_TCP_CLIENT_HELLO_WIRE_LEN
  <2>1. Len(h.sizes) \in Nat
    BY <1>8
  <2>2. ~(len + 2 * j > MAX_TCP_CLIENT_HELLO_WIRE_LEN)
    BY <1>5, <1>13
  <2> QED BY <1>11, <2>1, <2>2, FieldAssumption
<1>16. Carried(h.sizes)[j + 1] >= len
  <2>1. Carried(h.sizes)[j + 1] \in Nat
    <3>1. Carried(h.sizes) \in [1..Len(h.sizes) + 1 -> Nat] /\ Len(h.sizes) \in Nat
      BY <1>8, CarriedIs
    <3>2. j + 1 \in 1..Len(h.sizes) + 1
      BY <3>1
    <3> QED BY <3>1, <3>2
  <2> QED BY <1>11, <1>13, <2>1
<1>17. HANDSHAKE_HEADER_LEN + h.message[2][1] = len
  BY <1>10 DEF HANDSHAKE_HEADER_LEN
<1> HIDE DEF len
<1> QED BY <1>9, <1>11, <1>14, <1>15, <1>16, <1>17
        DEF Genuine, HANDSHAKE_HEADER_LEN, TLS_RECORD_HEADER_LEN

LEMMA GenuineIsHeld ==
    ASSUME NEW h, NEW buf, PeekedAt(h, buf), Genuine(h)
    PROVE  classify_tcp_client_hello(buf, ServerSecret) # "Pass"
<1> DEFINE rec == Records(buf)
           msg == h.message
           hs == msg[2][1]
           len == 2 + hs
           v == classify_tcp_client_hello_within_limit(buf, ServerSecret)
           x == SubSeq(msg, 1, len)
           c == Carried(h.sizes)
           m == Len(h.sizes)
           max == MAX_TCP_CLIENT_HELLO_WIRE_LEN
<1>1. /\ IsMessage(msg) /\ c[m + 1] <= Len(msg) /\ h.sizes \in Seq(Nat) /\ Len(buf) \in Nat
      /\ max \in Nat
  BY FieldAssumption DEF PeekedAt, IsFlight, IsTuple
<1>2. /\ Len(msg) >= 2 /\ len <= Len(msg) /\ verify_legacy_session_id(x, ServerSecret)
      /\ \E k \in 1..m : c[k + 1] >= len /\ k * 2 + len <= max
  BY DEF Genuine, HANDSHAKE_HEADER_LEN, TLS_RECORD_HEADER_LEN
<1>3. IsTuple(msg) /\ Len(msg) \in Nat /\ hs \in Nat /\ len \in Nat
  <2>1. IsTuple(msg) /\ Len(msg) \in Nat
    BY <1>1 DEF IsMessage, IsTuple
  <2>2. hs \in Nat
    BY <1>1, <1>2, <2>1 DEF IsMessage, HANDSHAKE_HEADER_LEN
  <2> HIDE DEF hs
  <2> QED BY <2>1, <2>2
<1>4. m \in Nat /\ c \in [1..m + 1 -> Nat]
  BY <1>1, CarriedIs
<1>5. \A i, j \in 1..m + 1 : i <= j => c[i] <= c[j]
  BY <1>1, CarriedGrows
<1>6. x = [i \in 1..len |-> msg[i]] /\ Len(x) = len /\ \A i \in 1..len : x[i] = msg[i]
  <2>1. x = [i \in 1..len |-> msg[i]]
    BY <1>2, <1>3, PrefixIs
  <2>2. Len(x) = len /\ \A i \in 1..len : x[i] = msg[i]
    BY <1>2, <1>3, TuplePart
  <2> QED BY <2>1, <2>2
<1> HIDE DEF hs, c, m
<1>7. PICK k \in 1..m : c[k + 1] >= len /\ k * 2 + len <= max
  BY <1>2
<1>8. /\ len >= 8 /\ msg[1] = HANDSHAKE_TYPE_CLIENT_HELLO
      /\ msg[6] = LEGACY_SESSION_ID_LEN
      /\ msg[7] = candidate_session_id_tag(msg[4], ServerSecret)
  <2>1. client_hello_layout(x)
    BY <1>2 DEF verify_legacy_session_id
  <2>2. /\ Len(x) >= 8 /\ x[1] = HANDSHAKE_TYPE_CLIENT_HELLO
        /\ x[6] = LEGACY_SESSION_ID_LEN
    BY <2>1 DEF client_hello_layout, SESSION_ID, SESSION_ID_LEN
  <2>3. len >= 8
    BY <1>6, <2>2
  <2>4. 1 \in 1..len /\ 6 \in 1..len /\ 7 \in 1..len /\ 4 \in 1..len
    BY <1>3, <2>3
  <2>5. session_id(x)[1] = candidate_session_id_tag(x[4], ServerSecret)
    <3> DEFINE t == candidate_session_id_tag(x[4], ServerSecret)
               u == complete_claim_tag(x, ServerSecret)
    <3>1. session_id(x) = <<t, u>>
      BY <1>2 DEF verify_legacy_session_id, RANDOM_PREFIX
    <3> HIDE DEF t, u, x
    <3>2. session_id(x)[1] = t
      BY <3>1
    <3> QED BY <3>2 DEF t
  <2>6. session_id(x)[1] = x[7]
    <3>1. IsTuple(x)
      BY <1>3, <1>2, TuplePart
    <3>2. PICK S : x \in Seq(S)
      BY <3>1, TupleIs
    <3>3. session_id(x) = SubSeq(x, 7, 8)
      BY DEF session_id, SESSION_ID
    <3> HIDE DEF x
    <3> QED BY <1>6, <2>3, <3>2, <3>3
  <2> HIDE DEF x
  <2> QED BY <1>6, <2>2, <2>3, <2>4, <2>5, <2>6
<1>9. c[k + 1] \in Nat /\ c[m + 1] \in Nat /\ c[k + 1] <= c[m + 1] /\ len <= c[m + 1] /\ k \in Nat
  <2>1. k + 1 \in 1..m + 1 /\ m + 1 \in 1..m + 1 /\ k + 1 <= m + 1 /\ k \in Nat
    BY <1>4
  <2>2. c[k + 1] \in Nat /\ c[m + 1] \in Nat /\ c[k + 1] <= c[m + 1]
    BY <1>4, <1>5, <2>1
  <2> HIDE DEF len
  <2> QED BY <1>3, <1>7, <2>1, <2>2
<1>10. PICK j \in 1..m : c[j] < len /\ len <= c[j + 1]
  <2>1. 1 <= len
    BY <1>3
  <2> HIDE DEF len
  <2> QED BY <1>1, <1>3, <1>9, <2>1, RecordOfCell DEF c, m
<1>11. len + 2 * j <= max /\ 2 + len <= max /\ j \in Nat
  <2>1. /\ j \in Nat /\ 1 <= j /\ j \in 1..m + 1 /\ k + 1 \in 1..m + 1 /\ j <= m
    BY <1>4
  <2>2. ASSUME k + 1 <= j PROVE FALSE
    <3>1. c[k + 1] <= c[j] /\ c[j] \in Nat
      BY <1>4, <1>5, <2>1, <2>2
    <3> HIDE DEF len
    <3> QED BY <1>3, <1>7, <1>9, <1>10, <3>1
  <2>3. j <= k
    BY <1>9, <2>1, <2>2
  <2> HIDE DEF len, max
  <2> QED BY <1>1, <1>3, <1>7, <1>9, <2>1, <2>3
<1>12. PICK l \in Nat : ReadUpTo(h, Len(buf), rec, l)
  BY RecordsOf
<1>13. /\ AtIs(h, rec.at, l) /\ Len(rec.at) = l /\ l <= c[m + 1]
       /\ (l < c[m + 1] => rec.end = "Incomplete")
  BY <1>12 DEF ReadUpTo, AtIs, c, m
<1>14. \A i \in 1..l : CellAt(buf, i) = msg[i]
  BY <1>12, CellsAre DEF CellAt
<1>15. l < len => rec.end = "Incomplete" /\ Len(buf) < max
  <2> SUFFICES ASSUME l < len PROVE rec.end = "Incomplete" /\ Len(buf) < max
    OBVIOUS
  <2>1. l < c[m + 1]
    <3> HIDE DEF len
    <3> QED BY <1>3, <1>9
  <2>2. Arrived(h, Len(buf), l)
    BY <1>12 DEF ReadUpTo
  <2>3. len <= l <=> len + 2 * j <= Len(buf)
    <3> HIDE DEF len
    <3> QED BY <1>3, <1>10, <2>2 DEF Arrived, c, m
  <2>4. Len(buf) < max
    <3> HIDE DEF len, max
    <3> QED BY <1>1, <1>3, <1>11, <2>3
  <2> QED BY <1>13, <2>1, <2>4
<1>16. l >= 2 => HsLen(buf) = hs
  <2> SUFFICES ASSUME l >= 2 PROVE HsLen(buf) = hs
    OBVIOUS
  <2>1. 2 \in 1..l
    OBVIOUS
  <2> QED BY <1>14, <2>1 DEF HsLen, hs
<1>17. ASSUME l >= 2, NEW u \in Nat, u <= len
       PROVE  ReadTo(buf, u) = (IF l < u THEN "Incomplete" ELSE "Ok") /\ (l < u => l < len)
  <2>1. ReadTo(buf, u) = IF u > len THEN "Pass" ELSE IF u > l THEN rec.end ELSE "Ok"
    BY <1>13, <1>16, <1>17, ReadToIs
  <2> HIDE DEF len, rec
  <2> QED BY <1>3, <1>15, <1>17, <2>1
<1>18. v \in {"Claim", "Incomplete"} /\ (v = "Incomplete" => l < len)
  <2>1. CASE l < 2
    <3>1. l < len
      BY <1>8, <1>3, <2>1
    <3>2. v = rec.end
      BY <1>13, <2>1, WithinIs
    <3> HIDE DEF v, rec, len
    <3> QED BY <1>15, <3>1, <3>2
  <2>2. CASE l >= 2
    <3>1. v = IF ReadTo(buf, 3) # "Ok" THEN ReadTo(buf, 3)
              ELSE IF ReadTo(buf, 5) # "Ok" THEN ReadTo(buf, 5)
              ELSE IF ReadTo(buf, 6) # "Ok" THEN ReadTo(buf, 6)
              ELSE IF CellAt(buf, 6) # LEGACY_SESSION_ID_LEN THEN "Pass"
              ELSE IF ReadTo(buf, 8) # "Ok" THEN ReadTo(buf, 8)
              ELSE IF CellAt(buf, 7) # candidate_session_id_tag(CellAt(buf, 4), ServerSecret)
                   THEN "Pass"
              ELSE IF ReadTo(buf, len) # "Ok" THEN ReadTo(buf, len)
              ELSE IF rec.at[len] > max THEN "Pass"
              ELSE classify_session_id([i \in 1..len |-> CellAt(buf, i)], ServerSecret)
      <4>1. ~(Len(rec.at) < 2) /\ HsLen(buf) = hs /\ 8 - 1 = 7
        BY <1>13, <1>16, <2>2
      <4>2. CellAt(buf, 1) = HANDSHAKE_TYPE_CLIENT_HELLO
        <5>1. 1 \in 1..l
          BY <2>2
        <5> QED BY <1>8, <1>14, <5>1
      <4>3. ~(2 + (2 + HsLen(buf)) > max)
        BY <1>1, <1>3, <1>11, <4>1
      <4> HIDE DEF hs
      <4> QED BY <4>1, <4>2, <4>3, WithinIs
    <3>2. \A u \in {3, 5, 6, 8, len} : u \in Nat /\ u <= len
      BY <1>3, <1>8
    <3>3. \A u \in {3, 5, 6, 8, len} :
            ReadTo(buf, u) = (IF l < u THEN "Incomplete" ELSE "Ok") /\ (l < u => l < len)
      BY <1>17, <2>2, <3>2
    <3>4. l >= 6 => CellAt(buf, 6) = LEGACY_SESSION_ID_LEN
      <4> SUFFICES ASSUME l >= 6 PROVE CellAt(buf, 6) = LEGACY_SESSION_ID_LEN
        OBVIOUS
      <4>1. 6 \in 1..l
        OBVIOUS
      <4> QED BY <1>8, <1>14, <4>1
    <3>5. l >= 8 => CellAt(buf, 7) = candidate_session_id_tag(CellAt(buf, 4), ServerSecret)
      <4> SUFFICES ASSUME l >= 8
                   PROVE  CellAt(buf, 7) = candidate_session_id_tag(CellAt(buf, 4), ServerSecret)
        OBVIOUS
      <4>1. 7 \in 1..l /\ 4 \in 1..l
        OBVIOUS
      <4>2. CellAt(buf, 7) = msg[7] /\ CellAt(buf, 4) = msg[4]
        BY <1>14, <4>1
      <4> QED BY <1>8, <4>2
    <3>6. l >= len => rec.at[len] = len + 2 * j
      <4> SUFFICES ASSUME l >= len PROVE rec.at[len] = len + 2 * j
        OBVIOUS
      <4>1. len \in 1..l
        BY <1>3
      <4> HIDE DEF len
      <4> QED BY <1>10, <1>13, <4>1 DEF AtIs, c, m
    <3>7. l >= len => [i \in 1..len |-> CellAt(buf, i)] = x
      <4> SUFFICES ASSUME l >= len PROVE [i \in 1..len |-> CellAt(buf, i)] = x
        OBVIOUS
      <4>1. \A i \in 1..len : i \in 1..l
        BY <1>3
      <4> HIDE DEF len, x
      <4> QED BY <1>6, <1>14, <4>1
    <3>8. classify_session_id(x, ServerSecret) = "Claim"
      BY <1>2 DEF classify_session_id
    <3>9. CASE l < len
      <4>1. v = "Incomplete"
        <5>1. ReadTo(buf, len) = "Incomplete"
          BY <3>3, <3>9
        <5>2. ReadTo(buf, 6) = "Ok" => l >= 6
          BY <3>3
        <5>3. ReadTo(buf, 8) = "Ok" => l >= 8
          BY <3>3
        <5>4. \A u \in {3, 5, 6, 8} : ReadTo(buf, u) # "Ok" => ReadTo(buf, u) = "Incomplete"
          BY <3>3
        <5> HIDE DEF v, len, x
        <5> QED BY <3>1, <3>4, <3>5, <5>1, <5>2, <5>3, <5>4
      <4> QED BY <3>9, <4>1
    <3>10. CASE ~(l < len)
      <4>1. l >= len /\ l >= 8 /\ l >= 6
        BY <1>3, <1>8, <3>10
      <4>2. \A u \in {3, 5, 6, 8, len} : ReadTo(buf, u) = "Ok"
        BY <1>3, <1>8, <3>3, <4>1
      <4>3. ~(rec.at[len] > max)
        BY <1>1, <1>3, <1>11, <3>6, <4>1
      <4>4. v = "Claim"
        <5> HIDE DEF v, len, x, rec, max
        <5> QED BY <3>1, <3>4, <3>5, <3>7, <3>8, <4>1, <4>2, <4>3
      <4> QED BY <4>4
    <3> QED BY <3>9, <3>10
  <2> QED BY <2>1, <2>2
<1>19. v = "Incomplete" => ~(Len(buf) >= max)
  <2> HIDE DEF max, v, len
  <2> QED BY <1>1, <1>15, <1>18
<1> HIDE DEF v
<1> QED BY <1>18, <1>19 DEF classify_tcp_client_hello, v

------------------------------------------------------------------------------
(* The claim of the server and the token of the client                     *)

\* Which flight it is does not depend on how much of it was peeked at.
SameFlight(g, h) == g.message = h.message /\ g.sizes = h.sizes /\ g.tail = h.tail

LEMMA SameFlightIs ==
    ASSUME NEW g, NEW h, SameFlight(g, h)
    PROVE  (IsFlight(g) <=> IsFlight(h)) /\ (Genuine(g) <=> Genuine(h))
<1>1. g.message = h.message /\ g.sizes = h.sizes /\ g.tail = h.tail
  BY DEF SameFlight
<1>2. IsFlight(g) <=> IsFlight(h)
  BY <1>1, Zenon DEF IsFlight
<1>3. Genuine(g) <=> Genuine(h)
  BY <1>1, Zenon DEF Genuine
<1> QED BY <1>2, <1>3

LEMMA NoFlightIsNone ==
    IsFlight(NoFlight) /\ ~Genuine(NoFlight) /\ NoFlight.message = <<>> /\ NoFlight.tokens = <<>>
<1>1. /\ NoFlight.message = <<>> /\ NoFlight.sizes = <<>> /\ NoFlight.tail = <<>>
      /\ NoFlight.tokens = <<>>
  BY DEF NoFlight
<1>2. Len(<<>>) = 0 /\ <<>> = [i \in 1..0 |-> <<>>[i]] /\ <<>> \in Seq(Nat)
  OBVIOUS
<1>3. IsTuple(<<>>)
  BY <1>2 DEF IsTuple
<1>4. IsMessage(<<>>)
  BY <1>2, <1>3 DEF IsMessage, HANDSHAKE_HEADER_LEN
<1>5. Carried(<<>>)[Len(<<>>) + 1] <= Len(<<>>)
  <2>1. Carried(<<>>)[1] = 0
    BY <1>2, CarriedIs
  <2> QED BY <1>2, <2>1
<1>6. IsFlight(NoFlight)
  BY <1>1, <1>2, <1>3, <1>4, <1>5 DEF IsFlight
<1>7. ~Genuine(NoFlight)
  BY <1>1, <1>2 DEF Genuine, HANDSHAKE_HEADER_LEN
<1> QED BY <1>1, <1>6, <1>7

LEMMA SessionIdIs ==
    ASSUME NEW s, IsTuple(s), Len(s) >= 8
    PROVE  session_id(s) = <<s[7], s[8]>>
<1>1. PICK S : s \in Seq(S)
  BY TupleIs
<1>2. Len(s) \in Nat
  BY DEF IsTuple
<1>3. session_id(s) = SubSeq(s, 7, 8)
  BY DEF session_id, SESSION_ID
<1> DEFINE t == SubSeq(s, 7, 8)
<1>4. t \in Seq(S) /\ Len(t) = 2 /\ t[1] = s[7] /\ t[2] = s[8]
  BY <1>1, <1>2
<1> HIDE DEF t
<1>5. t = <<t[1], t[2]>>
  BY <1>4
<1> QED BY <1>3, <1>4, <1>5 DEF t

\* What is done to cells 7 and 8 of a message, or to a later one.
WithCells(s, a, b) == [s EXCEPT ![7] = a, ![8] = b]

IsWithCells(s, a, b, t) ==
    /\ IsTuple(t) /\ Len(t) = Len(s) /\ t[7] = a /\ t[8] = b
    /\ t[2] = s[2] /\ t[4] = s[4]

LEMMA TwoCells ==
    ASSUME NEW s, IsTuple(s), Len(s) >= 8, NEW a, NEW b
    PROVE  IsWithCells(s, a, b, WithCells(s, a, b))
<1> DEFINE n == Len(s)
           t == [s EXCEPT ![7] = a, ![8] = b]
<1>1. n \in Nat /\ s = [i \in 1..n |-> s[i]] /\ DOMAIN s = 1..n /\ n >= 8
  BY TupleIs DEF IsTuple
<1> HIDE DEF n
<1>2. /\ DOMAIN t = 1..n /\ t = [i \in 1..n |-> t[i]]
  BY <1>1
<1>3. t[7] = a /\ t[8] = b /\ t[2] = s[2] /\ t[4] = s[4]
  BY <1>1
<1>4. WithCells(s, a, b) = t
  BY DEF WithCells
<1> HIDE DEF t
<1>5. Len(t) = n
  BY <1>1, <1>2
<1>6. IsTuple(t)
  BY <1>1, <1>2, <1>5 DEF IsTuple
<1> QED BY <1>3, <1>4, <1>5, <1>6 DEF n, IsWithCells

LEMMA LastCell ==
    ASSUME NEW s, IsTuple(s), Len(s) > 8, NEW a
    PROVE  LET t == [s EXCEPT ![Len(s)] = a]
           IN  /\ IsTuple(t) /\ Len(t) = Len(s) /\ t[7] = s[7] /\ t[8] = s[8] /\ t[4] = s[4]
<1> DEFINE n == Len(s)
           t == [s EXCEPT ![n] = a]
<1>1. n \in Nat /\ s = [i \in 1..n |-> s[i]] /\ DOMAIN s = 1..n /\ n > 8
  BY TupleIs DEF IsTuple
<1> HIDE DEF n
<1>2. DOMAIN t = 1..n /\ t = [i \in 1..n |-> t[i]]
  BY <1>1
<1>3. t[7] = s[7] /\ t[8] = s[8] /\ t[4] = s[4]
  BY <1>1
<1> HIDE DEF t
<1>4. Len(t) = n
  BY <1>1, <1>2
<1>5. IsTuple(t)
  BY <1>1, <1>2, <1>4 DEF IsTuple
<1> QED BY <1>3, <1>4, <1>5 DEF t, n

OwnMessage == client_hello_session_id_callback(OwnHello, ServerSecret)

LEMMA CallbackIs ==
    ASSUME NEW s, IsTuple(s), Len(s) >= 8
    PROVE  LET t == client_hello_session_id_callback(s, ServerSecret)
               id == fill_legacy_session_id(s, ServerSecret)
           IN  /\ IsTuple(t) /\ Len(t) = Len(s) /\ t[7] = id[1] /\ t[8] = id[2]
               /\ t[2] = s[2] /\ t[4] = s[4]
               /\ id[1] = candidate_session_id_tag(s[4], ServerSecret)
               /\ s[7] = candidate_session_id_tag(s[4], ServerSecret)
                    => id[1] = s[7] /\ id[2] = s[8]
<1> DEFINE t == client_hello_session_id_callback(s, ServerSecret)
           id == fill_legacy_session_id(s, ServerSecret)
           cand == candidate_session_id_tag(s[4], ServerSecret)
           claim == complete_claim_tag(s, ServerSecret)
<1>1. t = WithCells(s, id[1], id[2])
  <2>1. SESSION_ID - 1 = 7 /\ SESSION_ID = 8
    BY DEF SESSION_ID
  <2> HIDE DEF id
  <2> QED BY <2>1 DEF client_hello_session_id_callback, id, WithCells
<1>2. id = IF session_id(s)[1] = cand THEN session_id(s) ELSE <<cand, claim>>
  BY DEF fill_legacy_session_id, RANDOM_PREFIX
<1>3. session_id(s) = <<s[7], s[8]>>
  BY SessionIdIs
<1> HIDE DEF t, id, cand, claim
<1>4. id[1] = cand /\ (s[7] = cand => id[1] = s[7] /\ id[2] = s[8])
  BY <1>2, <1>3
<1>5. /\ IsTuple(t) /\ Len(t) = Len(s) /\ t[7] = id[1] /\ t[8] = id[2]
      /\ t[2] = s[2] /\ t[4] = s[4]
  BY <1>1, TwoCells DEF IsWithCells
<1> QED BY <1>4, <1>5 DEF t, id, cand

LEMMA OwnMessageIs ==
    /\ IsMessage(OwnMessage) /\ Len(OwnMessage) > 8
    /\ OwnMessage[7] = candidate_session_id_tag(OwnMessage[4], ServerSecret)
<1>1. IsMessage(OwnHello) /\ Len(OwnHello) > 8
  BY FlightAssumption, WireAssumption DEF SESSION_ID
<1>2. IsTuple(OwnHello) /\ Len(OwnHello) \in Nat /\ OwnHello[2][1] \in Nat
  BY <1>1 DEF IsMessage, IsTuple, HANDSHAKE_HEADER_LEN
<1>3. Len(OwnHello) >= 8
  BY <1>1, <1>2
<1>4. /\ IsTuple(OwnMessage) /\ Len(OwnMessage) = Len(OwnHello) /\ OwnMessage[2] = OwnHello[2]
      /\ OwnMessage[4] = OwnHello[4]
      /\ OwnMessage[7] = candidate_session_id_tag(OwnHello[4], ServerSecret)
  BY <1>2, <1>3, CallbackIs DEF OwnMessage
<1>5. IsMessage(OwnMessage)
  BY <1>2, <1>4 DEF IsMessage
<1> QED BY <1>1, <1>4, <1>5

\* fill_legacy_session_id, for a second ClientHello.
LEMMA RetryKeepsToken ==
    LET second == [OwnMessage EXCEPT ![Len(OwnMessage)] = <<0>>]
    IN  session_id(client_hello_session_id_callback(second, ServerSecret)) = session_id(OwnMessage)
<1> DEFINE first == OwnMessage
           second == [first EXCEPT ![Len(first)] = <<0>>]
           t == client_hello_session_id_callback(second, ServerSecret)
           id == fill_legacy_session_id(second, ServerSecret)
<1>1. /\ IsTuple(first) /\ Len(first) > 8 /\ Len(first) \in Nat
      /\ first[7] = candidate_session_id_tag(first[4], ServerSecret)
  BY OwnMessageIs DEF IsMessage, IsTuple
<1> HIDE DEF first
<1>2. /\ IsTuple(second) /\ Len(second) = Len(first) /\ second[7] = first[7]
      /\ second[8] = first[8] /\ second[4] = first[4]
  BY <1>1, LastCell
<1> HIDE DEF second
<1>3. Len(second) >= 8 /\ Len(first) >= 8
  BY <1>1, <1>2
<1>4. /\ IsTuple(t) /\ Len(t) = Len(second) /\ t[7] = id[1] /\ t[8] = id[2]
      /\ second[7] = candidate_session_id_tag(second[4], ServerSecret)
            => id[1] = second[7] /\ id[2] = second[8]
  BY <1>2, <1>3, CallbackIs
<1> HIDE DEF t, id
<1>5. t[7] = first[7] /\ t[8] = first[8]
  BY <1>1, <1>2, <1>4
<1>6. session_id(t) = <<t[7], t[8]>> /\ session_id(first) = <<first[7], first[8]>>
  BY <1>1, <1>3, <1>4, SessionIdIs
<1> QED BY <1>5, <1>6 DEF t, second, first

LEMMA FirstFlightIs ==
    /\ IsFlight(FirstFlight) /\ FirstFlight.message = OwnMessage
    /\ FirstFlight.tokens = <<session_id(OwnMessage)>>
<1> DEFINE m == OwnMessage
           n == Len(m)
           s == <<n>>
<1>1. IsMessage(m) /\ n \in Nat
  BY OwnMessageIs DEF IsMessage, IsTuple
<1>2. FirstFlight = [message |-> m, sizes |-> s, tail |-> <<>>, peeked |-> 0,
                     tokens |-> <<session_id(m)>>]
  BY DEF FirstFlight, Flight, OwnMessage
<1> HIDE DEF m, n
<1>3. /\ FirstFlight.message = m /\ FirstFlight.sizes = s /\ FirstFlight.tail = <<>>
      /\ FirstFlight.tokens = <<session_id(m)>>
  BY <1>2
<1>4. s \in Seq(Nat) /\ Len(s) = 1 /\ s[1] = n
  BY <1>1
<1> HIDE DEF s
<1>5. Carried(s)[Len(s) + 1] <= n
  <2>1. Carried(s)[1] = 0 /\ \A k \in 1..Len(s) : Carried(s)[k + 1] = Carried(s)[k] + s[k]
    BY <1>4, CarriedIs
  <2>2. 1 \in 1..Len(s)
    BY <1>4
  <2>3. Carried(s)[1 + 1] = 0 + n
    BY <1>4, <2>1, <2>2
  <2> QED BY <1>1, <1>4, <2>3
<1>6. IsTuple(<<>>)
  <2>1. Len(<<>>) = 0 /\ <<>> = [i \in 1..0 |-> <<>>[i]]
    OBVIOUS
  <2> QED BY <2>1 DEF IsTuple
<1>7. IsFlight(FirstFlight)
  BY <1>1, <1>3, <1>4, <1>5, <1>6 DEF IsFlight, n
<1> QED BY <1>3, <1>7 DEF m

\* The server at the door: what it claims is genuine, what it has passed on is not, and
\* once it is past the handshake, or runs other code, there is no flight to judge.
DoorOK(n, h) ==
    /\ n.pc = "Tls" => Genuine(h)
    /\ n.result = "Passed" => ~Genuine(h)
    /\ n.pc \notin {"Peek", "Tls", "Done"} => h = NoFlight

TokensOK(h) == \A i \in 1..Len(h.tokens) : h.tokens[i] = session_id(h.message)

\* A client that runs this code has sealed its own ClientHello.
OwnerOK(n, h) == n.pc = "Connected" => h.message = <<>> \/ h.message = OwnMessage

ClaimInv ==
    /\ IsFlight(hello) /\ TokensOK(hello)
    /\ DoorOK(ends["Server"], hello) /\ OwnerOK(ends["Client"], hello)

LEMMA ClaimInit ==
    ASSUME Init
    PROVE  ClaimInv
<1>1. PICK c, s : /\ ends = NewEnds(c, s)
                  /\ \/ c = "Connected" /\ s = "Peek" /\ hello = FirstFlight
                     \/ c = "Connected" /\ s = "Foreign" /\ hello = NoFlight
                     \/ /\ c = "Foreign" /\ s = "Peek"
                        /\ \E f \in ForeignHellos : hello = Flight(f.message, f.sizes, f.tail)
  BY DEF Init
<1>2. ends["Client"] = NewEnd(c) /\ ends["Server"] = NewEnd(s)
  BY <1>1 DEF NewEnds, Endpoint
<1>3. /\ ends["Client"].pc = c /\ ends["Server"].pc = s /\ ends["Server"].result = "None"
  BY <1>2 DEF NewEnd
<1>4. ASSUME NEW t, hello.tokens = <<t>>, t = session_id(hello.message)
      PROVE  TokensOK(hello)
  <2>1. Len(<<t>>) = 1 /\ \A i \in 1..1 : <<t>>[i] = t
    OBVIOUS
  <2> QED BY <1>4, <2>1 DEF TokensOK
<1>5. CASE c = "Connected" /\ s = "Peek" /\ hello = FirstFlight
  BY <1>3, <1>4, <1>5, FirstFlightIs DEF ClaimInv, DoorOK, OwnerOK
<1>6. CASE c = "Connected" /\ s = "Foreign" /\ hello = NoFlight
  <2>1. Len(<<>>) = 0
    OBVIOUS
  <2>2. TokensOK(hello)
    BY <1>6, <2>1, NoFlightIsNone DEF TokensOK
  <2> QED BY <1>3, <1>6, <2>2, NoFlightIsNone DEF ClaimInv, DoorOK, OwnerOK
<1>7. ASSUME NEW f \in ForeignHellos, c = "Foreign", s = "Peek",
             hello = Flight(f.message, f.sizes, f.tail)
      PROVE  ClaimInv
  <2>1. /\ hello.message = f.message /\ hello.sizes = f.sizes /\ hello.tail = f.tail
        /\ hello.tokens = <<session_id(f.message)>>
    BY <1>7 DEF Flight
  <2>2. IsFlight(hello)
    BY <2>1, SameFlightIs, FlightAssumption DEF SameFlight
  <2>3. TokensOK(hello)
    BY <1>4, <2>1
  <2> QED BY <1>3, <1>7, <2>2, <2>3 DEF ClaimInv, DoorOK, OwnerOK
<1> QED BY <1>1, <1>5, <1>6, <1>7

\* A step of the client leaves the server alone.
LEMMA ClientSteps ==
    ASSUME EndsOK, StateOK, EndMoves("Client") \/ read_more("Client") \/ Elsewhere
    PROVE  ends'["Server"] = ends["Server"]
<1>1. "Client" \in Endpoint /\ Peer("Client") = "Server"
  BY DEF Endpoint, Peer
<1>2. CASE EndMoves("Client")
  <2>1. PICK n, bytes, in, out : Step("Client", n, bytes) /\ Mech("Client", n, bytes, in, out)
    BY <1>2 DEF EndMoves
  <2>2. n \in End /\ bytes \in Seq(Byte)
    BY <2>1 DEF Mech
  <2> QED BY <1>1, <2>1, <2>2, StepIs
<1>3. CASE read_more("Client")
  BY <1>1, <1>3, ReadIs
<1>4. CASE Elsewhere
  BY <1>4 DEF Elsewhere
<1> QED BY <1>2, <1>3, <1>4

\* What can happen while the server looks at the first flight or is in its handshake.
LEMMA AtTheDoor ==
    ASSUME EndsOK, StateOK, Next, ends["Server"].pc \in {"Peek", "Tls"}
    PROVE  \/ classify_stream \/ ClassificationFails \/ tls_handshake \/ AuthTimeout("Server")
           \/ HelloRetryRequest
           \/ ends'["Server"] = ends["Server"] /\ UNCHANGED hello
<1>1. "Client" \in Endpoint /\ "Server" \in Endpoint
  BY DEF Endpoint
<1>2. ASSUME NEW e \in Endpoint, EndStep(e) PROVE UNCHANGED hello
  BY <1>2 DEF EndStep, read_more, ReadEof, ReadFails, AuthTimeout, handle_tcp_read,
              SessionSends, handle_tun_packet, SessionCloses, ForeignWrites, ForeignLeaves
<1>3. CASE EndStep("Server")
  <2>1. AuthTimeout("Server")
    BY <1>3 DEF EndStep, read_more, ReadEof, ReadFails, Reading, handle_tcp_read,
                SessionSends, handle_tun_packet, SessionCloses, SessionPc, ForeignWrites,
                ForeignLeaves
  <2> QED BY <2>1
<1>4. CASE EndStep("Client")
  <2>1. EndMoves("Client") \/ read_more("Client") \/ Elsewhere
    BY <1>1, <1>4, EndStepIs
  <2> QED BY <1>1, <1>2, <1>4, <2>1, ClientSteps
<1>5. CASE ConnectFails
  <2>1. EndMoves("Client") /\ UNCHANGED hello
    BY <1>5, LeavingMoves DEF ConnectFails
  <2> QED BY <2>1, ClientSteps
<1>6. CASE send_auth
  <2>1. EndMoves("Client") /\ UNCHANGED hello
    BY <1>6, SendAuthMoves DEF send_auth
  <2> QED BY <2>1, ClientSteps
<1>7. CASE ClientAuthDrains
  <2>1. EndMoves("Client") /\ UNCHANGED hello
    BY <1>7, ClientAuthMoves DEF ClientAuthDrains
  <2> QED BY <2>1, ClientSteps
<1>8. CASE NetworkFails
  BY <1>8 DEF NetworkFails
<1>9. ~run_auth_loop /\ ~CancelledWriting
  BY DEF run_auth_loop, CancelledWriting
<1>10. ASSUME \E e \in Endpoint : EndStep(e) PROVE EndStep("Server") \/ EndStep("Client")
  BY <1>10 DEF Endpoint
<1> QED BY <1>3, <1>4, <1>5, <1>6, <1>7, <1>8, <1>9, <1>10 DEF Next

\* Past the door, or out of it.
LEMMA PastTheDoor ==
    ASSUME EndsOK, StateOK, Next, ends["Server"].pc \notin {"Peek", "Tls"}
    PROVE  /\ UNCHANGED hello /\ ends'["Server"].pc \notin {"Peek", "Tls"}
           /\ ends["Server"].pc = "Done" => ends'["Server"] = ends["Server"]
<1>1. UNCHANGED hello
  BY DEF Next, EndStep, read_more, ReadEof, ReadFails, AuthTimeout, handle_tcp_read,
         SessionSends, handle_tun_packet, SessionCloses, ForeignWrites, ForeignLeaves,
         classify_stream, ClassificationFails, HelloRetryRequest, ConnectFails, send_auth,
         ClientAuthDrains, tls_handshake, run_auth_loop, CancelledWriting, NetworkFails
<1>2. CASE ends'["Server"] = ends["Server"]
  BY <1>1, <1>2
<1>3. CASE EndMoves("Client") \/ read_more("Client") \/ Elsewhere
  BY <1>2, <1>3, ClientSteps
<1>4. "Server" \in Endpoint
  BY DEF Endpoint
<1>5. CASE EndMoves("Server")
  <2>1. PICK n, bytes, in, out : /\ Step("Server", n, bytes) /\ Mech("Server", n, bytes, in, out)
                                 /\ Turn("Server", n, in, out)
    BY <1>5 DEF EndMoves
  <2>2. n \in End /\ bytes \in Seq(Byte)
    BY <2>1 DEF Mech
  <2>3. ends'["Server"] = n
    BY <1>4, <2>1, <2>2, StepIs
  <2>4. ends["Server"].pc # "Done"
    BY <2>1, TurnPc
  <2>5. n.pc \notin {"Peek", "Tls"}
    BY <2>1 DEF Turn, Idle, Leave, Refuse, SendAuth, Answer, Learn, AuthChat, Chat, SessionPc
  <2> QED BY <1>1, <2>3, <2>4, <2>5
<1>6. CASE read_more("Server")
  <2>1. \/ ends["Server"].pc = "Read" /\ ends'["Server"].pc = "Drain"
        \/ ends["Server"].pc = "AuthRead" /\ ends'["Server"].pc = "AuthDrain"
    BY <1>4, <1>6, ReadIs
  <2> QED BY <1>1, <2>1
<1> QED BY <1>3, <1>5, <1>6, NextIs DEF Endpoint

\* A client that is connected has been so all the time.
LEMMA StillConnected ==
    ASSUME EndsOK, StateOK, Next, ends'["Client"].pc = "Connected"
    PROVE  ends["Client"].pc = "Connected"
<1>1. "Client" \in Endpoint /\ "Server" \in Endpoint /\ Peer("Server") = "Client"
  BY DEF Endpoint, Peer
<1>2. ASSUME NEW e \in Endpoint, EndMoves(e) PROVE ends["Client"].pc = "Connected"
  <2>1. PICK n, bytes, in, out : /\ Step(e, n, bytes) /\ Mech(e, n, bytes, in, out)
                                 /\ Turn(e, n, in, out)
    BY <1>2 DEF EndMoves
  <2>2. n \in End /\ bytes \in Seq(Byte)
    BY <2>1 DEF Mech
  <2>3. ends'[e] = n /\ ends'[Peer(e)] = ends[Peer(e)]
    BY <2>1, <2>2, StepIs
  <2>4. n.pc # "Connected"
    BY <2>1 DEF Turn, Idle, Leave, Refuse, SendAuth, Answer, Learn, AuthChat, Chat, SessionPc
  <2>5. e = "Server"
    BY <2>3, <2>4 DEF Endpoint
  <2> QED BY <1>1, <2>3, <2>5
<1>3. ASSUME NEW e \in Endpoint, read_more(e) PROVE ends["Client"].pc = "Connected"
  <2>1. /\ ends'[Peer(e)] = ends[Peer(e)]
        /\ ends'[e].pc \in {"Drain", "AuthDrain"}
    BY <1>3, ReadIs
  <2>2. e = "Server"
    BY <2>1 DEF Endpoint
  <2> QED BY <1>1, <2>1, <2>2
<1>4. CASE Elsewhere
  BY <1>4 DEF Elsewhere
<1> QED BY <1>2, <1>3, <1>4, NextIs

LEMMA Peeked ==
    ASSUME NEW h, IsFlight(h), NEW n \in Nat, n <= Len(FlightCells(h))
    PROVE  PeekedAt(h, SubSeq(FlightCells(h), 1, n))
<1>1. IsTuple(FlightCells(h))
  BY FlightIsWire DEF WireIs
<1> QED BY <1>1, TuplePart DEF PeekedAt

\* Two versions of the flight that differ in what has been seen of it.
LEMMA SameClaim ==
    ASSUME ClaimInv, NEW g, SameFlight(g, hello), g.tokens = hello.tokens
    PROVE  /\ IsFlight(g) /\ TokensOK(g) /\ (Genuine(g) <=> Genuine(hello))
           /\ g.message = hello.message
<1>1. IsFlight(hello) /\ TokensOK(hello)
  BY DEF ClaimInv
<1>2. g.message = hello.message
  BY DEF SameFlight
<1>3. TokensOK(g)
  BY <1>1, <1>2 DEF TokensOK
<1> QED BY <1>1, <1>2, <1>3, SameFlightIs

LEMMA ServerFinishes ==
    ASSUME StateOK, NEW r \in Result, Finish("Server", ends["Server"], r)
    PROVE  ends'["Server"].pc = "Done" /\ ends'["Server"].result = r
<1> DEFINE n == Finished(ends["Server"], r)
<1>1. ends["Server"] \in End /\ "Server" \in Endpoint
  BY DEF StateOK, Endpoint
<1>2. n \in End /\ n.pc = "Done" /\ n.result = r
  BY <1>1, FinishedIs
<1>3. Step("Server", n, <<>>) /\ <<>> \in Seq(Byte)
  BY DEF Finish, Quiet
<1> HIDE DEF n
<1> QED BY <1>1, <1>2, <1>3, StepIs

LEMMA ServerQuiet ==
    ASSUME StateOK, NEW n \in End, Quiet("Server", n)
    PROVE  ends'["Server"] = n
<1>1. Step("Server", n, <<>>) /\ <<>> \in Seq(Byte) /\ "Server" \in Endpoint
  BY DEF Quiet, Endpoint
<1> QED BY <1>1, StepIs

LEMMA ClassifyKeepsClaim ==
    ASSUME ChannelInv, ClaimInv, classify_stream
    PROVE  IsFlight(hello') /\ TokensOK(hello') /\ DoorOK(ends'["Server"], hello')
           /\ hello'.message = hello.message
<1> DEFINE end == ends["Server"]
           g == hello'
<1>1. EndsOK /\ StateOK /\ HelloOK /\ "Server" \in Endpoint
  BY DEF ChannelInv, Endpoint
<1>2. PICK n \in 1..MAX_TCP_CLIENT_HELLO_WIRE_LEN :
        /\ n <= Len(FlightCells(hello)) /\ hello' = [hello EXCEPT !.peeked = n]
        /\ LET verdict == classify_tcp_client_hello(SubSeq(FlightCells(hello), 1, n), ServerSecret)
           IN  CASE verdict = "Claim" -> Quiet("Server", [end EXCEPT !.pc = "Tls"])
                 [] verdict = "Pass" -> Finish("Server", end, "Passed")
                 [] OTHER -> Quiet("Server", end)
  BY DEF classify_stream
<1> DEFINE buf == SubSeq(FlightCells(hello), 1, n)
           verdict == classify_tcp_client_hello(buf, ServerSecret)
<1>3. n \in Nat /\ IsFlight(hello)
  BY FieldAssumption DEF ClaimInv
<1>4. PeekedAt(hello, buf)
  BY <1>2, <1>3, Peeked
<1>5. SameFlight(g, hello) /\ g.tokens = hello.tokens
  BY <1>1, <1>2 DEF HelloOK, SameFlight
<1>6. /\ IsFlight(g) /\ TokensOK(g) /\ (Genuine(g) <=> Genuine(hello))
      /\ g.message = hello.message
  BY <1>5, SameClaim
<1>7. end \in End /\ end.pc = "Peek" /\ end.result = "None"
  <2>1. end \in End /\ Calm("Server", end)
    BY <1>1, EndsOKIs
  <2>2. end.pc = "Peek"
    BY DEF classify_stream
  <2> QED BY <2>1, <2>2 DEF Calm
<1>8. \/ verdict = "Claim" /\ Quiet("Server", [end EXCEPT !.pc = "Tls"])
      \/ verdict = "Pass" /\ Finish("Server", end, "Passed")
      \/ Quiet("Server", end)
  BY <1>2
<1> HIDE DEF g, verdict, buf
<1>9. CASE verdict = "Claim" /\ Quiet("Server", [end EXCEPT !.pc = "Tls"])
  <2> DEFINE t == [end EXCEPT !.pc = "Tls"]
  <2>1. "Tls" \in Pc
    BY DEF Pc
  <2>2. t \in End /\ t.pc = "Tls" /\ t.result = end.result
    BY <1>7, <2>1, PcIs
  <2> HIDE DEF t
  <2>3. ends'["Server"] = t
    BY <1>1, <1>9, <2>2, ServerQuiet DEF t
  <2>4. Genuine(hello)
    BY <1>4, <1>9, ClaimIsGenuine DEF verdict
  <2> QED BY <1>6, <1>7, <2>2, <2>3, <2>4 DEF DoorOK, g
<1>10. CASE verdict = "Pass" /\ Finish("Server", end, "Passed")
  <2>1. "Passed" \in Result
    BY DEF Result
  <2>2. ends'["Server"].pc = "Done"
    BY <1>1, <1>10, <2>1, ServerFinishes
  <2>3. ~Genuine(hello)
    BY <1>4, <1>10, GenuineIsHeld DEF verdict
  <2> QED BY <1>6, <2>2, <2>3 DEF DoorOK, g
<1>11. CASE Quiet("Server", end)
  <2>1. ends'["Server"] = end
    BY <1>1, <1>7, <1>11, ServerQuiet
  <2> QED BY <1>6, <1>7, <2>1 DEF DoorOK, g
<1> QED BY <1>8, <1>9, <1>10, <1>11

LEMMA RetryKeepsClaim ==
    ASSUME ChannelInv, ClaimInv, HelloRetryRequest
    PROVE  IsFlight(hello') /\ TokensOK(hello') /\ DoorOK(ends'["Server"], hello')
           /\ hello'.message = hello.message
<1> DEFINE g == hello'
           id == session_id(OwnMessage)
           t == hello.tokens
<1>1. HelloOK /\ "Server" \in Endpoint /\ IsFlight(hello) /\ TokensOK(hello)
      /\ DoorOK(ends["Server"], hello) /\ OwnerOK(ends["Client"], hello)
  BY DEF ChannelInv, ClaimInv, Endpoint
<1>2. /\ ends["Server"].pc = "Tls" /\ ends["Client"].pc = "Connected" /\ Len(t) = 1
      /\ UNCHANGED ends
  BY DEF HelloRetryRequest
<1>3. Genuine(hello)
  BY <1>1, <1>2 DEF DoorOK
<1>4. hello.message = OwnMessage
  <2>1. Len(<<>>) = 0 /\ (Genuine(hello) => Len(hello.message) >= 2)
    BY DEF Genuine, HANDSHAKE_HEADER_LEN
  <2>2. hello.message # <<>>
    BY <1>3, <2>1
  <2> QED BY <1>1, <1>2, <2>2 DEF OwnerOK
<1>5. g = [hello EXCEPT !.tokens = Append(t, id)]
  <2> DEFINE second == [OwnMessage EXCEPT ![Len(OwnMessage)] = <<0>>]
             new == session_id(client_hello_session_id_callback(second, ServerSecret))
  <2>1. g = [hello EXCEPT !.tokens = Append(t, new)]
    BY <1>4 DEF HelloRetryRequest
  <2>2. new = id
    BY RetryKeepsToken
  <2> HIDE DEF new
  <2> QED BY <2>1, <2>2
<1>6. PICK S : t \in Seq(S)
  BY <1>1 DEF HelloOK
<1> HIDE DEF g, id
<1>7. SameFlight(g, hello) /\ g.tokens = Append(t, id)
  BY <1>1, <1>5 DEF HelloOK, SameFlight
<1>8. IsFlight(g) /\ (Genuine(g) <=> Genuine(hello)) /\ g.message = hello.message
  BY <1>1, <1>7, SameFlightIs DEF SameFlight
<1>9. TokensOK(g)
  <2> DEFINE T == S \cup {id}
             u == Append(t, id)
  <2>1. t[1] = id
    BY <1>1, <1>2, <1>4 DEF TokensOK, id
  <2>2. t \in Seq(T) /\ id \in T
    BY <1>6
  <2> HIDE DEF T, t
  <2>3. Len(u) = 2 /\ u[1] = t[1] /\ u[2] = id
    <3>1. Len(t) = 1
      BY <1>2
    <3>2. u = Append(t, id)
      OBVIOUS
    <3> HIDE DEF u
    <3>3. Len(u) = Len(t) + 1
      BY <2>2, <3>2, AppendProperties, Zenon
    <3>4. u[Len(t) + 1] = id
      BY <2>2, <3>2, AppendProperties, Zenon
    <3>5. \A i \in 1..Len(t) : u[i] = t[i]
      BY <2>2, <3>2, AppendProperties, Zenon
    <3> QED BY <3>1, <3>3, <3>4, <3>5
  <2> HIDE DEF u
  <2>4. \A i \in 1..Len(u) : u[i] = id
    <3> SUFFICES ASSUME NEW i \in 1..Len(u) PROVE u[i] = id
      OBVIOUS
    <3>1. i = 1 \/ i = 2
      BY <2>3
    <3> QED BY <2>1, <2>3, <3>1
  <2>5. g.tokens = u
    BY <1>7 DEF u
  <2> QED BY <1>4, <1>8, <2>4, <2>5 DEF TokensOK, id
<1>10. DoorOK(ends'["Server"], g)
  <2>1. ends'["Server"] = ends["Server"]
    BY <1>2
  <2>2. ends["Server"].result # "Passed"
    BY <1>1, <1>3 DEF DoorOK
  <2> QED BY <1>2, <1>3, <1>8, <2>1, <2>2 DEF DoorOK
<1> QED BY <1>8, <1>9, <1>10 DEF g

LEMMA HandshakeKeepsClaim ==
    ASSUME hello' = NoFlight, ends'["Server"].pc # "Tls"
    PROVE  IsFlight(hello') /\ TokensOK(hello') /\ DoorOK(ends'["Server"], hello')
           /\ hello'.message = <<>>
<1>1. Len(<<>>) = 0
  OBVIOUS
<1>2. TokensOK(hello')
  BY <1>1, NoFlightIsNone DEF TokensOK
<1> QED BY <1>2, NoFlightIsNone DEF DoorOK

LEMMA ClaimNext ==
    ASSUME ChannelInv, ClaimInv, [Next]_vars
    PROVE  ClaimInv'
<1>1. /\ EndsOK /\ StateOK /\ HelloOK /\ "Server" \in Endpoint /\ IsFlight(hello) /\ TokensOK(hello)
      /\ DoorOK(ends["Server"], hello) /\ OwnerOK(ends["Client"], hello)
  BY DEF ChannelInv, ClaimInv, Endpoint
<1>2. CASE UNCHANGED vars
  <2>1. hello' = hello /\ ends' = ends
    BY <1>2 DEF vars
  <2> QED BY <1>1, <2>1 DEF ClaimInv
<1>3. ASSUME Next, IsFlight(hello'), TokensOK(hello'), DoorOK(ends'["Server"], hello'),
             hello'.message = hello.message \/ hello'.message = <<>>
      PROVE  ClaimInv'
  <2>1. OwnerOK(ends'["Client"], hello')
    BY <1>1, <1>3, StillConnected DEF OwnerOK
  <2> QED BY <1>3, <2>1 DEF ClaimInv
<1>4. ASSUME Next, UNCHANGED hello, DoorOK(ends'["Server"], hello) PROVE ClaimInv'
  BY <1>1, <1>3, <1>4
<1>5. ASSUME Next, ends["Server"].pc \in {"Peek", "Tls"} PROVE ClaimInv'
  <2>1. CASE classify_stream
    BY <1>3, <1>5, <2>1, ClassifyKeepsClaim
  <2>2. CASE HelloRetryRequest
    BY <1>3, <1>5, <2>2, RetryKeepsClaim
  <2>3. CASE ClassificationFails
    <3>1. "Dropped" \in Result /\ UNCHANGED hello /\ Finish("Server", ends["Server"], "Dropped")
      BY <2>3 DEF Result, ClassificationFails
    <3>2. ends'["Server"].pc = "Done" /\ ends'["Server"].result = "Dropped"
      BY <1>1, <3>1, ServerFinishes
    <3>3. DoorOK(ends'["Server"], hello)
      BY <3>2 DEF DoorOK
    <3> QED BY <1>4, <1>5, <3>1, <3>3
  <2>4. CASE AuthTimeout("Server")
    <3>1. "Timeout" \in Result /\ UNCHANGED hello /\ Finish("Server", ends["Server"], "Timeout")
      BY <2>4 DEF Result, AuthTimeout
    <3>2. ends'["Server"].pc = "Done" /\ ends'["Server"].result = "Timeout"
      BY <1>1, <3>1, ServerFinishes
    <3>3. DoorOK(ends'["Server"], hello)
      BY <3>2 DEF DoorOK
    <3> QED BY <1>4, <1>5, <3>1, <3>3
  <2>5. CASE tls_handshake
    <3>1. /\ hello' = NoFlight /\ \/ Quiet("Server", [ends["Server"] EXCEPT !.pc = "AuthRead"])
                                  \/ Finish("Server", ends["Server"], "TlsHandshake")
      BY <2>5 DEF tls_handshake
    <3>2. "TlsHandshake" \in Result /\ "AuthRead" \in Pc /\ ends["Server"] \in End
      BY <1>1 DEF Result, Pc, StateOK
    <3>3. ends'["Server"].pc # "Tls"
      <4>1. CASE Quiet("Server", [ends["Server"] EXCEPT !.pc = "AuthRead"])
        BY <1>1, <3>2, <4>1, PcIs, ServerQuiet
      <4>2. CASE Finish("Server", ends["Server"], "TlsHandshake")
        BY <1>1, <3>2, <4>2, ServerFinishes
      <4> QED BY <3>1, <4>1, <4>2
    <3> QED BY <1>3, <1>5, <3>1, <3>3, HandshakeKeepsClaim
  <2>6. CASE ends'["Server"] = ends["Server"] /\ UNCHANGED hello
    BY <1>1, <1>4, <1>5, <2>6
  <2> QED BY <1>1, <1>5, <2>1, <2>2, <2>3, <2>4, <2>5, <2>6, AtTheDoor
<1>6. ASSUME Next, ends["Server"].pc \notin {"Peek", "Tls"} PROVE ClaimInv'
  <2>1. /\ UNCHANGED hello /\ ends'["Server"].pc \notin {"Peek", "Tls"}
        /\ ends["Server"].pc = "Done" => ends'["Server"] = ends["Server"]
    BY <1>1, <1>6, PastTheDoor
  <2>2. DoorOK(ends'["Server"], hello)
    <3>1. CASE ends["Server"].pc = "Done"
      BY <1>1, <2>1, <3>1
    <3>2. CASE ends["Server"].pc # "Done"
      <4>1. hello = NoFlight
        BY <1>1, <1>6, <3>2 DEF DoorOK
      <4> QED BY <2>1, <4>1, NoFlightIsNone DEF DoorOK
    <3> QED BY <3>1, <3>2
  <2> QED BY <1>4, <1>6, <2>1, <2>2
<1>7. Next \/ UNCHANGED vars
  OBVIOUS
<1> QED BY <1>2, <1>5, <1>6, <1>7

LEMMA ClaimInvIsGenuine ==
    ASSUME HelloOK, ClaimInv
    PROVE  ClaimsAreGenuine
<1>1. OnlyGenuineIsClaimed /\ GenuineIsNotPassed
  BY DEF ClaimInv, DoorOK, OnlyGenuineIsClaimed, GenuineIsNotPassed
<1>2. PICK S : hello.tokens \in Seq(S)
  BY DEF HelloOK
<1>3. DOMAIN hello.tokens = 1..Len(hello.tokens)
  BY <1>2
<1>4. TokenIsRetained
  BY <1>3 DEF ClaimInv, TokensOK, TokenIsRetained
<1> QED BY <1>1, <1>4 DEF ClaimsAreGenuine

\* classify_tcp_client_hello and fill_legacy_session_id: the server takes into its TLS
\* acceptor only a ClientHello that is sealed as a whole and passes no such ClientHello on
\* to nginx, however it is cut into records and into peeks; and a client that is asked for
\* a second ClientHello keeps the token of its first.
THEOREM ClaimsStayGenuine == Spec => []ClaimsAreGenuine
<1> DEFINE I == ChannelInv /\ ClaimInv
<1>1. Init => I
  BY ChannelInit, ClaimInit
<1>2. I /\ [Next]_vars => I'
  BY ChannelNext, ClaimNext
<1>3. I => ClaimsAreGenuine
  BY ClaimInvIsGenuine DEF ChannelInv
<1> QED BY <1>1, <1>2, <1>3, PTL DEF Spec
==============================================================================
