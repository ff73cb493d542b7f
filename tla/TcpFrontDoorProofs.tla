------------------------- MODULE TcpFrontDoorProofs -------------------------
(***************************************************************************)
(* Proofs about TcpFrontDoor, for any number of connections, any cap and   *)
(* any limits of the scan.                                                 *)
(***************************************************************************)
EXTENDS TcpFrontDoor, SequenceTheorems, FiniteSetTheorems, TLAPS

-----------------------------------------------------------------------------
(* Linked lists                                                            *)

\* A list without its element at position k.
Without(list, k) ==
    [i \in 1..Len(list)-1 |-> IF i < k THEN list[i] ELSE list[i + 1]]

LEMMA WithoutFacts ==
    ASSUME NEW S, NEW list \in Seq(S), NEW k \in 1..Len(list)
    PROVE  /\ Without(list, k) \in Seq(S)
           /\ Len(Without(list, k)) = Len(list) - 1
           /\ \A i \in 1..Len(list)-1 :
                  Without(list, k)[i] = IF i < k THEN list[i] ELSE list[i + 1]
<1>1. Len(list) \in Nat /\ \A i \in 1..Len(list) : list[i] \in S
  BY LenProperties, ElementOfSeq
<1>2. \A i \in 1..Len(list)-1 : Without(list, k)[i] = IF i < k THEN list[i] ELSE list[i + 1]
  BY DEF Without
<1>3. \A i \in 1..Len(list)-1 : Without(list, k)[i] \in S
  BY <1>1, <1>2
<1>4. Without(list, k) \in [1..Len(list)-1 -> S]
  BY <1>3 DEF Without
<1>5. Len(list) - 1 \in Nat
  BY <1>1
<1>6. Without(list, k) \in Seq(S)
  BY <1>4, <1>5, SeqDef
<1>7. DOMAIN Without(list, k) = 1..Len(list)-1
  BY DEF Without
<1>8. Len(Without(list, k)) = Len(list) - 1
  BY <1>5, <1>6, <1>7, LenProperties
<1> QED BY <1>2, <1>6, <1>8

\* insert_no_data_locked: an entry that is not listed goes to the tail.
LEMMA InsertKeepsLinked ==
    ASSUME NEW list \in Seq(Conn), NEW links, NEW head, NEW tail,
           Linked(list, links, head, tail),
           NEW c \in Conn, c \notin DOMAIN links
    PROVE  Linked(Append(list, c),
                  [d \in DOMAIN links \cup {c} |->
                      IF d = c THEN [prev |-> tail, next |-> NoConn]
                      ELSE IF d = tail THEN [links[d] EXCEPT !.next = c]
                      ELSE links[d]],
                  IF tail = NoConn THEN c ELSE head,
                  c)
<1> DEFINE n == Len(list)
           longer == Append(list, c)
           after == [d \in DOMAIN links \cup {c} |->
                        IF d = c THEN [prev |-> tail, next |-> NoConn]
                        ELSE IF d = tail THEN [links[d] EXCEPT !.next = c]
                        ELSE links[d]]
           At(i) == IF i \in 1..n THEN list[i] ELSE NoConn
           After(i) == IF i \in 1..n+1 THEN longer[i] ELSE NoConn
<1>1. /\ n \in Nat /\ \A i \in 1..n : list[i] \in Conn /\ list[i] # NoConn
      /\ c # NoConn
  BY FrontDoorAssumption, LenProperties, ElementOfSeq
<1>2. /\ Len(longer) = n + 1
      /\ \A i \in 1..n : longer[i] = list[i]
      /\ longer[n + 1] = c
  BY AppendProperties
<1>3. /\ DOMAIN links = {list[i] : i \in 1..n}
      /\ \A i, j \in 1..n : list[i] = list[j] => i = j
      /\ \A i \in 1..n : links[list[i]] = [prev |-> At(i - 1), next |-> At(i + 1)]
      /\ head = At(1) /\ tail = At(n)
  BY DEF Linked
<1> HIDE DEF n, longer
<1>4. \A i \in 1..n : list[i] # c
  BY <1>3
<1>5. DOMAIN after = {longer[i] : i \in 1..n+1}
  <2>1. \A i \in 1..n+1 : longer[i] \in DOMAIN links \cup {c}
    BY <1>1, <1>2, <1>3
  <2>2. \A i \in 1..n : \E j \in 1..n+1 : longer[j] = list[i]
    BY <1>1, <1>2
  <2>3. \E j \in 1..n+1 : longer[j] = c
    BY <1>1, <1>2
  <2> QED BY <2>1, <2>2, <2>3, <1>3
<1>6. \A i, j \in 1..n+1 : longer[i] = longer[j] => i = j
  BY <1>1, <1>2, <1>3, <1>4
<1>7. ASSUME NEW i \in 1..n+1
      PROVE  after[longer[i]] = [prev |-> After(i - 1), next |-> After(i + 1)]
  <2>1. CASE i = n + 1
    <3>1. After(i - 1) = tail /\ After(i + 1) = NoConn
      BY <2>1, <1>1, <1>2, <1>3
    <3>2. after[c] = [prev |-> tail, next |-> NoConn]
      OBVIOUS
    <3> QED BY <2>1, <3>1, <3>2, <1>2
  <2>2. CASE i \in 1..n
    <3>1. /\ list[i] \in DOMAIN links /\ list[i] # c /\ longer[i] = list[i]
          /\ links[list[i]] = [prev |-> At(i - 1), next |-> At(i + 1)]
          /\ After(i - 1) = At(i - 1)
      BY <2>2, <1>1, <1>2, <1>3, <1>4
    <3>2. after[list[i]] = IF list[i] = tail THEN [links[list[i]] EXCEPT !.next = c]
                                             ELSE links[list[i]]
      BY <3>1
    <3> HIDE DEF after
    <3>3. CASE i = n
      <4>1. list[i] = tail /\ After(i + 1) = c
        BY <3>3, <2>2, <1>1, <1>2, <1>3
      <4> HIDE DEF At, After
      <4> QED BY <3>1, <3>2, <4>1
    <3>4. CASE i # n
      <4>1. list[i] # tail
        BY <3>4, <2>2, <1>1, <1>3
      <4>2. i + 1 \in 1..n /\ i + 1 \in 1..n+1
        BY <3>4, <2>2, <1>1
      <4>3. After(i + 1) = At(i + 1)
        BY <4>2, <1>2
      <4> HIDE DEF At, After
      <4> QED BY <3>1, <3>2, <4>1, <4>3
    <3> QED BY <3>3, <3>4
  <2> QED BY <2>1, <2>2, <1>1
<1>8. (IF tail = NoConn THEN c ELSE head) = After(1) /\ c = After(n + 1)
  <2>1. c = After(n + 1)
    BY <1>1, <1>2
  <2>2. CASE n = 0
    BY <2>2, <1>1, <1>2, <1>3
  <2>3. CASE n # 0
    <3>1. 1 \in 1..n /\ n \in 1..n
      BY <2>3, <1>1
    <3>2. tail # NoConn /\ head = list[1]
      BY <3>1, <1>1, <1>3
    <3>3. After(1) = list[1]
      BY <3>1, <1>1, <1>2
    <3> QED BY <2>1, <3>2, <3>3
  <2> QED BY <2>1, <2>2, <2>3
<1> HIDE DEF after
<1>9. Linked(longer, after, IF tail = NoConn THEN c ELSE head, c)
  BY <1>2, <1>5, <1>6, <1>7, <1>8 DEF Linked
<1> QED BY <1>9 DEF longer, after

\* remove_no_data_locked: the neighbours of an entry are linked to each other.
LEMMA RemoveKeepsLinked ==
    ASSUME NEW list \in Seq(Conn), NEW links, NEW head, NEW tail,
           Linked(list, links, head, tail),
           NEW k \in 1..Len(list), NEW c, c = list[k]
    PROVE  LET e == links[c]
           IN  Linked(Without(list, k),
                      [d \in DOMAIN links \ {c} |->
                          IF d = e.prev THEN [links[d] EXCEPT !.next = e.next]
                          ELSE IF d = e.next THEN [links[d] EXCEPT !.prev = e.prev]
                          ELSE links[d]],
                      IF e.prev = NoConn THEN e.next ELSE head,
                      IF e.next = NoConn THEN e.prev ELSE tail)
<1> DEFINE n == Len(list)
           rest == Without(list, k)
           At(i) == IF i \in 1..n THEN list[i] ELSE NoConn
           Rest(i) == IF i \in 1..n-1 THEN rest[i] ELSE NoConn
           prev == At(k - 1)
           next == At(k + 1)
           after == [d \in DOMAIN links \ {c} |->
                        IF d = prev THEN [links[d] EXCEPT !.next = next]
                        ELSE IF d = next THEN [links[d] EXCEPT !.prev = prev]
                        ELSE links[d]]
<1>1. /\ n \in Nat /\ n >= 1 /\ k \in Nat /\ k >= 1 /\ k <= n
      /\ \A i \in 1..n : list[i] \in Conn /\ list[i] # NoConn
  BY FrontDoorAssumption, LenProperties, ElementOfSeq
<1>2. /\ Len(rest) = n - 1
      /\ \A i \in 1..n-1 : rest[i] = IF i < k THEN list[i] ELSE list[i + 1]
  BY WithoutFacts
<1>3. /\ DOMAIN links = {list[i] : i \in 1..n}
      /\ \A i, j \in 1..n : list[i] = list[j] => i = j
      /\ \A i \in 1..n : links[list[i]] = [prev |-> At(i - 1), next |-> At(i + 1)]
      /\ head = At(1) /\ tail = At(n)
  BY DEF Linked
<1> HIDE DEF n, rest
<1>4. links[c] = [prev |-> prev, next |-> next]
  <2>1. k \in 1..n
    BY <1>1
  <2> HIDE DEF At
  <2> QED BY <2>1, <1>3
<1>5. \A j \in 0..n : Rest(j) = IF j < k THEN At(j) ELSE At(j + 1)
  BY <1>1, <1>2
<1>6. \A i \in 1..n, j \in 0..n+1 : list[i] = At(j) <=> i = j
  <2> SUFFICES ASSUME NEW i \in 1..n, NEW j \in 0..n+1 PROVE list[i] = At(j) <=> i = j
    OBVIOUS
  <2>1. CASE j \in 1..n
    BY <2>1, <1>3
  <2>2. CASE j \notin 1..n
    BY <2>2, <1>1
  <2> QED BY <2>1, <2>2
<1>7. DOMAIN after = {rest[i] : i \in 1..n-1}
  <2>1. ASSUME NEW i \in 1..n-1 PROVE rest[i] \in DOMAIN links \ {c}
    <3> DEFINE p == IF i < k THEN i ELSE i + 1
    <3>1. p \in 1..n /\ p # k /\ rest[i] = list[p]
      BY <1>1, <1>2
    <3> HIDE DEF p
    <3> QED BY <3>1, <1>1, <1>3
  <2>2. ASSUME NEW i \in 1..n, list[i] # c PROVE \E j \in 1..n-1 : rest[j] = list[i]
    <3> DEFINE j == IF i < k THEN i ELSE i - 1
    <3>1. i # k
      BY <2>2
    <3>2. j \in 1..n-1 /\ (j < k <=> i < k) /\ (~(i < k) => j + 1 = i) /\ (i < k => j = i)
      BY <3>1, <1>1
    <3> HIDE DEF j
    <3>3. rest[j] = list[i]
      BY <3>2, <1>2
    <3> QED BY <3>2, <3>3
  <2>3. \A d \in DOMAIN links \ {c} : \E j \in 1..n-1 : rest[j] = d
    BY <2>2, <1>3
  <2> QED BY <2>1, <2>3
<1>8. \A i, j \in 1..n-1 : rest[i] = rest[j] => i = j
  <2> SUFFICES ASSUME NEW i \in 1..n-1, NEW j \in 1..n-1, rest[i] = rest[j] PROVE i = j
    OBVIOUS
  <2> DEFINE p == IF i < k THEN i ELSE i + 1
             q == IF j < k THEN j ELSE j + 1
  <2>1. p \in 1..n /\ q \in 1..n /\ rest[i] = list[p] /\ rest[j] = list[q]
    BY <1>1, <1>2
  <2>2. p = q
    BY <2>1, <1>3
  <2> QED BY <2>2, <1>1
<1>9. ASSUME NEW i \in 1..n-1
      PROVE  after[rest[i]] = [prev |-> Rest(i - 1), next |-> Rest(i + 1)]
  <2> DEFINE p == IF i < k THEN i ELSE i + 1
  <2>1. p \in 1..n /\ p # k /\ rest[i] = list[p]
    BY <1>1, <1>2
  <2>2. list[p] \in DOMAIN links \ {c} /\ links[list[p]] = [prev |-> At(p - 1), next |-> At(p + 1)]
    BY <2>1, <1>1, <1>3
  <2>3. /\ list[p] = prev <=> p = k - 1
        /\ list[p] = next <=> p = k + 1
    <3>1. k - 1 \in 0..n+1 /\ k + 1 \in 0..n+1
      BY <1>1
    <3> HIDE DEF p, At
    <3> QED BY <2>1, <3>1, <1>6
  <2>4. after[list[p]] = IF p = k - 1 THEN [links[list[p]] EXCEPT !.next = next]
                         ELSE IF p = k + 1 THEN [links[list[p]] EXCEPT !.prev = prev]
                         ELSE links[list[p]]
    BY <2>2, <2>3
  <2>5. /\ Rest(i - 1) = IF p = k + 1 THEN prev ELSE At(p - 1)
        /\ Rest(i + 1) = IF p = k - 1 THEN next ELSE At(p + 1)
    <3>1. i - 1 \in 0..n /\ i + 1 \in 0..n
      BY <1>1
    <3>2. /\ Rest(i - 1) = IF i - 1 < k THEN At(i - 1) ELSE At((i - 1) + 1)
          /\ Rest(i + 1) = IF i + 1 < k THEN At(i + 1) ELSE At((i + 1) + 1)
      BY <1>5, <3>1
    <3> HIDE DEF Rest, At
    <3>3. CASE i < k
      <4>1. CASE i = k - 1
        BY <3>2, <3>3, <4>1, <1>1
      <4>2. CASE i # k - 1
        BY <3>2, <3>3, <4>2, <1>1
      <4> QED BY <4>1, <4>2
    <3>4. CASE i = k
      <4>1. i - 1 = k - 1 /\ p = k + 1 /\ (i + 1) + 1 = p + 1 /\ p # k - 1 /\ i - 1 < k /\ ~(i + 1 < k)
        BY <3>4, <1>1
      <4> QED BY <3>2, <4>1
    <3>5. CASE i > k
      <4>1. /\ (i - 1) + 1 = p - 1 /\ (i + 1) + 1 = p + 1 /\ p # k - 1 /\ p # k + 1
            /\ ~(i - 1 < k) /\ ~(i + 1 < k)
        BY <3>5, <1>1
      <4> QED BY <3>2, <4>1
    <3> QED BY <3>3, <3>4, <3>5, <1>1
  <2> HIDE DEF p, after, prev, next, At, Rest
  <2> QED BY <1>1, <2>1, <2>2, <2>4, <2>5
<1>10. /\ (IF prev = NoConn THEN next ELSE head) = Rest(1)
       /\ (IF next = NoConn THEN prev ELSE tail) = Rest(n - 1)
  <2>1. /\ prev = NoConn <=> k = 1
        /\ next = NoConn <=> k = n
    BY <1>1
  <2>2. /\ Rest(1) = IF 1 < k THEN At(1) ELSE At(1 + 1)
        /\ Rest(n - 1) = IF n - 1 < k THEN At(n - 1) ELSE At((n - 1) + 1)
    BY <1>1, <1>5
  <2> HIDE DEF Rest, At
  <2>3. (n - 1) + 1 = n /\ (n - 1 < k <=> k = n)
    BY <1>1
  <2> QED BY <1>1, <1>3, <2>1, <2>2, <2>3
<1> HIDE DEF after, prev, next
<1>11. Linked(rest, after, IF prev = NoConn THEN next ELSE head,
                           IF next = NoConn THEN prev ELSE tail)
  BY <1>2, <1>7, <1>8, <1>9, <1>10 DEF Linked
<1> DEFINE e == links[c]
<1>12. e.prev = prev /\ e.next = next
  BY <1>4
<1> QED BY <1>11, <1>12 DEF rest, after

-----------------------------------------------------------------------------
(* The inductive invariant                                                 *)

\* The links are those of some list.
ListInv == \E list \in Seq(Conn) : Linked(list, no_data, no_data_head, no_data_tail)

RestTypeOK ==
    /\ wire \in [Conn -> Content]
    /\ released \subseteq Conn /\ cancelled \subseteq Conn
    /\ loop \in LoopStage
    /\ cur \in OrNone(Conn)
    /\ candidates \in Seq(Conn) /\ Len(candidates) <= ScanLimit
    /\ scans \in 0..ScanPasses
    /\ removed_stale \in BOOLEAN
    /\ evicted \in OrNone(Conn) /\ probing \in OrNone(Conn)
    /\ task \in [Conn -> TaskStage]
    /\ outcome \in [Conn -> Outcome]
    /\ data_seen \subseteq Conn
    /\ peeked \in [Conn -> Content]
    /\ expired \subseteq Conn

\* A connection whose task does not run yet, and one whose task has decided nothing.
Early == {"Backlog", "Accepted", "Admitted"}
Undecided == {"Top", "Listing", "Marking", "Peeking", "Seeing", "Sleeping", "HandingOver"}

\* Where the accept loop is with the connection it has accepted.
LoopInv ==
    /\ loop \in {"Accepting", "Stopped"} <=> cur = NoConn
    /\ \A c \in Conn : task[c] \in {"Accepted", "Admitted"} => c = cur
    /\ loop \in {"Admitting", "Scanning", "Probing", "Looking", "Evicting", "Unlisting",
                 "Retrying", "Final", "OverCap"} => task[cur] = "Accepted"
    /\ loop \in {"Registering", "Listing", "Marking"} => task[cur] = "Admitted"
    /\ loop = "Cancelling" => task[cur] \in {"Accepted", "Admitted"}
    /\ loop \in {"Accepting", "Stopped", "Admitting"} => scans = 0
    /\ loop = "Scanning" => scans < ScanPasses
    /\ loop \in {"Looking", "Evicting", "Unlisting"} => candidates # <<>>
    /\ loop = "Looking" => probing # NoConn

\* An eviction makes room, and is known to its victim before the loop goes on.
EvictionInv ==
    /\ loop \in {"Accepting", "Stopped", "Admitting", "Scanning", "Probing", "Looking",
                 "Evicting", "Unlisting", "Retrying", "OverCap"} => evicted = NoConn
    /\ loop = "Final" /\ evicted # NoConn => active < Cap
    /\ loop = "Cancelling" /\ evicted # NoConn => task[cur] = "Admitted"
    /\ loop \in {"OverCap", "Registering", "Listing", "Marking"}
           => evicted \in cancelled \cup {NoConn}
    /\ cancelled \subseteq released
    /\ evicted # NoConn => evicted \in released

\* A permit without its flag is there, and a listed one has its flag only on its way out.
PermitInv ==
    /\ \A c \in Conn : task[c] \in Early => c \notin released
    /\ \A c \in Conn : task[c] = "Unlocking" => c \in released
    /\ \A c \in DOMAIN no_data :
           /\ task[c] \notin Early \cup {"Closed"}
           /\ c \in released => task[c] = "Unlocking"
           /\ c \notin data_seen
           /\ outcome[c] \notin {"claimed", "passed"}

\* Data, once seen, protects a connection from eviction until it is decided.
TaskInv ==
    /\ \A c \in data_seen :
           /\ c \notin released
           /\ task[c] \in {"Top", "Peeking", "Seeing", "Sleeping", "HandingOver"}
    /\ \A c \in Conn : task[c] = "HandingOver" => c \in data_seen
    /\ \A c \in Conn : task[c] \in Early \cup Undecided => outcome[c] = "none"

StateInv == RestTypeOK /\ LoopInv /\ EvictionInv /\ PermitInv /\ TaskInv

Inv == ListInv /\ StateInv /\ SlotsAreCounted

\* What an entry of the list is.
LEMMA ListFacts ==
    ASSUME ListInv
    PROVE  /\ DOMAIN no_data \subseteq Conn
           /\ \A c \in DOMAIN no_data : no_data[c] \in [prev : OrNone(Conn), next : OrNone(Conn)]
           /\ no_data_head \in OrNone(Conn) /\ no_data_tail \in OrNone(Conn)
<1>1. PICK list \in Seq(Conn) : Linked(list, no_data, no_data_head, no_data_tail)
  BY DEF ListInv
<1> DEFINE n == Len(list)
           At(i) == IF i \in 1..n THEN list[i] ELSE NoConn
<1>2. n \in Nat /\ \A i \in 1..n : list[i] \in Conn
  BY LenProperties, ElementOfSeq
<1>3. \A i : At(i) \in OrNone(Conn)
  BY <1>2 DEF OrNone
<1>4. /\ DOMAIN no_data = {list[i] : i \in 1..n}
      /\ \A i \in 1..n : no_data[list[i]] = [prev |-> At(i - 1), next |-> At(i + 1)]
      /\ no_data_head = At(1) /\ no_data_tail = At(n)
  BY <1>1 DEF Linked
<1> HIDE DEF At, n
<1>5. ASSUME NEW c \in DOMAIN no_data
      PROVE  c \in Conn /\ no_data[c] \in [prev : OrNone(Conn), next : OrNone(Conn)]
  <2>1. PICK i \in 1..n : c = list[i]
    BY <1>4
  <2>2. no_data[c] = [prev |-> At(i - 1), next |-> At(i + 1)]
    BY <2>1, <1>4
  <2>3. At(i - 1) \in OrNone(Conn) /\ At(i + 1) \in OrNone(Conn)
    BY <1>3
  <2> QED BY <1>2, <2>1, <2>2, <2>3
<1> QED BY <1>3, <1>4, <1>5

LEMMA InsertKeepsList ==
    ASSUME ListInv, NEW c \in Conn, ~Listed(c), insert_no_data_locked(c)
    PROVE  ListInv' /\ DOMAIN no_data' = DOMAIN no_data \cup {c}
<1>1. PICK list \in Seq(Conn) : Linked(list, no_data, no_data_head, no_data_tail)
  BY DEF ListInv
<1>2. Append(list, c) \in Seq(Conn)
  BY AppendProperties
<1>3. Linked(Append(list, c), no_data', no_data_head', no_data_tail')
  <2>1. /\ no_data' = [d \in DOMAIN no_data \cup {c} |->
                          IF d = c THEN [prev |-> no_data_tail, next |-> NoConn]
                          ELSE IF d = no_data_tail THEN [no_data[d] EXCEPT !.next = c]
                          ELSE no_data[d]]
        /\ no_data_head' = IF no_data_tail = NoConn THEN c ELSE no_data_head
        /\ no_data_tail' = c
    BY DEF insert_no_data_locked
  <2>2. c \notin DOMAIN no_data
    BY DEF Listed
  <2> DEFINE after == [d \in DOMAIN no_data \cup {c} |->
                          IF d = c THEN [prev |-> no_data_tail, next |-> NoConn]
                          ELSE IF d = no_data_tail THEN [no_data[d] EXCEPT !.next = c]
                          ELSE no_data[d]]
             first == IF no_data_tail = NoConn THEN c ELSE no_data_head
  <2>3. Linked(Append(list, c), after, first, c)
    BY <1>1, <2>2, InsertKeepsLinked
  <2>4. no_data' = after /\ no_data_head' = first /\ no_data_tail' = c
    BY <2>1
  <2> HIDE DEF after, first
  <2> QED BY <2>3, <2>4
<1>4. ListInv'
  BY <1>2, <1>3 DEF ListInv
<1> QED BY <1>4 DEF insert_no_data_locked

LEMMA RemoveKeepsList ==
    ASSUME ListInv, NEW c, remove_no_data_locked(c)
    PROVE  ListInv' /\ DOMAIN no_data' = DOMAIN no_data \ {c}
<1>1. CASE ~Listed(c)
  BY <1>1 DEF remove_no_data_locked, listVars, ListInv, Listed
<1>2. CASE Listed(c)
  <2>1. PICK list \in Seq(Conn) : Linked(list, no_data, no_data_head, no_data_tail)
    BY DEF ListInv
  <2>2. PICK k \in 1..Len(list) : c = list[k]
    BY <1>2, <2>1 DEF Linked, Listed
  <2>3. Without(list, k) \in Seq(Conn)
    BY WithoutFacts
  <2>4. Linked(Without(list, k), no_data', no_data_head', no_data_tail')
    <3> DEFINE e == no_data[c]
    <3>1. /\ no_data' = [d \in DOMAIN no_data \ {c} |->
                            IF d = e.prev THEN [no_data[d] EXCEPT !.next = e.next]
                            ELSE IF d = e.next THEN [no_data[d] EXCEPT !.prev = e.prev]
                            ELSE no_data[d]]
          /\ no_data_head' = IF e.prev = NoConn THEN e.next ELSE no_data_head
          /\ no_data_tail' = IF e.next = NoConn THEN e.prev ELSE no_data_tail
      BY <1>2 DEF remove_no_data_locked
    <3> QED BY <2>1, <2>2, <3>1, RemoveKeepsLinked
  <2>5. ListInv'
    BY <2>3, <2>4 DEF ListInv
  <2> QED BY <1>2, <2>5 DEF remove_no_data_locked
<1> QED BY <1>1, <1>2

LEMMA SameKeepsList ==
    ASSUME ListInv, UNCHANGED listVars
    PROVE  ListInv' /\ DOMAIN no_data' = DOMAIN no_data
  BY DEF ListInv, listVars

-----------------------------------------------------------------------------
(* The steps of a classification task                                      *)

\* The number of slots is a number.
LEMMA SlotsType ==
    ASSUME Inv
    PROVE  /\ IsFiniteSet(Holders) /\ active = Cardinality(Holders)
           /\ active \in Nat /\ active <= Cap /\ Cap \in Nat
<1>1. IsFiniteSet(Holders)
  BY FrontDoorAssumption, FS_Subset DEF Holders
<1> QED BY <1>1, FS_CardinalityType, FrontDoorAssumption DEF Inv, SlotsAreCounted

\* A task that runs never touches the accept loop and the connection it is busy with.
LEMMA TaskLeavesLoopAlone ==
    ASSUME Inv, NEW c \in Conn, task[c] \notin Early,
           NEW s \in TaskStage \ Early, task' = [task EXCEPT ![c] = s],
           UNCHANGED <<loopVars, cancelled>>,
           active' <= active, active' \in Int, released \subseteq released'
    PROVE  LoopInv' /\ EvictionInv'
<1>1. /\ task \in [Conn -> TaskStage] /\ cur \in Conn \cup {NoConn}
      /\ loop \in LoopStage /\ released \subseteq Conn
      /\ active \in Int /\ Cap \in Int
  BY SlotsType DEF Inv, StateInv, RestTypeOK, OrNone
<1>2. c # cur
  BY <1>1, FrontDoorAssumption DEF Inv, StateInv, LoopInv, Early, LoopStage
<1>3. cur \in Conn => task'[cur] = task[cur]
  BY <1>1, <1>2
<1>4. cur = NoConn <=> loop \in {"Accepting", "Stopped"}
  BY DEF Inv, StateInv, LoopInv
<1>5. UNCHANGED <<loop, cur, candidates, scans, removed_stale, evicted, probing>>
  BY DEF loopVars
<1>6. LoopInv'
  <2>1. \A d \in Conn : task'[d] \in {"Accepted", "Admitted"} => d = cur
    BY <1>1, <1>2 DEF Inv, StateInv, LoopInv, Early
  <2> QED BY <1>1, <1>3, <1>4, <1>5, <2>1 DEF Inv, StateInv, LoopInv
<1>7. EvictionInv'
  BY <1>1, <1>3, <1>4, <1>5 DEF Inv, StateInv, EvictionInv
<1> QED BY <1>6, <1>7

LEMMA LoopKeeps ==
    ASSUME Inv, NEW c \in Conn, Loop(c)
    PROVE  ListInv' /\ StateInv'
<1> USE DEF Inv, StateInv, Loop, Finish, Leave, Continue, Go,
        admissionVars, loopVars, listVars
<1>1. ListInv' /\ DOMAIN no_data' = DOMAIN no_data
  BY SameKeepsList
<1>2. RestTypeOK'
  BY DEF RestTypeOK, TaskStage, Outcome, Content
<1>3. LoopInv' /\ EvictionInv'
  BY TaskLeavesLoopAlone, SlotsType DEF RestTypeOK, TaskStage, Early
<1>4. PermitInv'
  BY <1>1, ListFacts DEF RestTypeOK, PermitInv, TaskInv, Early, Undecided
<1>5. TaskInv'
  BY DEF RestTypeOK, PermitInv, TaskInv, Early, Undecided
<1> QED BY <1>1, <1>2, <1>3, <1>4, <1>5

LEMMA MarkNoDataKeeps ==
    ASSUME Inv, NEW c \in Conn, mark_no_data_if_empty(c)
    PROVE  ListInv' /\ StateInv'
<1> USE DEF Inv, StateInv, mark_no_data_if_empty, Finish, Leave, Continue, Go,
        admissionVars, loopVars, listVars
<1>1. ListInv' /\ DOMAIN no_data' \subseteq DOMAIN no_data \cup {c}
              /\ (c \in DOMAIN no_data' => c \in DOMAIN no_data \/ c \notin released)
  BY SameKeepsList, InsertKeepsList DEF Listed
<1>2. RestTypeOK'
  BY DEF RestTypeOK, TaskStage, Outcome, Content
<1>3. LoopInv' /\ EvictionInv'
  BY TaskLeavesLoopAlone, SlotsType DEF RestTypeOK, TaskStage, Early
<1>4. PermitInv'
  <2>1. c \notin data_seen /\ outcome[c] = "none"
    BY DEF TaskInv, Undecided
  <2>2. CASE c \in released
    BY <1>1, <2>1, <2>2, ListFacts DEF RestTypeOK, PermitInv, TaskInv, Early, Undecided
  <2>3. CASE c \notin released
    BY <1>1, <2>1, <2>3, ListFacts DEF RestTypeOK, PermitInv, TaskInv, Early, Undecided
  <2> QED BY <2>2, <2>3
<1>5. TaskInv'
  BY DEF RestTypeOK, PermitInv, TaskInv, Early, Undecided
<1> QED BY <1>1, <1>2, <1>3, <1>4, <1>5

LEMMA MarkBeforePeekKeeps ==
    ASSUME Inv, NEW c \in Conn, MarkBeforePeek(c)
    PROVE  ListInv' /\ StateInv'
<1> USE DEF Inv, StateInv, MarkBeforePeek, Finish, Leave, Continue, Go,
        admissionVars, loopVars, listVars
<1>1. ListInv' /\ DOMAIN no_data' \subseteq DOMAIN no_data
              /\ (c \notin DOMAIN no_data' \/ c \in released)
  BY SameKeepsList, RemoveKeepsList
<1>2. RestTypeOK'
  BY DEF RestTypeOK, TaskStage, Outcome, Content
<1>3. LoopInv' /\ EvictionInv'
  BY TaskLeavesLoopAlone, SlotsType DEF RestTypeOK, TaskStage, Early
<1>4. PermitInv'
  BY <1>1, ListFacts DEF RestTypeOK, PermitInv, TaskInv, Early, Undecided
<1>5. TaskInv'
  BY DEF RestTypeOK, PermitInv, TaskInv, Early, Undecided
<1> QED BY <1>1, <1>2, <1>3, <1>4, <1>5

LEMMA PeekKeeps ==
    ASSUME Inv, NEW c \in Conn, Peek(c)
    PROVE  ListInv' /\ StateInv'
<1> USE DEF Inv, StateInv, Peek, Finish, Leave, Continue, Go,
        admissionVars, loopVars, listVars
<1>1. ListInv' /\ DOMAIN no_data' = DOMAIN no_data
  BY SameKeepsList
<1>2. RestTypeOK'
  BY DEF RestTypeOK, TaskStage, Outcome, Content
<1>3. LoopInv' /\ EvictionInv'
  BY TaskLeavesLoopAlone, SlotsType DEF RestTypeOK, TaskStage, Early
<1>4. PermitInv'
  BY <1>1, ListFacts DEF RestTypeOK, PermitInv, TaskInv, Early, Undecided
<1>5. TaskInv'
  BY DEF RestTypeOK, PermitInv, TaskInv, Early, Undecided
<1> QED BY <1>1, <1>2, <1>3, <1>4, <1>5

LEMMA MarkDataSeenKeeps ==
    ASSUME Inv, NEW c \in Conn, mark_data_seen(c)
    PROVE  ListInv' /\ StateInv'
<1> USE DEF Inv, StateInv, mark_data_seen, Judge, Finish, Leave, Continue, Go,
        admissionVars, loopVars, listVars
<1>1. ListInv' /\ DOMAIN no_data' \subseteq DOMAIN no_data
              /\ (c \notin DOMAIN no_data' \/ c \in released \/ c \in data_seen)
  BY SameKeepsList, RemoveKeepsList
<1>2. RestTypeOK'
  BY DEF RestTypeOK, TaskStage, Outcome, Content
<1>3. LoopInv' /\ EvictionInv'
  BY TaskLeavesLoopAlone, SlotsType DEF RestTypeOK, TaskStage, Early
<1>4. PermitInv'
  BY <1>1, ListFacts DEF RestTypeOK, PermitInv, TaskInv, Early, Undecided
<1>5. TaskInv'
  BY DEF RestTypeOK, PermitInv, TaskInv, Early, Undecided
<1> QED BY <1>1, <1>2, <1>3, <1>4, <1>5

LEMMA SleepKeeps ==
    ASSUME Inv, NEW c \in Conn, Sleep(c)
    PROVE  ListInv' /\ StateInv'
<1> USE DEF Inv, StateInv, Sleep, Finish, Leave, Continue, Go,
        admissionVars, loopVars, listVars
<1>1. ListInv' /\ DOMAIN no_data' = DOMAIN no_data
  BY SameKeepsList
<1>2. RestTypeOK'
  BY DEF RestTypeOK, TaskStage, Outcome, Content
<1>3. LoopInv' /\ EvictionInv'
  BY TaskLeavesLoopAlone, SlotsType DEF RestTypeOK, TaskStage, Early
<1>4. PermitInv'
  BY <1>1, ListFacts DEF RestTypeOK, PermitInv, TaskInv, Early, Undecided
<1>5. TaskInv'
  BY DEF RestTypeOK, PermitInv, TaskInv, Early, Undecided
<1> QED BY <1>1, <1>2, <1>3, <1>4, <1>5

LEMMA ClaimedKeeps ==
    ASSUME Inv, NEW c \in Conn, handle_claimed_stream(c)
    PROVE  ListInv' /\ StateInv'
<1> USE DEF Inv, StateInv, handle_claimed_stream, Finish, Leave, Continue, Go,
        admissionVars, loopVars, listVars
<1>1. ListInv' /\ DOMAIN no_data' = DOMAIN no_data
  BY SameKeepsList
<1>2. RestTypeOK'
  BY DEF RestTypeOK, TaskStage, Outcome, Content
<1>3. LoopInv' /\ EvictionInv'
  <2>1. /\ task[c] \notin Early /\ "Releasing" \in TaskStage \ Early
        /\ task' = [task EXCEPT ![c] = "Releasing"]
    BY DEF TaskStage, Early
  <2>2. /\ UNCHANGED <<loopVars, cancelled>> /\ released \subseteq released'
        /\ active' = active /\ active \in Nat
    BY SlotsType
  <2>3. active' <= active /\ active' \in Int
    BY <2>2
  <2> QED BY <2>1, <2>2, <2>3, TaskLeavesLoopAlone
<1>4. PermitInv'
  BY <1>1, ListFacts DEF RestTypeOK, PermitInv, TaskInv, Early, Undecided
<1>5. TaskInv'
  BY DEF RestTypeOK, PermitInv, TaskInv, Early, Undecided
<1> QED BY <1>1, <1>2, <1>3, <1>4, <1>5

LEMMA PassKeeps ==
    ASSUME Inv, NEW c \in Conn, handle_pass_stream(c)
    PROVE  ListInv' /\ StateInv'
<1> USE DEF Inv, StateInv, handle_pass_stream, Finish, Leave, Continue, Go,
        admissionVars, loopVars, listVars
<1>1. ListInv' /\ DOMAIN no_data' = DOMAIN no_data
  BY SameKeepsList
<1>2. RestTypeOK'
  BY DEF RestTypeOK, TaskStage, Outcome, Content
<1>3. LoopInv' /\ EvictionInv'
  BY TaskLeavesLoopAlone, SlotsType DEF RestTypeOK, TaskStage, Early
<1>4. PermitInv'
  BY <1>1, ListFacts DEF RestTypeOK, PermitInv, TaskInv, Early, Undecided
<1>5. TaskInv'
  BY DEF RestTypeOK, PermitInv, TaskInv, Early, Undecided
<1> QED BY <1>1, <1>2, <1>3, <1>4, <1>5

LEMMA ProxyKeeps ==
    ASSUME Inv, NEW c \in Conn, proxy_to_upstream(c)
    PROVE  ListInv' /\ StateInv'
<1> USE DEF Inv, StateInv, proxy_to_upstream, Finish, Leave, Continue, Go,
        admissionVars, loopVars, listVars
<1>1. ListInv' /\ DOMAIN no_data' = DOMAIN no_data
  BY SameKeepsList
<1>2. RestTypeOK'
  BY DEF RestTypeOK, TaskStage, Outcome, Content
<1>3. LoopInv' /\ EvictionInv'
  <2>1. /\ task[c] \notin Early /\ "Releasing" \in TaskStage \ Early
        /\ task' = [task EXCEPT ![c] = "Releasing"]
    BY DEF TaskStage, Early
  <2>2. /\ UNCHANGED <<loopVars, cancelled>> /\ released \subseteq released'
        /\ active' = active /\ active \in Nat
    BY SlotsType
  <2>3. active' <= active /\ active' \in Int
    BY <2>2
  <2> QED BY <2>1, <2>2, <2>3, TaskLeavesLoopAlone
<1>4. PermitInv'
  BY <1>1, ListFacts DEF RestTypeOK, PermitInv, TaskInv, Early, Undecided
<1>5. TaskInv'
  BY DEF RestTypeOK, PermitInv, TaskInv, Early, Undecided
<1> QED BY <1>1, <1>2, <1>3, <1>4, <1>5

LEMMA DropPermitKeeps ==
    ASSUME Inv, NEW c \in Conn, DropPermit(c)
    PROVE  ListInv' /\ StateInv'
<1> USE DEF Inv, StateInv, DropPermit, Finish, Leave, Continue, Go,
        admissionVars, loopVars, listVars
<1>1. ListInv' /\ DOMAIN no_data' = DOMAIN no_data
  BY SameKeepsList
<1>2. RestTypeOK'
  BY DEF RestTypeOK, TaskStage, Outcome, Content
<1>3. LoopInv' /\ EvictionInv'
  <2>1. /\ task[c] \notin Early /\ (IF c \in released THEN "Closed" ELSE "Unlocking") \in TaskStage \ Early
        /\ task' = [task EXCEPT ![c] = (IF c \in released THEN "Closed" ELSE "Unlocking")]
    BY DEF TaskStage, Early
  <2>2. /\ UNCHANGED <<loopVars, cancelled>> /\ released \subseteq released'
        /\ active' = active /\ active \in Nat
    BY SlotsType
  <2>3. active' <= active /\ active' \in Int
    BY <2>2
  <2> QED BY <2>1, <2>2, <2>3, TaskLeavesLoopAlone
<1>4. PermitInv'
  BY <1>1, ListFacts DEF RestTypeOK, PermitInv, TaskInv, Early, Undecided
<1>5. TaskInv'
  BY DEF RestTypeOK, PermitInv, TaskInv, Early, Undecided
<1> QED BY <1>1, <1>2, <1>3, <1>4, <1>5

LEMMA ReturnSlotKeeps ==
    ASSUME Inv, NEW c \in Conn, ReturnSlot(c)
    PROVE  ListInv' /\ StateInv'
<1> USE DEF Inv, StateInv, ReturnSlot, Finish, Leave, Continue, Go,
        admissionVars, loopVars, listVars
<1>1. ListInv' /\ DOMAIN no_data' \subseteq DOMAIN no_data
              /\ (c \notin DOMAIN no_data')
  BY SameKeepsList, RemoveKeepsList
<1>2. RestTypeOK'
  BY DEF RestTypeOK, TaskStage, Outcome, Content
<1>3. LoopInv' /\ EvictionInv'
  <2>1. /\ task[c] \notin Early /\ "Closed" \in TaskStage \ Early
        /\ task' = [task EXCEPT ![c] = "Closed"]
    BY DEF TaskStage, Early
  <2>2. /\ UNCHANGED <<loopVars, cancelled>> /\ released \subseteq released'
        /\ active' = active - 1 /\ active \in Nat
    BY SlotsType
  <2>3. active' <= active /\ active' \in Int
    BY <2>2
  <2> QED BY <2>1, <2>2, <2>3, TaskLeavesLoopAlone
<1>4. PermitInv'
  BY <1>1, ListFacts DEF RestTypeOK, PermitInv, TaskInv, Early, Undecided
<1>5. TaskInv'
  BY DEF RestTypeOK, PermitInv, TaskInv, Early, Undecided
<1> QED BY <1>1, <1>2, <1>3, <1>4, <1>5

LEMMA ExpireKeeps ==
    ASSUME Inv, NEW c \in Conn, Expire(c)
    PROVE  ListInv' /\ StateInv'
<1> USE DEF Inv, StateInv, Expire, Finish, Leave, Continue, Go,
        admissionVars, loopVars, listVars
<1>1. ListInv' /\ DOMAIN no_data' = DOMAIN no_data
  BY SameKeepsList
<1>2. RestTypeOK'
  BY DEF RestTypeOK, TaskStage, Outcome, Content
<1>3. LoopInv' /\ EvictionInv'
  BY TaskLeavesLoopAlone, SlotsType DEF RestTypeOK, TaskStage, Early
<1>4. PermitInv'
  BY <1>1, ListFacts DEF RestTypeOK, PermitInv, TaskInv, Early, Undecided
<1>5. TaskInv'
  BY DEF RestTypeOK, PermitInv, TaskInv, Early, Undecided
<1> QED BY <1>1, <1>2, <1>3, <1>4, <1>5

-----------------------------------------------------------------------------
(* The steps of the accept loop and of the peers                           *)

\* While it is busy, the accept loop is busy with a connection.
LEMMA LoopHasConnection ==
    ASSUME Inv, loop \notin {"Accepting", "Stopped"}
    PROVE  cur \in Conn /\ cur # NoConn
  BY FrontDoorAssumption DEF Inv, StateInv, LoopInv, RestTypeOK, OrNone

LEMMA ArrivesKeeps ==
    ASSUME Inv, NEW c \in Conn, Arrives(c)
    PROVE  ListInv' /\ StateInv'
<1> USE DEF Inv, StateInv, Arrives, admissionVars, loopVars, taskVars, listVars
<1>1. ListInv' /\ DOMAIN no_data' = DOMAIN no_data
  BY SameKeepsList
<1>2. RestTypeOK'
  BY FrontDoorAssumption DEF RestTypeOK, Content
<1>3. LoopInv' /\ EvictionInv'
  BY DEF LoopInv, EvictionInv
<1>4. PermitInv' /\ TaskInv'
  BY <1>1 DEF PermitInv, TaskInv
<1> QED BY <1>1, <1>2, <1>3, <1>4

LEMMA AcceptKeeps ==
    ASSUME Inv, NEW c \in Conn, Accept(c)
    PROVE  ListInv' /\ StateInv'
<1> USE DEF Inv, StateInv, Accept, admissionVars, listVars
<1>1. ListInv' /\ DOMAIN no_data' = DOMAIN no_data
  BY SameKeepsList
<1>2. RestTypeOK'
  BY DEF RestTypeOK, TaskStage, OrNone, LoopStage
<1>3. c # NoConn /\ cur = NoConn /\ task'[c] = "Accepted"
  BY FrontDoorAssumption DEF RestTypeOK, LoopInv
<1>4. LoopInv'
  <2>1. \A d \in Conn : task'[d] \in {"Accepted", "Admitted"} => d = c
    BY <1>3, FrontDoorAssumption DEF RestTypeOK, LoopInv
  <2> QED BY <1>3, <2>1 DEF LoopInv
<1>5. EvictionInv'
  BY DEF EvictionInv
<1>6. PermitInv' /\ TaskInv'
  BY <1>1, ListFacts DEF RestTypeOK, PermitInv, TaskInv, Early, Undecided
<1> QED BY <1>1, <1>2, <1>3, <1>4, <1>5, <1>6

LEMMA StopAcceptingKeeps ==
    ASSUME Inv, StopAccepting
    PROVE  ListInv' /\ StateInv'
<1> USE DEF Inv, StateInv, StopAccepting, LoopUnchanged, admissionVars, taskVars, listVars
<1>1. ListInv' /\ DOMAIN no_data' = DOMAIN no_data
  BY SameKeepsList
<1>2. RestTypeOK'
  BY DEF RestTypeOK, LoopStage
<1>3. LoopInv' /\ EvictionInv'
  BY DEF LoopInv, EvictionInv
<1>4. PermitInv' /\ TaskInv'
  BY <1>1 DEF PermitInv, TaskInv
<1> QED BY <1>1, <1>2, <1>3, <1>4

\* admit_if_under_cap, wherever the loop goes from there.
LEMMA AdmitKeeps ==
    ASSUME Inv, NEW no, AdmitUnchanged, UNCHANGED scans,
           NEW yes,
           \/ /\ loop = "Admitting" /\ yes = "Registering" /\ no = "Scanning"
           \/ /\ loop = "Retrying" /\ yes = "Registering"
              /\ no = IF scans < ScanPasses THEN "Scanning" ELSE "Final"
           \/ loop = "Final" /\ yes = "Cancelling" /\ no = "Cancelling",
           admit_if_under_cap(yes, no)
    PROVE  ListInv' /\ StateInv'
<1> USE DEF Inv, StateInv, AdmitUnchanged, listVars
<1>1. ListInv' /\ DOMAIN no_data' = DOMAIN no_data
  BY SameKeepsList
<1>2. /\ cur \in Conn /\ cur # NoConn /\ task \in [Conn -> TaskStage]
      /\ task[cur] = "Accepted" /\ loop' \in {yes, no} /\ cur' = cur
      /\ active \in Nat /\ Cap \in Nat /\ scans \in Nat /\ ScanPasses \in Nat \ {0}
  BY LoopHasConnection, SlotsType, FrontDoorAssumption
     DEF LoopInv, RestTypeOK, admit_if_under_cap
<1>3. \/ task' = task /\ loop' = no /\ active' = active /\ active >= Cap
      \/ task' = [task EXCEPT ![cur] = "Admitted"] /\ loop' = yes /\ active < Cap
  BY DEF admit_if_under_cap
<1>4. RestTypeOK'
  BY <1>2, <1>3 DEF RestTypeOK, TaskStage, LoopStage
<1>5. LoopInv'
  <2>1. \A d \in Conn : task'[d] \in {"Accepted", "Admitted"} => d = cur
    BY <1>2, <1>3 DEF LoopInv
  <2>2. task'[cur] = IF task' = task THEN "Accepted" ELSE "Admitted"
    BY <1>2, <1>3
  <2>3. CASE task' = task /\ loop' = no
    BY <1>2, <2>1, <2>3 DEF LoopInv
  <2>4. CASE task'[cur] = "Admitted" /\ loop' = yes
    BY <1>2, <2>1, <2>4 DEF LoopInv
  <2> QED BY <1>2, <1>3, <2>3, <2>4
<1>6. EvictionInv'
  <2>1. CASE task' = task /\ loop' = no /\ active' = active /\ active >= Cap
    BY <1>2, <2>1 DEF EvictionInv
  <2>2. CASE task' = [task EXCEPT ![cur] = "Admitted"] /\ loop' = yes
    <3>1. task'[cur] = "Admitted"
      BY <1>2, <2>2
    <3> QED BY <1>2, <2>2, <3>1 DEF EvictionInv
  <2> QED BY <1>3, <2>1, <2>2
<1>7. PermitInv' /\ TaskInv'
  BY <1>1, <1>2, <1>3, ListFacts DEF RestTypeOK, PermitInv, TaskInv, Early, Undecided
<1> QED BY <1>1, <1>4, <1>5, <1>6, <1>7

\* A snapshot of the list.
LEMMA WalksAreCandidates ==
    ASSUME ListInv, NEW w \in eviction_candidates
    PROVE  w \in Seq(Conn) /\ Len(w) <= ScanLimit
<1>1. CASE active < Cap
  BY <1>1, EmptySeq, FrontDoorAssumption DEF eviction_candidates
<1>2. CASE ~(active < Cap)
  <2>1. PICK n \in 0..ScanLimit : w \in [1..n -> DOMAIN no_data]
    BY <1>2 DEF eviction_candidates, Walks
  <2>2. w \in [1..n -> Conn] /\ n \in Nat
    BY <2>1, ListFacts, FrontDoorAssumption
  <2>3. w \in Seq(Conn)
    BY <2>2, SeqDef
  <2>4. Len(w) = n
    BY <2>2, <2>3, LenProperties
  <2> QED BY <2>1, <2>3, <2>4, FrontDoorAssumption
<1> QED BY <1>1, <1>2

LEMMA ScanKeeps ==
    ASSUME Inv, Scan
    PROVE  ListInv' /\ StateInv'
<1> USE DEF Inv, StateInv, Scan, admissionVars, taskVars, listVars
<1>1. ListInv' /\ DOMAIN no_data' = DOMAIN no_data
  BY SameKeepsList
<1>2. cur \in Conn /\ cur # NoConn
  BY LoopHasConnection
<1>3. RestTypeOK'
  <2>1. candidates' \in Seq(Conn) /\ Len(candidates') <= ScanLimit
    BY WalksAreCandidates
  <2>2. scans' \in 0..ScanPasses
    BY FrontDoorAssumption DEF RestTypeOK, LoopInv
  <2> QED BY <2>1, <2>2 DEF RestTypeOK, LoopStage
<1>4. LoopInv' /\ EvictionInv'
  BY <1>2, FrontDoorAssumption DEF LoopInv, EvictionInv
<1>5. PermitInv' /\ TaskInv'
  BY <1>1 DEF PermitInv, TaskInv
<1> QED BY <1>1, <1>3, <1>4, <1>5

LEMMA UpgradeKeeps ==
    ASSUME Inv, Upgrade
    PROVE  ListInv' /\ StateInv'
<1> USE DEF Inv, StateInv, Upgrade, admissionVars, taskVars, listVars
<1>1. ListInv' /\ DOMAIN no_data' = DOMAIN no_data
  BY SameKeepsList
<1>2. cur \in Conn /\ cur # NoConn
  BY LoopHasConnection
<1>3. RestTypeOK'
  BY HeadTailProperties DEF RestTypeOK, LoopStage, OrNone
<1>6. Head(candidates) # NoConn
  BY HeadTailProperties, FrontDoorAssumption DEF RestTypeOK
<1>4. LoopInv' /\ EvictionInv'
  BY <1>2, <1>6 DEF LoopInv, EvictionInv
<1>5. PermitInv' /\ TaskInv'
  BY <1>1 DEF PermitInv, TaskInv
<1> QED BY <1>1, <1>3, <1>4, <1>5

LEMMA LookKeeps ==
    ASSUME Inv, Look
    PROVE  ListInv' /\ StateInv'
<1> USE DEF Inv, StateInv, Look, admissionVars, taskVars, listVars
<1>1. ListInv' /\ DOMAIN no_data' = DOMAIN no_data
  BY SameKeepsList
<1>2. cur \in Conn /\ cur # NoConn
  BY LoopHasConnection
<1>3. RestTypeOK'
  BY DEF RestTypeOK, LoopStage, OrNone
<1>4. LoopInv' /\ EvictionInv'
  BY <1>2 DEF LoopInv, EvictionInv
<1>5. PermitInv' /\ TaskInv'
  BY <1>1 DEF PermitInv, TaskInv
<1> QED BY <1>1, <1>3, <1>4, <1>5

LEMMA PassEndsKeeps ==
    ASSUME Inv, PassEnds
    PROVE  ListInv' /\ StateInv'
<1> USE DEF Inv, StateInv, PassEnds, LoopUnchanged, admissionVars, taskVars, listVars
<1>1. ListInv' /\ DOMAIN no_data' = DOMAIN no_data
  BY SameKeepsList
<1>2. cur \in Conn /\ cur # NoConn
  BY LoopHasConnection
<1>3. RestTypeOK'
  BY DEF RestTypeOK, LoopStage
<1>4. LoopInv' /\ EvictionInv'
  BY <1>2 DEF LoopInv, EvictionInv
<1>5. PermitInv' /\ TaskInv'
  BY <1>1 DEF PermitInv, TaskInv
<1> QED BY <1>1, <1>3, <1>4, <1>5

LEMMA PeekBeforeSpawnKeeps ==
    ASSUME Inv, PeekBeforeSpawn
    PROVE  ListInv' /\ StateInv'
<1> USE DEF Inv, StateInv, PeekBeforeSpawn, LoopUnchanged, admissionVars, taskVars, listVars
<1>1. ListInv' /\ DOMAIN no_data' = DOMAIN no_data
  BY SameKeepsList
<1>2. cur \in Conn /\ cur # NoConn
  BY LoopHasConnection
<1>3. RestTypeOK'
  BY DEF RestTypeOK, LoopStage
<1>4. LoopInv' /\ EvictionInv'
  BY <1>2 DEF LoopInv, EvictionInv
<1>5. PermitInv' /\ TaskInv'
  BY <1>1 DEF PermitInv, TaskInv
<1> QED BY <1>1, <1>3, <1>4, <1>5

\* The candidates that are left.
LEMMA CandidatesLeft ==
    ASSUME RestTypeOK, candidates # <<>>
    PROVE  /\ Head(candidates) \in Conn
           /\ Tail(candidates) \in Seq(Conn) /\ Len(Tail(candidates)) <= ScanLimit
<1>1. Head(candidates) \in Conn
  BY HeadTailProperties DEF RestTypeOK
<1>2. Tail(candidates) \in Seq(Conn) /\ Len(Tail(candidates)) = Len(candidates) - 1
  BY HeadTailProperties DEF RestTypeOK
<1>3. Len(candidates) \in Nat /\ Len(candidates) <= ScanLimit /\ ScanLimit \in Nat
  BY LenProperties, FrontDoorAssumption DEF RestTypeOK
<1> QED BY <1>1, <1>2, <1>3

\* try_evict_empty: what it does to whom.
LEMMA EvictCases ==
    ASSUME Inv, Evict, NEW c, c = Head(candidates)
    PROVE  /\ ListInv' /\ DOMAIN no_data' \subseteq DOMAIN no_data
           /\ \/ /\ UNCHANGED <<active, released, evicted>>
                 /\ evicted = NoConn /\ loop' = "Probing"
              \/ /\ Listed(c) /\ c \in Conn /\ c # NoConn /\ c \notin released
                 /\ c \notin DOMAIN no_data'
                 /\ active = Cap /\ active' = active - 1
                 /\ released' = released \cup {c}
                 /\ evicted' = c /\ loop' = "Final"
<1>1. evicted = NoConn
  BY DEF Evict, Inv, StateInv, EvictionInv
<1>2. CASE active < Cap \/ ~Listed(c)
  <2>1. UNCHANGED <<active, listVars, released, evicted>> /\ loop' = "Probing"
    BY <1>1, <1>2 DEF Evict, try_evict_empty
  <2> QED BY <1>1, <2>1, SameKeepsList DEF Inv
<1>3. CASE ~(active < Cap) /\ Listed(c)
  <2>1. /\ remove_no_data_locked(c)
        /\ IF c \in released THEN UNCHANGED <<active, released, evicted>>
           ELSE /\ released' = released \cup {c}
                /\ active' = active - 1
                /\ evicted' = c
        /\ loop' = IF evicted' = NoConn THEN "Probing" ELSE "Final"
    BY <1>3 DEF Evict, try_evict_empty
  <2>2. ListInv' /\ DOMAIN no_data' = DOMAIN no_data \ {c}
    BY <2>1, RemoveKeepsList DEF Inv
  <2>3. c \in Conn /\ c # NoConn
    BY <1>3, ListFacts, FrontDoorAssumption DEF Listed, Inv
  <2>4. active = Cap
    BY <1>3, SlotsType
  <2> QED BY <1>1, <1>3, <2>1, <2>2, <2>3, <2>4
<1> QED BY <1>2, <1>3

LEMMA EvictKeeps ==
    ASSUME Inv, Evict
    PROVE  ListInv' /\ StateInv'
<1> DEFINE c == Head(candidates)
<1> USE DEF Inv, StateInv
<1>1. /\ ListInv' /\ DOMAIN no_data' \subseteq DOMAIN no_data
      /\ \/ /\ UNCHANGED <<active, released, evicted>>
            /\ evicted = NoConn /\ loop' = "Probing"
         \/ /\ Listed(c) /\ c \in Conn /\ c # NoConn /\ c \notin released
            /\ c \notin DOMAIN no_data'
            /\ active = Cap /\ active' = active - 1
            /\ released' = released \cup {c}
            /\ evicted' = c /\ loop' = "Final"
  BY EvictCases
<1>2. /\ UNCHANGED <<wire, cancelled, cur, scans, removed_stale, probing, taskVars>>
      /\ loop = "Evicting" /\ candidates' = Tail(candidates)
  BY DEF Evict
<1>3. /\ cur \in Conn /\ cur # NoConn /\ candidates # <<>> /\ task[cur] = "Accepted"
      /\ evicted = NoConn
  BY <1>2, LoopHasConnection DEF LoopInv, EvictionInv
<1>4. candidates' \in Seq(Conn) /\ Len(candidates') <= ScanLimit
  BY <1>2, <1>3, CandidatesLeft
<1> HIDE DEF c
<1>5. RestTypeOK'
  BY <1>1, <1>2, <1>4 DEF RestTypeOK, LoopStage, OrNone, taskVars
<1>6. LoopInv'
  BY <1>1, <1>2, <1>3 DEF LoopInv, taskVars
<1>7. active \in Nat /\ Cap \in Nat
  BY SlotsType
<1>8. EvictionInv'
  BY <1>1, <1>2, <1>3, <1>7 DEF EvictionInv, taskVars
<1>9. PermitInv'
  BY <1>1, <1>2 DEF PermitInv, taskVars, Listed
<1>10. TaskInv'
  BY <1>1, <1>2 DEF PermitInv, TaskInv, taskVars, Listed
<1> QED BY <1>1, <1>5, <1>6, <1>8, <1>9, <1>10

LEMMA RemoveStaleKeeps ==
    ASSUME Inv, remove_stale_no_data
    PROVE  ListInv' /\ StateInv'
<1> USE DEF Inv, StateInv, remove_stale_no_data, taskVars
<1>1. ListInv' /\ DOMAIN no_data' \subseteq DOMAIN no_data
  BY RemoveKeepsList
<1>2. cur \in Conn /\ cur # NoConn
  BY LoopHasConnection
<1>3. candidates' \in Seq(Conn) /\ Len(candidates') <= ScanLimit
  BY CandidatesLeft DEF LoopInv
<1>4. RestTypeOK'
  BY <1>3 DEF RestTypeOK, LoopStage
<1>5. LoopInv' /\ EvictionInv'
  BY <1>2 DEF LoopInv, EvictionInv
<1>6. PermitInv' /\ TaskInv'
  BY <1>1 DEF PermitInv, TaskInv
<1> QED BY <1>1, <1>4, <1>5, <1>6

LEMMA CancelEvictedKeeps ==
    ASSUME Inv, CancelEvicted
    PROVE  ListInv' /\ StateInv'
<1> USE DEF Inv, StateInv, CancelEvicted, LoopUnchanged, taskVars, listVars
<1>1. ListInv' /\ DOMAIN no_data' = DOMAIN no_data
  BY SameKeepsList
<1>2. cur \in Conn /\ cur # NoConn
  BY LoopHasConnection
<1>3. RestTypeOK'
  BY DEF RestTypeOK, LoopStage, OrNone
<1>4. LoopInv'
  BY <1>2 DEF LoopInv
<1>5. EvictionInv'
  BY <1>2 DEF EvictionInv
<1>6. PermitInv' /\ TaskInv'
  BY <1>1 DEF PermitInv, TaskInv
<1> QED BY <1>1, <1>3, <1>4, <1>5, <1>6

\* The variables of the loop between two iterations.
LEMMA AcceptNextTypes ==
    ASSUME RestTypeOK, AcceptNext
    PROVE  /\ loop' \in LoopStage /\ cur' \in OrNone(Conn)
           /\ candidates' \in Seq(Conn) /\ Len(candidates') <= ScanLimit
           /\ scans' \in 0..ScanPasses /\ removed_stale' \in BOOLEAN
           /\ evicted' \in OrNone(Conn) /\ probing' \in OrNone(Conn)
<1>1. candidates' \in Seq(Conn) /\ Len(candidates') = 0
  BY EmptySeq DEF AcceptNext
<1>2. ScanLimit \in Nat /\ ScanPasses \in Nat
  BY FrontDoorAssumption
<1>3. Len(candidates') <= ScanLimit /\ scans' \in 0..ScanPasses
  BY <1>1, <1>2 DEF AcceptNext
<1> QED BY <1>1, <1>3 DEF AcceptNext, RestTypeOK, LoopStage, OrNone

\* The end of an iteration.
LEMMA AcceptNextKeeps ==
    ASSUME Inv, AcceptNext, loop \notin {"Accepting", "Stopped"},
           NEW s \in TaskStage \ Early, task' = [task EXCEPT ![cur] = s],
           UNCHANGED <<released, cancelled>>
    PROVE  LoopInv' /\ EvictionInv'
<1> USE DEF Inv, StateInv, AcceptNext
<1>1. cur \in Conn /\ cur # NoConn
  BY LoopHasConnection
<1>2. \A d \in Conn : task'[d] \notin {"Accepted", "Admitted"}
  BY <1>1 DEF RestTypeOK, LoopInv, Early
<1>3. LoopInv'
  BY <1>2 DEF LoopInv
<1>4. EvictionInv'
  BY DEF EvictionInv
<1> QED BY <1>3, <1>4

LEMMA OverCapKeeps ==
    ASSUME Inv, handle_over_cap_stream
    PROVE  ListInv' /\ StateInv'
<1> USE DEF Inv, StateInv, handle_over_cap_stream, admissionVars, listVars
<1>1. ListInv' /\ DOMAIN no_data' = DOMAIN no_data
  BY SameKeepsList
<1>2. cur \in Conn /\ task[cur] = "Accepted"
  BY LoopHasConnection DEF LoopInv
<1>3. RestTypeOK'
  BY AcceptNextTypes DEF RestTypeOK, TaskStage, Outcome
<1>4. LoopInv' /\ EvictionInv'
  <2>1. "Closed" \in TaskStage \ Early
    BY DEF TaskStage, Early
  <2> QED BY <2>1, AcceptNextKeeps
<1>5. PermitInv' /\ TaskInv'
  BY <1>1, <1>2, ListFacts DEF RestTypeOK, PermitInv, TaskInv, Early, Undecided
<1> QED BY <1>1, <1>3, <1>4, <1>5

\* A permit has its flag set neither before its task runs nor by the task.
LEMMA SpawnCases ==
    ASSUME Inv, Spawn
    PROVE  /\ cur \in Conn /\ task[cur] = "Admitted" /\ cur \notin released
           /\ cur \notin DOMAIN no_data
           /\ task' = [task EXCEPT ![cur] = "Top"] /\ UNCHANGED outcome
           /\ IF loop = "Marking" THEN remove_no_data_locked(cur) ELSE insert_no_data_locked(cur)
<1>1. cur \in Conn /\ task[cur] = "Admitted"
  BY LoopHasConnection DEF Inv, StateInv, LoopInv, Spawn
<1>2. cur \notin released /\ cur \notin DOMAIN no_data
  BY <1>1 DEF Inv, StateInv, PermitInv, Early
<1> QED BY <1>1, <1>2 DEF Spawn

LEMMA SpawnKeeps ==
    ASSUME Inv, Spawn
    PROVE  ListInv' /\ StateInv'
<1> USE DEF Inv, StateInv
<1>1. /\ cur \in Conn /\ task[cur] = "Admitted" /\ cur \notin released
      /\ cur \notin DOMAIN no_data
      /\ task' = [task EXCEPT ![cur] = "Top"] /\ UNCHANGED outcome
  BY SpawnCases
<1>2. ListInv' /\ DOMAIN no_data' \subseteq DOMAIN no_data \cup {cur}
  BY <1>1, SpawnCases, InsertKeepsList, RemoveKeepsList DEF Listed
<1>3. /\ UNCHANGED <<wire, active, released, cancelled, data_seen, peeked, expired>>
      /\ loop \in {"Listing", "Marking"} /\ AcceptNext
  BY DEF Spawn
<1>4. RestTypeOK'
  BY <1>1, <1>3, AcceptNextTypes DEF RestTypeOK, TaskStage
<1>5. LoopInv' /\ EvictionInv'
  <2>1. "Top" \in TaskStage \ Early
    BY DEF TaskStage, Early
  <2> QED BY <1>1, <1>3, <2>1, AcceptNextKeeps
<1>6. cur \notin data_seen /\ outcome[cur] = "none"
  BY <1>1 DEF TaskInv, Early
<1>7. PermitInv'
  BY <1>1, <1>2, <1>3, <1>6, ListFacts DEF RestTypeOK, PermitInv, Early
<1>8. TaskInv'
  BY <1>1, <1>3, <1>6 DEF RestTypeOK, TaskInv, Early, Undecided
<1> QED BY <1>2, <1>4, <1>5, <1>7, <1>8


-----------------------------------------------------------------------------
(* Slots, and the admission that the table implements                      *)

Evictees == (cancelled \cup {evicted}) \ {NoConn}
Served == {c \in Conn : outcome[c] \in {"claimed", "passed"}}

\* What a step does to the slots, and what BoundedAdmission may make of it.
Lawful == SlotsAreCounted' /\ [Admission!Next]_(Admission!vars)

\* The abstract specification counts as this one does.
LEMMA SameCardinality ==
    ASSUME NEW S
    PROVE  Admission!Cardinality(S) = Cardinality(S)
  BY DEF Admission!Cardinality, Cardinality

LEMMA StutterIsLawful ==
    ASSUME Inv, Holders' = Holders, active' = active, Evictees' = Evictees, Served' = Served
    PROVE  Lawful
<1>1. SlotsAreCounted'
  BY DEF Inv, SlotsAreCounted
<1>2. UNCHANGED Admission!vars
  BY DEF Admission!vars, Evictees, Served
<1> QED BY <1>1, <1>2 DEF Lawful

LEMMA AdmitIsLawful ==
    ASSUME Inv, NEW c \in Conn, c \notin Holders \cup Evictees \cup Served,
           active < Cap, active' = active + 1, Holders' = Holders \cup {c},
           Evictees' = Evictees, Served' = Served
    PROVE  Lawful
<1>1. /\ IsFiniteSet(Holders) /\ active = Cardinality(Holders)
      /\ active \in Nat /\ Cap \in Nat
  BY SlotsType
<1>2. Cardinality(Holders \cup {c}) = Cardinality(Holders) + 1
  BY <1>1, FS_AddElement
<1>3. SlotsAreCounted'
  <2>1. active' = Cardinality(Holders')
    BY <1>1, <1>2
  <2>2. active' <= Cap
    BY <1>1
  <2> QED BY <2>1, <2>2 DEF SlotsAreCounted
<1>4. Admission!Admit(c)
  <2>1. Cardinality(Holders) < Cap
    BY <1>1
  <2> QED BY <2>1, SameCardinality DEF Admission!Admit, Evictees, Served
<1> QED BY <1>3, <1>4 DEF Lawful, Admission!Next

\* A slot is returned by the connection that holds it.
LEMMA SlotReturned ==
    ASSUME Inv, NEW c \in Holders, active' = active - 1, Holders' = Holders \ {c}
    PROVE  SlotsAreCounted'
<1>1. /\ IsFiniteSet(Holders) /\ active = Cardinality(Holders)
      /\ active \in Nat /\ Cap \in Nat /\ active <= Cap
  BY SlotsType
<1>2. Cardinality(Holders \ {c}) = Cardinality(Holders) - 1
  BY <1>1, FS_RemoveElement
<1>3. active' = Cardinality(Holders')
  BY <1>1, <1>2
<1>4. active' <= Cap
  BY <1>1
<1> QED BY <1>3, <1>4 DEF SlotsAreCounted

LEMMA LeaveIsLawful ==
    ASSUME Inv, NEW c \in Conn, c \in Holders,
           active' = active - 1, Holders' = Holders \ {c},
           Evictees' = Evictees, Served' = Served
    PROVE  Lawful
<1>1. SlotsAreCounted'
  BY SlotReturned
<1>2. Admission!Leave(c)
  BY DEF Admission!Leave, Evictees, Served
<1> QED BY <1>1, <1>2 DEF Lawful, Admission!Next

LEMMA EvictIsLawful ==
    ASSUME Inv, NEW c \in Conn, c \in Holders, c \notin Served, active = Cap,
           active' = active - 1, Holders' = Holders \ {c},
           Evictees' = Evictees \cup {c}, Served' = Served
    PROVE  Lawful
<1>1. SlotsAreCounted'
  BY SlotReturned
<1>2. Cardinality(Holders) = Cap
  BY SlotsType
<1>3. Admission!Evict(c)
  BY <1>2, SameCardinality DEF Admission!Evict, Evictees, Served
<1> QED BY <1>1, <1>3 DEF Lawful, Admission!Next

LEMMA ServeIsLawful ==
    ASSUME Inv, NEW c \in Conn, c \notin Evictees \cup Served,
           active' = active, Holders' = Holders, Evictees' = Evictees,
           Served' = Served \cup {c}
    PROVE  Lawful
<1>1. SlotsAreCounted'
  BY DEF Inv, SlotsAreCounted
<1>2. Admission!Serve(c)
  BY DEF Admission!Serve, Evictees, Served
<1> QED BY <1>1, <1>2 DEF Lawful, Admission!Next

\* The stages in which a permit whose flag is not set is held.
Held == TaskStage \ {"Backlog", "Accepted", "Closed", "Unlocking"}

\* A task that goes on keeps its slot, and is served only when it says so.
LEMMA TaskKeepsSlots ==
    ASSUME Inv, NEW c \in Conn, task[c] \in Held,
           NEW s \in Held, task' = [task EXCEPT ![c] = s],
           NEW how, outcome' = [outcome EXCEPT ![c] = how], outcome[c] \notin {"claimed", "passed"},
           UNCHANGED <<active, released, cancelled, evicted>>
    PROVE  /\ Holders' = Holders /\ Evictees' = Evictees
           /\ Served' = IF how \in {"claimed", "passed"} THEN Served \cup {c} ELSE Served
<1>1. task \in [Conn -> TaskStage] /\ outcome \in [Conn -> Outcome]
  BY DEF Inv, StateInv, RestTypeOK
<1>2. Holders' = Holders
  BY <1>1 DEF Holders, Held
<1>3. Served' = IF how \in {"claimed", "passed"} THEN Served \cup {c} ELSE Served
  BY <1>1 DEF Served
<1>4. Evictees' = Evictees
  BY DEF Evictees
<1> QED BY <1>2, <1>3, <1>4

\* A task that has decided nothing is not served.
LEMMA UndecidedIsNotServed ==
    ASSUME Inv, NEW c \in Conn, task[c] \in Early \cup Undecided
    PROVE  outcome[c] = "none"
  BY DEF Inv, StateInv, TaskInv

LEMMA LoopIsLawful ==
    ASSUME Inv, NEW c \in Conn, Loop(c)
    PROVE  Lawful
<1> USE DEF Loop, Finish, Leave, Continue, Go, admissionVars, loopVars, listVars
<1>1. task[c] \in Held /\ outcome[c] = "none" /\ outcome \in [Conn -> Outcome]
  BY UndecidedIsNotServed DEF Held, TaskStage, Undecided, Inv, StateInv, RestTypeOK
<1>2. \E s \in Held : task' = [task EXCEPT ![c] = s]
  BY DEF Held, TaskStage
<1>3. \E how \in {"none", "evicted", "timed_out", "dropped"} : outcome' = [outcome EXCEPT ![c] = how]
  BY <1>1
<1>4. UNCHANGED <<active, released, cancelled, evicted>>
  OBVIOUS
<1>5. Holders' = Holders /\ Evictees' = Evictees /\ Served' = Served
  BY <1>1, <1>2, <1>3, <1>4, TaskKeepsSlots
<1> QED BY <1>4, <1>5, StutterIsLawful

LEMMA MarkNoDataIsLawful ==
    ASSUME Inv, NEW c \in Conn, mark_no_data_if_empty(c)
    PROVE  Lawful
<1> USE DEF mark_no_data_if_empty, Finish, Leave, Continue, Go, admissionVars, loopVars, listVars
<1>1. task[c] \in Held /\ outcome[c] = "none" /\ outcome \in [Conn -> Outcome]
  BY UndecidedIsNotServed DEF Held, TaskStage, Undecided, Inv, StateInv, RestTypeOK
<1>2. \E s \in Held : task' = [task EXCEPT ![c] = s]
  BY DEF Held, TaskStage
<1>3. \E how \in {"none", "evicted", "timed_out", "dropped"} : outcome' = [outcome EXCEPT ![c] = how]
  BY <1>1
<1>4. UNCHANGED <<active, released, cancelled, evicted>>
  OBVIOUS
<1>5. Holders' = Holders /\ Evictees' = Evictees /\ Served' = Served
  BY <1>1, <1>2, <1>3, <1>4, TaskKeepsSlots
<1> QED BY <1>4, <1>5, StutterIsLawful

LEMMA MarkBeforePeekIsLawful ==
    ASSUME Inv, NEW c \in Conn, MarkBeforePeek(c)
    PROVE  Lawful
<1> USE DEF MarkBeforePeek, Finish, Leave, Continue, Go, admissionVars, loopVars, listVars
<1>1. task[c] \in Held /\ outcome[c] = "none" /\ outcome \in [Conn -> Outcome]
  BY UndecidedIsNotServed DEF Held, TaskStage, Undecided, Inv, StateInv, RestTypeOK
<1>2. \E s \in Held : task' = [task EXCEPT ![c] = s]
  BY DEF Held, TaskStage
<1>3. \E how \in {"none", "evicted", "timed_out", "dropped"} : outcome' = [outcome EXCEPT ![c] = how]
  BY <1>1
<1>4. UNCHANGED <<active, released, cancelled, evicted>>
  OBVIOUS
<1>5. Holders' = Holders /\ Evictees' = Evictees /\ Served' = Served
  BY <1>1, <1>2, <1>3, <1>4, TaskKeepsSlots
<1> QED BY <1>4, <1>5, StutterIsLawful

LEMMA PeekIsLawful ==
    ASSUME Inv, NEW c \in Conn, Peek(c)
    PROVE  Lawful
<1> USE DEF Peek, Finish, Leave, Continue, Go, admissionVars, loopVars, listVars
<1>1. task[c] \in Held /\ outcome[c] = "none" /\ outcome \in [Conn -> Outcome]
  BY UndecidedIsNotServed DEF Held, TaskStage, Undecided, Inv, StateInv, RestTypeOK
<1>2. \E s \in Held : task' = [task EXCEPT ![c] = s]
  BY DEF Held, TaskStage
<1>3. \E how \in {"none", "evicted", "timed_out", "dropped"} : outcome' = [outcome EXCEPT ![c] = how]
  BY <1>1
<1>4. UNCHANGED <<active, released, cancelled, evicted>>
  OBVIOUS
<1>5. Holders' = Holders /\ Evictees' = Evictees /\ Served' = Served
  BY <1>1, <1>2, <1>3, <1>4, TaskKeepsSlots
<1> QED BY <1>4, <1>5, StutterIsLawful

LEMMA MarkDataSeenIsLawful ==
    ASSUME Inv, NEW c \in Conn, mark_data_seen(c)
    PROVE  Lawful
<1> USE DEF mark_data_seen, Judge, Finish, Leave, Continue, Go, admissionVars, loopVars, listVars
<1>1. task[c] \in Held /\ outcome[c] = "none" /\ outcome \in [Conn -> Outcome]
  BY UndecidedIsNotServed DEF Held, TaskStage, Undecided, Inv, StateInv, RestTypeOK
<1>2. \E s \in Held : task' = [task EXCEPT ![c] = s]
  BY DEF Held, TaskStage
<1>3. \E how \in {"none", "evicted", "timed_out", "dropped"} : outcome' = [outcome EXCEPT ![c] = how]
  BY <1>1
<1>4. UNCHANGED <<active, released, cancelled, evicted>>
  OBVIOUS
<1>5. Holders' = Holders /\ Evictees' = Evictees /\ Served' = Served
  BY <1>1, <1>2, <1>3, <1>4, TaskKeepsSlots
<1> QED BY <1>4, <1>5, StutterIsLawful

LEMMA SleepIsLawful ==
    ASSUME Inv, NEW c \in Conn, Sleep(c)
    PROVE  Lawful
<1> USE DEF Sleep, Finish, Leave, Continue, Go, admissionVars, loopVars, listVars
<1>1. task[c] \in Held /\ outcome[c] = "none" /\ outcome \in [Conn -> Outcome]
  BY UndecidedIsNotServed DEF Held, TaskStage, Undecided, Inv, StateInv, RestTypeOK
<1>2. \E s \in Held : task' = [task EXCEPT ![c] = s]
  BY DEF Held, TaskStage
<1>3. \E how \in {"none", "evicted", "timed_out", "dropped"} : outcome' = [outcome EXCEPT ![c] = how]
  BY <1>1
<1>4. UNCHANGED <<active, released, cancelled, evicted>>
  OBVIOUS
<1>5. Holders' = Holders /\ Evictees' = Evictees /\ Served' = Served
  BY <1>1, <1>2, <1>3, <1>4, TaskKeepsSlots
<1> QED BY <1>4, <1>5, StutterIsLawful


\* Seen data protects from eviction: the stream of an evictee is handed to nobody.
LEMMA HandingOverIsNotEvicted ==
    ASSUME Inv, NEW c \in Conn, task[c] \in {"HandingOver", "Accepted"}
    PROVE  c \notin Evictees \cup Served \cup released /\ outcome[c] = "none"
<1>1. outcome[c] = "none"
  BY UndecidedIsNotServed DEF Early, Undecided
<1>2. c \notin released
  BY DEF Inv, StateInv, TaskInv, PermitInv, Early
<1>3. c \notin Evictees
  BY <1>2 DEF Inv, StateInv, EvictionInv, Evictees
<1> QED BY <1>1, <1>2, <1>3 DEF Served

LEMMA ClaimedIsLawful ==
    ASSUME Inv, NEW c \in Conn, handle_claimed_stream(c)
    PROVE  Lawful
<1> USE DEF handle_claimed_stream, Finish, Leave, admissionVars, loopVars, listVars
<1>1. task[c] \in Held /\ c \notin Evictees \cup Served /\ outcome[c] = "none"
  BY HandingOverIsNotEvicted DEF Held, TaskStage
<1>2. \E s \in Held : task' = [task EXCEPT ![c] = s]
  BY DEF Held, TaskStage
<1>3. PICK how : outcome' = [outcome EXCEPT ![c] = how]
  OBVIOUS
<1>4. UNCHANGED <<active, released, cancelled, evicted>>
  OBVIOUS
<1>5. /\ Holders' = Holders /\ Evictees' = Evictees
      /\ Served' = IF how \in {"claimed", "passed"} THEN Served \cup {c} ELSE Served
  BY <1>1, <1>2, <1>3, <1>4, TaskKeepsSlots
<1>6. CASE how \in {"claimed", "passed"}
  BY <1>1, <1>4, <1>5, <1>6, ServeIsLawful
<1>7. CASE how \notin {"claimed", "passed"}
  BY <1>4, <1>5, <1>7, StutterIsLawful
<1> QED BY <1>6, <1>7

LEMMA PassIsLawful ==
    ASSUME Inv, NEW c \in Conn, handle_pass_stream(c)
    PROVE  Lawful
<1> USE DEF handle_pass_stream, Finish, Leave, admissionVars, loopVars, listVars
<1>1. task[c] \in Held /\ c \notin Evictees \cup Served /\ outcome[c] = "none"
  BY HandingOverIsNotEvicted DEF Held, TaskStage
<1>2. \E s \in Held : task' = [task EXCEPT ![c] = s]
  BY DEF Held, TaskStage
<1>3. PICK how : outcome' = [outcome EXCEPT ![c] = how]
  OBVIOUS
<1>4. UNCHANGED <<active, released, cancelled, evicted>>
  OBVIOUS
<1>5. /\ Holders' = Holders /\ Evictees' = Evictees
      /\ Served' = IF how \in {"claimed", "passed"} THEN Served \cup {c} ELSE Served
  BY <1>1, <1>2, <1>3, <1>4, TaskKeepsSlots
<1>6. CASE how \in {"claimed", "passed"}
  BY <1>1, <1>4, <1>5, <1>6, ServeIsLawful
<1>7. CASE how \notin {"claimed", "passed"}
  BY <1>4, <1>5, <1>7, StutterIsLawful
<1> QED BY <1>6, <1>7

\* The steps that leave everybody's slot and fate alone.
LEMMA QuietIsLawful ==
    ASSUME Inv, NEW c,
           \/ Arrives(c) \/ Expire(c) \/ Accept(c) \/ proxy_to_upstream(c)
           \/ StopAccepting \/ Scan \/ Upgrade \/ Look \/ remove_stale_no_data
           \/ PassEnds \/ PeekBeforeSpawn
    PROVE  Lawful
<1>1. UNCHANGED <<active, released, cancelled, evicted, outcome>>
  BY DEF Arrives, Expire, Accept, proxy_to_upstream, Continue, Go, StopAccepting, Scan, Upgrade,
         Look, remove_stale_no_data, PassEnds, PeekBeforeSpawn, LoopUnchanged,
         admissionVars, loopVars, taskVars, listVars
<1>2. Evictees' = Evictees /\ Served' = Served
  BY <1>1 DEF Evictees, Served
<1>3. \/ task' = task
      \/ task[c] = "Backlog" /\ task' = [task EXCEPT ![c] = "Accepted"]
      \/ task[c] = "Proxying" /\ task' = [task EXCEPT ![c] = "Releasing"]
  BY DEF Arrives, Expire, Accept, proxy_to_upstream, Continue, Go, StopAccepting, Scan, Upgrade,
         Look, remove_stale_no_data, PassEnds, PeekBeforeSpawn, taskVars
<1>4. Holders' = Holders
  BY <1>1, <1>3 DEF Holders, Inv, StateInv, RestTypeOK
<1> QED BY <1>1, <1>2, <1>4, StutterIsLawful

LEMMA DropPermitIsLawful ==
    ASSUME Inv, NEW c \in Conn, DropPermit(c)
    PROVE  Lawful
<1>1. /\ UNCHANGED <<active, cancelled, evicted, outcome>> /\ released' = released \cup {c}
      /\ task[c] = "Releasing"
      /\ task' = [task EXCEPT ![c] = IF c \in released THEN "Closed" ELSE "Unlocking"]
  BY DEF DropPermit, Continue, Go, loopVars
<1>2. Evictees' = Evictees /\ Served' = Served
  BY <1>1 DEF Evictees, Served
<1>3. Holders' = Holders
  BY <1>1 DEF Holders, Inv, StateInv, RestTypeOK
<1> QED BY <1>1, <1>2, <1>3, StutterIsLawful

LEMMA ReturnSlotIsLawful ==
    ASSUME Inv, NEW c \in Conn, ReturnSlot(c)
    PROVE  Lawful
<1>1. /\ UNCHANGED <<cancelled, evicted, outcome, released>> /\ active' = active - 1
      /\ task[c] = "Unlocking" /\ task' = [task EXCEPT ![c] = "Closed"]
  BY DEF ReturnSlot, Continue, Go, loopVars
<1>2. Evictees' = Evictees /\ Served' = Served
  BY <1>1 DEF Evictees, Served
<1>3. c \in Holders /\ Holders' = Holders \ {c}
  BY <1>1 DEF Holders, Inv, StateInv, RestTypeOK
<1> QED BY <1>1, <1>2, <1>3, LeaveIsLawful

LEMMA AdmissionIsLawful ==
    ASSUME Inv, loop \in {"Admitting", "Retrying", "Final"}, AdmitUnchanged,
           NEW yes, NEW no, admit_if_under_cap(yes, no)
    PROVE  Lawful
<1>1. /\ UNCHANGED <<cancelled, evicted, outcome, released>>
      /\ \/ active < Cap /\ active' = active + 1 /\ task' = [task EXCEPT ![cur] = "Admitted"]
         \/ UNCHANGED <<active, task>>
  BY DEF AdmitUnchanged, admit_if_under_cap
<1>2. Evictees' = Evictees /\ Served' = Served
  BY <1>1 DEF Evictees, Served
<1>3. cur \in Conn /\ task[cur] = "Accepted"
  BY LoopHasConnection DEF Inv, StateInv, LoopInv
<1>4. cur \notin Evictees \cup Served \cup released /\ cur \notin Holders
  BY <1>3, HandingOverIsNotEvicted DEF Holders
<1>5. CASE active < Cap /\ active' = active + 1 /\ task' = [task EXCEPT ![cur] = "Admitted"]
  <2>1. Holders' = Holders \cup {cur}
    BY <1>1, <1>3, <1>4, <1>5 DEF Holders, Inv, StateInv, RestTypeOK
  <2> QED BY <1>2, <1>3, <1>4, <1>5, <2>1, AdmitIsLawful
<1>6. CASE UNCHANGED <<active, task>>
  <2>1. Holders' = Holders
    BY <1>1, <1>6 DEF Holders
  <2> QED BY <1>2, <1>6, <2>1, StutterIsLawful
<1> QED BY <1>1, <1>5, <1>6

LEMMA EvictionIsLawful ==
    ASSUME Inv, Evict
    PROVE  Lawful
<1>1. PICK c : c = Head(candidates)
  OBVIOUS
<1>2. /\ UNCHANGED <<cancelled, task, outcome>>
      /\ evicted = NoConn
  BY DEF Evict, taskVars, Inv, StateInv, EvictionInv
<1>3. Served' = Served
  BY <1>2 DEF Served
<1>4. CASE UNCHANGED <<active, released, evicted>>
  <2>1. Holders' = Holders /\ Evictees' = Evictees
    BY <1>2, <1>4 DEF Holders, Evictees
  <2> QED BY <1>3, <1>4, <2>1, StutterIsLawful
<1>5. CASE ~UNCHANGED <<active, released, evicted>>
  <2>1. /\ Listed(c) /\ c \in Conn /\ c # NoConn /\ c \notin released
        /\ active = Cap /\ active' = active - 1
        /\ released' = released \cup {c} /\ evicted' = c
    BY <1>1, <1>5, EvictCases
  <2>2. /\ task[c] \notin Early \cup {"Closed", "Unlocking"}
        /\ outcome[c] \notin {"claimed", "passed"}
    BY <2>1 DEF Inv, StateInv, PermitInv, Listed
  <2>3. c \in Holders /\ c \notin Served
    BY <2>1, <2>2 DEF Holders, Served, Early
  <2>4. Holders' = Holders \ {c}
    BY <1>2, <2>1, <2>2 DEF Holders
  <2>5. Evictees' = Evictees \cup {c}
    BY <1>2, <2>1 DEF Evictees
  <2> QED BY <1>3, <2>1, <2>3, <2>4, <2>5, EvictIsLawful
<1> QED BY <1>4, <1>5

LEMMA CancelEvictedIsLawful ==
    ASSUME Inv, CancelEvicted
    PROVE  Lawful
<1>1. /\ UNCHANGED <<active, released, task, outcome, evicted>>
      /\ cancelled' = IF evicted = NoConn THEN cancelled ELSE cancelled \cup {evicted}
  BY DEF CancelEvicted, LoopUnchanged, taskVars
<1>2. Holders' = Holders /\ Served' = Served
  BY <1>1 DEF Holders, Served
<1>3. Evictees' = Evictees
  BY <1>1 DEF Evictees
<1> QED BY <1>1, <1>2, <1>3, StutterIsLawful

LEMMA OverCapIsLawful ==
    ASSUME Inv, handle_over_cap_stream
    PROVE  Lawful
<1>1. /\ UNCHANGED <<active, released, cancelled>> /\ loop = "OverCap" /\ evicted' = NoConn
      /\ task' = [task EXCEPT ![cur] = "Closed"]
  BY DEF handle_over_cap_stream, AcceptNext, admissionVars
<1>2. cur \in Conn /\ task[cur] = "Accepted"
  BY <1>1, LoopHasConnection DEF Inv, StateInv, LoopInv
<1>3. cur \notin Evictees \cup Served \cup released /\ outcome[cur] = "none"
  BY <1>2, HandingOverIsNotEvicted
<1>4. Evictees' = Evictees
  BY <1>1 DEF Inv, StateInv, EvictionInv, Evictees
<1>5. Holders' = Holders
  BY <1>1, <1>2, <1>3 DEF Holders, Inv, StateInv, RestTypeOK
<1>6. PICK how : outcome' = [outcome EXCEPT ![cur] = how]
  BY DEF handle_over_cap_stream
<1>7. outcome \in [Conn -> Outcome]
  BY DEF Inv, StateInv, RestTypeOK
<1>8. CASE how \in {"claimed", "passed"}
  <2>1. Served' = Served \cup {cur}
    BY <1>2, <1>6, <1>7, <1>8 DEF Served
  <2> QED BY <1>1, <1>2, <1>3, <1>4, <1>5, <2>1, ServeIsLawful
<1>9. CASE how \notin {"claimed", "passed"}
  <2>1. Served' = Served
    BY <1>2, <1>3, <1>6, <1>7, <1>9 DEF Served
  <2> QED BY <1>1, <1>4, <1>5, <2>1, StutterIsLawful
<1> QED BY <1>8, <1>9

LEMMA SpawnIsLawful ==
    ASSUME Inv, Spawn
    PROVE  Lawful
<1>1. /\ cur \in Conn /\ task[cur] = "Admitted"
      /\ task' = [task EXCEPT ![cur] = "Top"] /\ UNCHANGED outcome
  BY SpawnCases
<1>2. /\ UNCHANGED <<active, released, cancelled>> /\ loop \in {"Listing", "Marking"}
      /\ evicted' = NoConn
  BY DEF Spawn, AcceptNext
<1>3. Evictees' = Evictees
  BY <1>2 DEF Inv, StateInv, EvictionInv, Evictees
<1>4. Holders' = Holders /\ Served' = Served
  BY <1>1, <1>2 DEF Holders, Served, Inv, StateInv, RestTypeOK
<1> QED BY <1>2, <1>3, <1>4, StutterIsLawful

-----------------------------------------------------------------------------
(* The theorems                                                            *)

LEMMA InitEstablishes == Init => Inv
<1> SUFFICES ASSUME Init PROVE Inv
  OBVIOUS
<1> USE DEF Init
<1>1. ListInv
  <2>1. <<>> \in Seq(Conn) /\ Len(<<>>) = 0
    BY EmptySeq
  <2>2. Linked(<<>>, no_data, no_data_head, no_data_tail)
    BY <2>1 DEF Linked
  <2> QED BY <2>1, <2>2 DEF ListInv
<1>2. RestTypeOK
  <2>1. candidates \in Seq(Conn) /\ Len(candidates) = 0
    BY EmptySeq
  <2>2. Len(candidates) <= ScanLimit /\ scans \in 0..ScanPasses
    BY <2>1, FrontDoorAssumption
  <2> QED BY <2>1, <2>2 DEF RestTypeOK, Content, LoopStage, OrNone, TaskStage, Outcome
<1>3. LoopInv /\ EvictionInv
  BY DEF LoopInv, EvictionInv
<1>4. PermitInv /\ TaskInv
  BY DEF PermitInv, TaskInv, Early, Undecided
<1>5. SlotsAreCounted
  <2>1. Holders = {}
    BY DEF Holders
  <2> QED BY <2>1, FS_EmptySet, FrontDoorAssumption DEF SlotsAreCounted
<1> QED BY <1>1, <1>2, <1>3, <1>4, <1>5 DEF Inv, StateInv

LEMMA NextKeepsInv ==
    ASSUME Inv, [Next]_vars
    PROVE  Inv' /\ Lawful
<1>1. CASE UNCHANGED vars
  <2>1. UNCHANGED <<wire, active, listVars, no_data, no_data_head, no_data_tail, released,
                    cancelled, loop, cur, candidates, scans, removed_stale, evicted, probing,
                    task, outcome, data_seen, peeked, expired>>
    BY <1>1 DEF vars, admissionVars, listVars, loopVars, taskVars
  <2>2. ListInv' /\ DOMAIN no_data' = DOMAIN no_data
    BY <2>1, SameKeepsList DEF Inv
  <2>3. StateInv'
    BY <2>1 DEF Inv, StateInv, RestTypeOK, LoopInv, EvictionInv, PermitInv, TaskInv
  <2>4. Holders' = Holders /\ Evictees' = Evictees /\ Served' = Served
    BY <2>1 DEF Holders, Evictees, Served
  <2>5. Lawful
    BY <2>1, <2>4, StutterIsLawful
  <2> QED BY <2>2, <2>3, <2>5 DEF Inv, Lawful
<1>2. ASSUME NEW c \in Conn,
             \/ Accept(c) \/ Arrives(c) \/ Expire(c) \/ TaskStep(c) \/ proxy_to_upstream(c)
      PROVE  ListInv' /\ StateInv' /\ Lawful
  <2>1. CASE Accept(c) \/ Arrives(c) \/ Expire(c) \/ proxy_to_upstream(c)
    BY <2>1, AcceptKeeps, ArrivesKeeps, ExpireKeeps, ProxyKeeps, QuietIsLawful
  <2>2. CASE Loop(c)
    BY <2>2, LoopKeeps, LoopIsLawful
  <2>3. CASE mark_no_data_if_empty(c)
    BY <2>3, MarkNoDataKeeps, MarkNoDataIsLawful
  <2>4. CASE MarkBeforePeek(c)
    BY <2>4, MarkBeforePeekKeeps, MarkBeforePeekIsLawful
  <2>5. CASE Peek(c)
    BY <2>5, PeekKeeps, PeekIsLawful
  <2>6. CASE mark_data_seen(c)
    BY <2>6, MarkDataSeenKeeps, MarkDataSeenIsLawful
  <2>7. CASE Sleep(c)
    BY <2>7, SleepKeeps, SleepIsLawful
  <2>8. CASE handle_claimed_stream(c)
    BY <2>8, ClaimedKeeps, ClaimedIsLawful
  <2>9. CASE handle_pass_stream(c)
    BY <2>9, PassKeeps, PassIsLawful
  <2>10. CASE DropPermit(c)
    BY <2>10, DropPermitKeeps, DropPermitIsLawful
  <2>11. CASE ReturnSlot(c)
    BY <2>11, ReturnSlotKeeps, ReturnSlotIsLawful
  <2> QED BY <1>2, <2>1, <2>2, <2>3, <2>4, <2>5, <2>6, <2>7, <2>8, <2>9, <2>10, <2>11
          DEF TaskStep
<1>3. ASSUME StopAccepting \/ LoopStep
      PROVE  ListInv' /\ StateInv' /\ Lawful
  <2>1. CASE StopAccepting
    BY <2>1, StopAcceptingKeeps, QuietIsLawful
  <2>2. CASE Admit
    <3>1. ListInv' /\ StateInv'
      BY <2>2, AdmitKeeps DEF Admit
    <3> QED BY <2>2, <3>1, AdmissionIsLawful DEF Admit
  <2>3. CASE AdmitAgain
    <3>1. ListInv' /\ StateInv'
      BY <2>3, AdmitKeeps DEF AdmitAgain
    <3> QED BY <2>3, <3>1, AdmissionIsLawful DEF AdmitAgain
  <2>4. CASE AdmitFinally
    <3>1. ListInv' /\ StateInv'
      BY <2>4, AdmitKeeps DEF AdmitFinally
    <3> QED BY <2>4, <3>1, AdmissionIsLawful DEF AdmitFinally
  <2>5. CASE Scan
    BY <2>5, ScanKeeps, QuietIsLawful
  <2>6. CASE Upgrade
    BY <2>6, UpgradeKeeps, QuietIsLawful
  <2>7. CASE Look
    BY <2>7, LookKeeps, QuietIsLawful
  <2>8. CASE Evict
    BY <2>8, EvictKeeps, EvictionIsLawful
  <2>9. CASE remove_stale_no_data
    BY <2>9, RemoveStaleKeeps, QuietIsLawful
  <2>10. CASE PassEnds
    BY <2>10, PassEndsKeeps, QuietIsLawful
  <2>11. CASE CancelEvicted
    BY <2>11, CancelEvictedKeeps, CancelEvictedIsLawful
  <2>12. CASE handle_over_cap_stream
    BY <2>12, OverCapKeeps, OverCapIsLawful
  <2>13. CASE PeekBeforeSpawn
    BY <2>13, PeekBeforeSpawnKeeps, QuietIsLawful
  <2>14. CASE Spawn
    BY <2>14, SpawnKeeps, SpawnIsLawful
  <2> QED BY <1>3, <2>1, <2>2, <2>3, <2>4, <2>5, <2>6, <2>7, <2>8, <2>9, <2>10, <2>11, <2>12,
             <2>13, <2>14 DEF LoopStep
<1>4. CASE Next
  <2>1. ListInv' /\ StateInv' /\ Lawful
    BY <1>2, <1>3, <1>4 DEF Next
  <2> QED BY <2>1 DEF Inv, Lawful
<1> QED BY <1>1, <1>4

\* The strengthening is an invariant of the accept loop, the classifiers and the drops
\* of permits together.
THEOREM AdmissionTableInvariant == Spec => []Inv
<1>1. Inv /\ [Next]_vars => Inv'
  BY NextKeepsInv
<1> QED BY InitEstablishes, <1>1, PTL DEF Spec

\* Every slot of TcpAdmissionState is returned exactly once, whether try_evict_empty or the
\* drop of the permit gets there first, and there are never more holders than the cap.
THEOREM SlotsAreCountedProved == Spec => []SlotsAreCounted
<1>1. Inv => SlotsAreCounted
  BY DEF Inv
<1> QED BY AdmissionTableInvariant, <1>1, PTL

\* A list without repetitions has as many positions as entries.
LEMMA ListIsSoundLemma ==
    ASSUME ListInv
    PROVE  ListIsSound
<1>1. PICK list \in Seq(Conn) : Linked(list, no_data, no_data_head, no_data_tail)
  BY DEF ListInv
<1> DEFINE n == Len(list)
<1>2. n \in Nat /\ list \in [1..n -> Conn]
  BY LenProperties
<1>3. /\ DOMAIN no_data = {list[i] : i \in 1..n}
      /\ \A i, j \in 1..n : list[i] = list[j] => i = j
  BY <1>1 DEF Linked
<1> HIDE DEF n
<1>4. list \in [1..n -> DOMAIN no_data]
  BY <1>2, <1>3
<1>5. list \in Bijection(1..n, DOMAIN no_data)
  BY <1>3, <1>4 DEF Injection, Surjection, Bijection, IsInjective
<1>6. Cardinality(DOMAIN no_data) = n
  <2>1. IsFiniteSet(1..n) /\ Cardinality(1..n) = n
    BY <1>2, FS_Interval
  <2> QED BY <1>5, <2>1, FS_Bijection DEF ExistsBijection
<1> QED BY <1>1, <1>4, <1>6 DEF ListIsSound

\* The admission table is sound in every state: its types, the links of its list, which holds
\* only permits that may still be evicted, and no eviction in vain.
THEOREM TableIsSoundProved == Spec => []TableIsSound
<1>1. Inv => TableIsSound
  <2> SUFFICES ASSUME Inv PROVE TableIsSound
    OBVIOUS
  <2>1. ListIsSound
    BY ListIsSoundLemma DEF Inv
  <2>2. ListedIsUndecided
    BY DEF Inv, StateInv, PermitInv, ListedIsUndecided
  <2>3. EvictionMakesRoom
    BY DEF Inv, StateInv, LoopInv, EvictionInv, EvictionMakesRoom
  <2>4. active \in 0..Cardinality(Conn)
    <3>1. Cardinality(Holders) <= Cardinality(Conn) /\ Cardinality(Conn) \in Nat
      BY FrontDoorAssumption, FS_Subset, FS_CardinalityType DEF Holders
    <3> QED BY <3>1, SlotsType
  <2>5. TypeOK
    BY <2>4, ListFacts DEF Inv, StateInv, RestTypeOK, TypeOK
  <2> QED BY <2>1, <2>2, <2>3, <2>5 DEF TableIsSound
<1> QED BY AdmissionTableInvariant, <1>1, PTL

\* The table with its flags, list and detached tasks implements BoundedAdmission: an eviction
\* happens at the cap only and to a connection nothing was seen of, and an evicted connection
\* is neither claimed nor proxied.
THEOREM ImplementsAdmissionProved == Spec => ImplementsAdmission
<1>1. Init => Admission!Init
  <2> SUFFICES ASSUME Init PROVE Admission!Init
    OBVIOUS
  <2> QED BY DEF Init, Admission!Init, Holders
<1>2. Inv /\ [Next]_vars => [Admission!Next]_(Admission!vars)
  BY NextKeepsInv DEF Lawful
<1> QED BY AdmissionTableInvariant, <1>1, <1>2, PTL DEF Spec, ImplementsAdmission, Admission!Spec
=============================================================================
