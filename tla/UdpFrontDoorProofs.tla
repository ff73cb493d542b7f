------------------------- MODULE UdpFrontDoorProofs -------------------------
(***************************************************************************)
(* Proofs about UdpFrontDoor, for any number of peers, sessions, addresses *)
(* and sockets, and tables and queues of any size.                         *)
(***************************************************************************)
EXTENDS UdpFrontDoor, SequenceTheorems, FiniteSetTheorems, TLAPS

-----------------------------------------------------------------------------
(* The table as an LRU cache                                               *)

\* No two entries have the same key.
UniquePeers(table) ==
    \A i, j \in DOMAIN table : table[i].peer = table[j].peer => i = j

\* Removing a position leaves the other elements.
LEMMA RemoveAtFacts ==
    ASSUME NEW S, NEW s \in Seq(S), NEW k \in 1..Len(s)
    PROVE  /\ RemoveAt(s, k) \in Seq(S)
           /\ Len(RemoveAt(s, k)) = Len(s) - 1
           /\ \A j \in 1..Len(s)-1 :
                  RemoveAt(s, k)[j] = IF j < k THEN s[j] ELSE s[j + 1]
<1> DEFINE front == SubSeq(s, 1, k - 1)
           back == SubSeq(s, k + 1, Len(s))
<1>1. /\ front \in Seq(S) /\ Len(front) = k - 1
      /\ \A j \in 1..k-1 : front[j] = s[j]
  BY SubSeqProperties, ElementOfSeq
<1>2. /\ back \in Seq(S) /\ Len(back) = Len(s) - k
      /\ \A j \in 1..Len(s)-k : back[j] = s[k + j]
  BY SubSeqProperties, ElementOfSeq
<1>3. RemoveAt(s, k) = front \o back
  BY DEF RemoveAt
<1> HIDE DEF front, back
<1>4. /\ front \o back \in Seq(S)
      /\ Len(front \o back) = Len(s) - 1
  <2>1. Len(s) \in Nat
    BY LenProperties
  <2>2. /\ front \o back \in Seq(S)
        /\ Len(front \o back) = Len(front) + Len(back)
    BY <1>1, <1>2, ConcatProperties
  <2> QED BY <1>1, <1>2, <2>1, <2>2
<1>5. \A j \in 1..Len(s)-1 : (front \o back)[j] = IF j < k THEN s[j] ELSE s[j + 1]
  BY <1>1, <1>2
<1> QED BY <1>3, <1>4, <1>5

\* pop() removes the entry of the peer and nothing else.
LEMMA PopFacts ==
    ASSUME NEW table \in Seq(Entry), UniquePeers(table), NEW p
    PROVE  /\ pop(table, p) \in Seq(Entry)
           /\ UniquePeers(pop(table, p))
           /\ EntriesOf(pop(table, p)) = {e \in EntriesOf(table) : e.peer # p}
           /\ Len(pop(table, p))
                  = IF \E e \in EntriesOf(table) : e.peer = p THEN Len(table) - 1 ELSE Len(table)
<1>1. CASE ~ \E e \in EntriesOf(table) : e.peer = p
  BY <1>1 DEF pop
<1>2. CASE \E e \in EntriesOf(table) : e.peer = p
  <2> DEFINE k == CHOOSE i \in DOMAIN table : table[i].peer = p
             rest == RemoveAt(table, k)
  <2>1. k \in 1..Len(table) /\ table[k].peer = p
    BY <1>2 DEF EntriesOf
  <2>2. pop(table, p) = rest
    BY <1>2 DEF pop
  <2> HIDE DEF k
  <2>3. /\ rest \in Seq(Entry) /\ Len(rest) = Len(table) - 1
        /\ \A j \in 1..Len(table)-1 : rest[j] = IF j < k THEN table[j] ELSE table[j + 1]
    BY <2>1, RemoveAtFacts
  <2> HIDE DEF rest
  <2>4. DOMAIN table = 1..Len(table) /\ DOMAIN rest = 1..Len(table)-1 /\ Len(table) \in Nat
    BY <2>3
  <2>5. UniquePeers(rest)
    <3> SUFFICES ASSUME NEW i \in DOMAIN rest, NEW j \in DOMAIN rest, rest[i].peer = rest[j].peer
                 PROVE  i = j
      BY DEF UniquePeers
    <3> DEFINE m(x) == IF x < k THEN x ELSE x + 1
    <3>1. /\ m(i) \in DOMAIN table /\ m(j) \in DOMAIN table
          /\ rest[i] = table[m(i)] /\ rest[j] = table[m(j)]
      BY <2>1, <2>3, <2>4
    <3>2. m(i) = m(j)
      BY <3>1 DEF UniquePeers
    <3> QED BY <3>2, <2>1, <2>4
  <2>6. EntriesOf(rest) \subseteq {e \in EntriesOf(table) : e.peer # p}
    <3> SUFFICES ASSUME NEW j \in DOMAIN rest
                 PROVE  rest[j] \in EntriesOf(table) /\ rest[j].peer # p
      BY DEF EntriesOf
    <3> DEFINE i == IF j < k THEN j ELSE j + 1
    <3>1. i \in DOMAIN table /\ rest[j] = table[i] /\ i # k
      BY <2>1, <2>3, <2>4
    <3> HIDE DEF i
    <3> QED BY <3>1, <2>1, <2>4 DEF EntriesOf, UniquePeers
  <2>7. {e \in EntriesOf(table) : e.peer # p} \subseteq EntriesOf(rest)
    <3> SUFFICES ASSUME NEW i \in DOMAIN table, table[i].peer # p
                 PROVE  table[i] \in EntriesOf(rest)
      BY DEF EntriesOf
    <3>1. i # k
      BY <2>1
    <3> DEFINE j == IF i < k THEN i ELSE i - 1
    <3>2. j \in DOMAIN rest /\ rest[j] = table[i]
      BY <3>1, <2>1, <2>3, <2>4
    <3> QED BY <3>2 DEF EntriesOf
  <2> QED BY <1>2, <2>2, <2>3, <2>5, <2>6, <2>7
<1> QED BY <1>1, <1>2

\* Adding an entry whose key is new at the end.
LEMMA AppendFacts ==
    ASSUME NEW table \in Seq(Entry), UniquePeers(table), NEW e \in Entry,
           \A d \in EntriesOf(table) : d.peer # e.peer
    PROVE  /\ Append(table, e) \in Seq(Entry)
           /\ Len(Append(table, e)) = Len(table) + 1
           /\ UniquePeers(Append(table, e))
           /\ EntriesOf(Append(table, e)) = EntriesOf(table) \cup {e}
<1> DEFINE longer == Append(table, e)
           n == Len(table)
<1>1. /\ longer \in Seq(Entry) /\ Len(longer) = n + 1 /\ n \in Nat
      /\ \A i \in 1..n : longer[i] = table[i]
      /\ longer[n + 1] = e
      /\ DOMAIN longer = 1..n+1 /\ DOMAIN table = 1..n
  BY AppendProperties
<1> HIDE DEF longer, n
<1>2. \A i \in 1..n : table[i].peer # e.peer
  BY <1>1 DEF EntriesOf
<1>3. UniquePeers(longer)
  BY <1>1, <1>2 DEF UniquePeers
<1>4. EntriesOf(longer) = EntriesOf(table) \cup {e}
  BY <1>1 DEF EntriesOf
<1> QED BY <1>1, <1>3, <1>4 DEF longer, n

\* Dropping the least recently used entry.
LEMMA TailFacts ==
    ASSUME NEW table \in Seq(Entry), UniquePeers(table), table # <<>>
    PROVE  /\ Tail(table) \in Seq(Entry)
           /\ Len(Tail(table)) = Len(table) - 1
           /\ UniquePeers(Tail(table))
           /\ EntriesOf(Tail(table)) = {table[i] : i \in DOMAIN table \ {1}}
<1> DEFINE rest == Tail(table)
<1>1. /\ rest \in Seq(Entry) /\ Len(rest) = Len(table) - 1 /\ Len(table) \in Nat
      /\ \A i \in 1..Len(table)-1 : rest[i] = table[i + 1]
      /\ DOMAIN rest = 1..Len(table)-1 /\ DOMAIN table = 1..Len(table)
  BY HeadTailProperties
<1> HIDE DEF rest
<1>2. UniquePeers(rest)
  <2> SUFFICES ASSUME NEW i \in DOMAIN rest, NEW j \in DOMAIN rest, rest[i].peer = rest[j].peer
               PROVE  i = j
    BY DEF UniquePeers
  <2>1. /\ i + 1 \in DOMAIN table /\ j + 1 \in DOMAIN table
        /\ rest[i] = table[i + 1] /\ rest[j] = table[j + 1]
    BY <1>1
  <2>2. i + 1 = j + 1
    BY <2>1 DEF UniquePeers
  <2> QED BY <2>2, <1>1
<1>3. \A i \in DOMAIN table \ {1} : i - 1 \in DOMAIN rest /\ rest[i - 1] = table[i]
  BY <1>1
<1>4. \A i \in DOMAIN rest : i + 1 \in DOMAIN table \ {1} /\ rest[i] = table[i + 1]
  BY <1>1
<1>5. EntriesOf(rest) = {table[i] : i \in DOMAIN table \ {1}}
  BY <1>3, <1>4 DEF EntriesOf
<1> QED BY <1>1, <1>2, <1>5 DEF rest

\* put() stores the entry, keeps to the capacity, and loses nothing but an older
\* entry of the same peer or, at the capacity, the least recently used one.
LEMMA PutFacts ==
    ASSUME NEW table \in Seq(Entry), UniquePeers(table), Len(table) <= MaxEntries,
           NEW e \in Entry
    PROVE  /\ put(table, e) \in Seq(Entry)
           /\ Len(put(table, e)) <= MaxEntries
           /\ UniquePeers(put(table, e))
           /\ EntriesOf(put(table, e)) \subseteq {d \in EntriesOf(table) : d.peer # e.peer} \cup {e}
           /\ e \in EntriesOf(put(table, e))
           /\ \A i \in DOMAIN table :
                  (table[i].peer # e.peer /\ ~(i = 1 /\ Len(table) = MaxEntries /\
                                               \A d \in EntriesOf(table) : d.peer # e.peer))
                  => table[i] \in EntriesOf(put(table, e))
<1>0. MaxEntries \in Nat \ {0} /\ Len(table) \in Nat
  BY UdpAssumption
<1>1. CASE (\A d \in EntriesOf(table) : d.peer # e.peer) /\ Len(table) = MaxEntries
  <2>1. put(table, e) = Append(Tail(table), e)
    BY <1>1 DEF put
  <2>2. table # <<>>
    BY <1>0, <1>1
  <2>3. /\ Tail(table) \in Seq(Entry)
        /\ Len(Tail(table)) = Len(table) - 1
        /\ UniquePeers(Tail(table))
        /\ EntriesOf(Tail(table)) = {table[i] : i \in DOMAIN table \ {1}}
    BY <2>2, TailFacts
  <2>4. EntriesOf(Tail(table)) \subseteq {d \in EntriesOf(table) : d.peer # e.peer}
    BY <2>3, <1>1 DEF EntriesOf
  <2>5. /\ Append(Tail(table), e) \in Seq(Entry)
        /\ Len(Append(Tail(table), e)) = Len(Tail(table)) + 1
        /\ UniquePeers(Append(Tail(table), e))
        /\ EntriesOf(Append(Tail(table), e)) = EntriesOf(Tail(table)) \cup {e}
    BY <2>3, <2>4, AppendFacts
  <2> QED BY <1>0, <1>1, <2>1, <2>3, <2>4, <2>5
<1>2. CASE ~((\A d \in EntriesOf(table) : d.peer # e.peer) /\ Len(table) = MaxEntries)
  <2> DEFINE rest == pop(table, e.peer)
  <2>1. put(table, e) = Append(rest, e)
    BY <1>2 DEF put
  <2>2. /\ rest \in Seq(Entry)
        /\ UniquePeers(rest)
        /\ EntriesOf(rest) = {d \in EntriesOf(table) : d.peer # e.peer}
        /\ Len(rest) = IF \E d \in EntriesOf(table) : d.peer = e.peer
                       THEN Len(table) - 1 ELSE Len(table)
    BY PopFacts
  <2> HIDE DEF rest
  <2>3. /\ Append(rest, e) \in Seq(Entry)
        /\ Len(Append(rest, e)) = Len(rest) + 1
        /\ UniquePeers(Append(rest, e))
        /\ EntriesOf(Append(rest, e)) = EntriesOf(rest) \cup {e}
    BY <2>2, AppendFacts
  <2>4. Len(Append(rest, e)) <= MaxEntries
    BY <1>0, <1>2, <2>2, <2>3
  <2>5. \A i \in DOMAIN table : table[i] \in EntriesOf(table)
    BY DEF EntriesOf
  <2> QED BY <2>1, <2>2, <2>3, <2>4, <2>5
<1> QED BY <1>1, <1>2

-----------------------------------------------------------------------------
(* The inductive invariant of the NAT table                                *)

NatTypeOK ==
    /\ peers \in Seq(Entry) /\ Len(peers) <= MaxEntries
    /\ next_token \in 1..MaxTokens + 1
    /\ reader \in [Token -> ReaderStage]
    /\ relays \in [Token -> Peer \cup {None}]
    /\ done \in Seq([peer : Peer, token : Token])
    /\ cancel \in BOOLEAN /\ serving \in BOOLEAN

\* What makes an entry served: its token was given out for its peer, and its reader
\* is there or has left a notice.
Served(e) ==
    /\ e.token < next_token
    /\ relays[e.token] = e.peer
    /\ \/ reader[e.token] \in {"Running", "Ending"}
       \/ [peer |-> e.peer, token |-> e.token] \in Range(done)

\* Readers exist for the tokens that were given out and have a peer; a notice
\* names the peer of a reader that has ended.
ReadersInv ==
    /\ \A t \in Token : reader[t] # "Unborn" => t < next_token /\ relays[t] \in Peer
    /\ \A d \in Range(done) : relays[d.token] = d.peer /\ reader[d.token] = "Ended"

TableInv ==
    /\ UniquePeers(peers)
    /\ \A e \in Entries : Served(e)
    /\ ~serving => peers = <<>>

NatInv == NatTypeOK /\ ReadersInv /\ TableInv

\* Entries are entries, and a known peer has one.
LEMMA EntryFacts ==
    ASSUME NatInv
    PROVE  /\ \A e \in Entries : e \in Entry
           /\ \A p : Known(p) => EntryOf(p) \in Entries /\ EntryOf(p).peer = p
           /\ \A d \in Entries, e \in Entries : d.peer = e.peer => d = e
<1>1. peers \in Seq(Entry) /\ UniquePeers(peers)
  BY DEF NatInv, NatTypeOK, TableInv
<1>2. \A e \in Entries : e \in Entry
  BY <1>1 DEF Entries, EntriesOf
<1>3. \A p : Known(p) => EntryOf(p) \in Entries /\ EntryOf(p).peer = p
  BY DEF Known, EntryOf
<1>4. \A d \in Entries, e \in Entries : d.peer = e.peer => d = e
  BY <1>1 DEF Entries, EntriesOf, UniquePeers
<1> QED BY <1>2, <1>3, <1>4

\* Notices come out of the channel at its head and go in at its end.
LEMMA NoticeFacts ==
    ASSUME NEW S, NEW s \in Seq(S), NEW x \in S
    PROVE  /\ Append(s, x) \in Seq(S)
           /\ Range(Append(s, x)) = Range(s) \cup {x}
           /\ s # <<>> => /\ Head(s) \in Range(s) /\ Tail(s) \in Seq(S)
                          /\ Range(s) = Range(Tail(s)) \cup {Head(s)}
<1> DEFINE n == Len(s)
<1>1. n \in Nat /\ DOMAIN s = 1..n
  BY LenProperties
<1>2. /\ Append(s, x) \in Seq(S) /\ Len(Append(s, x)) = n + 1
      /\ \A i \in 1..n : Append(s, x)[i] = s[i]
      /\ Append(s, x)[n + 1] = x
      /\ DOMAIN Append(s, x) = 1..n+1
  BY AppendProperties, LenProperties
<1>3. Range(Append(s, x)) = Range(s) \cup {x}
  <2> DEFINE longer == Append(s, x)
  <2> HIDE DEF longer, n
  <2> QED BY <1>1, <1>2 DEF Range, longer
<1>4. ASSUME s # <<>>
      PROVE  /\ Head(s) \in Range(s) /\ Tail(s) \in Seq(S)
             /\ Range(s) = Range(Tail(s)) \cup {Head(s)}
  <2> DEFINE rest == Tail(s)
  <2>1. /\ n >= 1 /\ Head(s) = s[1] /\ rest \in Seq(S)
        /\ Len(rest) = n - 1 /\ DOMAIN rest = 1..n-1
        /\ \A i \in 1..n-1 : rest[i] = s[i + 1]
    BY <1>4, HeadTailProperties, LenProperties, EmptySeq
  <2>2. Head(s) \in Range(s)
    BY <1>1, <2>1 DEF Range
  <2> HIDE DEF rest, n
  <2>3. \A i \in 1..n : s[i] = Head(s) \/ (i - 1 \in DOMAIN rest /\ rest[i - 1] = s[i])
    BY <1>1, <2>1
  <2>4. \A i \in DOMAIN rest : i + 1 \in DOMAIN s /\ rest[i] = s[i + 1]
    BY <1>1, <2>1
  <2>5. Range(s) = Range(rest) \cup {Head(s)}
    BY <1>1, <2>2, <2>3, <2>4 DEF Range
  <2> QED BY <2>1, <2>2, <2>5 DEF rest
<1> QED BY <1>2, <1>3, <1>4

LEMMA NatInit == Init => NatInv
<1> SUFFICES ASSUME Init PROVE NatInv
  OBVIOUS
<1> USE UdpAssumption
<1>1. NatTypeOK
  <2>1. peers \in Seq(Entry) /\ Len(peers) <= MaxEntries /\ done \in Seq([peer : Peer, token : Token])
    BY EmptySeq DEF Init
  <2>2. reader \in [Token -> ReaderStage] /\ relays \in [Token -> Peer \cup {None}]
    BY DEF Init, ReaderStage
  <2>3. next_token \in 1..MaxTokens + 1
    BY DEF Init
  <2>4. cancel \in BOOLEAN /\ serving \in BOOLEAN
    BY DEF Init
  <2> QED BY <2>1, <2>2, <2>3, <2>4 DEF NatTypeOK
<1>2. ReadersInv
  BY DEF Init, ReadersInv, Range, Token
<1>3. TableInv
  BY DEF Init, TableInv, UniquePeers, Entries, EntriesOf
<1> QED BY <1>1, <1>2, <1>3 DEF NatInv

\* A step of the table alone keeps the invariant if all entries are served.
LEMMA TableStep ==
    ASSUME NatInv, serving,
           UNCHANGED <<next_token, reader, relays, done, cancel, serving>>,
           peers' \in Seq(Entry), Len(peers') <= MaxEntries, UniquePeers(peers'),
           \A e \in EntriesOf(peers') : \E d \in Entries : d.peer = e.peer /\ d.token = e.token
    PROVE  NatInv'
<1>1. NatTypeOK'
  BY DEF NatInv, NatTypeOK
<1>2. ReadersInv'
  BY DEF NatInv, ReadersInv
<1>3. TableInv'
  <2>1. ASSUME NEW e \in Entries' PROVE Served(e)'
    <3>1. PICK d \in Entries : d.peer = e.peer /\ d.token = e.token
      BY DEF Entries
    <3>2. Served(d)
      BY DEF NatInv, TableInv
    <3> QED BY <3>1, <3>2 DEF Served
  <2> QED BY <2>1 DEF TableInv
<1> QED BY <1>1, <1>2, <1>3 DEF NatInv

LEMMA ReuseUpstreamKeepsNatInv ==
    ASSUME NatInv, serving, NEW p \in Peer, ReuseUpstream(p), UNCHANGED <<cancel, serving>>
    PROVE  NatInv'
<1> DEFINE e == [EntryOf(p) EXCEPT !.idle = FALSE]
<1>1. EntryOf(p) \in Entries /\ EntryOf(p) \in Entry
  BY EntryFacts DEF ReuseUpstream
<1>2. e \in Entry /\ e.peer = EntryOf(p).peer /\ e.token = EntryOf(p).token
  BY <1>1 DEF Entry
<1>3. peers' = put(peers, e)
  BY DEF ReuseUpstream
<1> HIDE DEF e
<1>4. /\ peers' \in Seq(Entry) /\ Len(peers') <= MaxEntries /\ UniquePeers(peers')
      /\ EntriesOf(peers') \subseteq Entries \cup {e}
  BY <1>2, <1>3, PutFacts DEF NatInv, NatTypeOK, TableInv, Entries
<1> QED BY <1>1, <1>2, <1>4, TableStep DEF ReuseUpstream

LEMMA CreateUpstreamKeepsNatInv ==
    ASSUME NatInv, serving, NEW p \in Peer, CreateUpstream(p), UNCHANGED <<cancel, serving>>
    PROVE  NatInv'
<1> DEFINE t == next_token
           e == [peer |-> p, token |-> t, idle |-> FALSE]
<1> USE UdpAssumption
<1>1. t \in Token /\ t \in Nat /\ e \in Entry
  BY DEF CreateUpstream, Token, Entry
<1>2. /\ peers' = put(peers, e)
      /\ reader' = [reader EXCEPT ![t] = "Running"]
      /\ relays' = [relays EXCEPT ![t] = p]
      /\ next_token' = t + 1 /\ done' = done
  BY DEF CreateUpstream
<1> HIDE DEF e
<1>3. /\ peers' \in Seq(Entry) /\ Len(peers') <= MaxEntries /\ UniquePeers(peers')
      /\ EntriesOf(peers') \subseteq Entries \cup {e}
  BY <1>1, <1>2, PutFacts DEF NatInv, NatTypeOK, TableInv, Entries
<1>4. NatTypeOK'
  BY <1>1, <1>2, <1>3 DEF NatInv, NatTypeOK, ReaderStage, Token
<1>5. \A u \in Token : u < t => reader'[u] = reader[u] /\ relays'[u] = relays[u]
  BY <1>1, <1>2 DEF NatInv, NatTypeOK, Token
<1>6. \A d \in Range(done) : d \in [peer : Peer, token : Token] /\ d.token < t
  <2>1. Range(done) \subseteq [peer : Peer, token : Token]
    BY RangeOfSeq DEF NatInv, NatTypeOK
  <2> QED BY <2>1 DEF NatInv, ReadersInv
<1>7. ReadersInv'
  BY <1>1, <1>2, <1>5, <1>6 DEF NatInv, NatTypeOK, ReadersInv, Token
<1>8. TableInv'
  <2>1. ASSUME NEW d \in Entries PROVE Served(d)'
    <3>1. Served(d) /\ d \in Entry
      BY EntryFacts DEF NatInv, TableInv
    <3> QED BY <3>1, <1>1, <1>2, <1>5 DEF Served, Entry, Token
  <2>2. ASSUME NEW d, d = e PROVE Served(d)'
    BY <2>2, <1>1, <1>2 DEF Served, e, NatInv, NatTypeOK
  <2>3. \A d \in Entries' : Served(d)'
    BY <2>1, <2>2, <1>3 DEF Entries
  <2> QED BY <2>3, <1>3 DEF TableInv
<1> QED BY <1>4, <1>7, <1>8 DEF NatInv

LEMMA ReaderDoneKeepsNatInv ==
    ASSUME NatInv, ReaderDone
    PROVE  NatInv'
<1> DEFINE D == [peer : Peer, token : Token]
           h == Head(done)
<1>1. /\ done \in Seq(D) /\ done # <<>> /\ serving
      /\ done' = Tail(done)
      /\ UNCHANGED <<next_token, reader, relays, cancel, serving>>
      /\ handle_reader_done(h.peer, h.token)
  BY DEF NatInv, NatTypeOK, ReaderDone
<1>2. /\ h \in Range(done) /\ done' \in Seq(D)
      /\ Range(done) = Range(done') \cup {h} /\ h \in D
  <2>1. h \in D
    BY <1>1, HeadTailProperties
  <2> QED BY <1>1, <2>1, NoticeFacts
<1>3. peers \in Seq(Entry) /\ Len(peers) <= MaxEntries /\ UniquePeers(peers)
  BY DEF NatInv, NatTypeOK, TableInv
<1> HIDE DEF h, D
<1>4. /\ peers' \in Seq(Entry) /\ Len(peers') <= MaxEntries /\ UniquePeers(peers')
      /\ \A e \in EntriesOf(peers') :
             e \in Entries /\ ~(e.peer = h.peer /\ e.token = h.token)
  <2>1. CASE ~Known(h.peer)
    <3>1. peers' = peers
      BY <1>1, <2>1 DEF handle_reader_done
    <3> QED BY <2>1, <3>1, <1>3 DEF Known, Entries
  <2> DEFINE rest == pop(peers, h.peer)
  <2>2. /\ rest \in Seq(Entry) /\ UniquePeers(rest)
        /\ EntriesOf(rest) = {e \in Entries : e.peer # h.peer}
        /\ Len(rest) <= Len(peers) /\ Len(rest) <= MaxEntries
    BY <1>3, PopFacts, UdpAssumption, LenProperties DEF Entries
  <2> HIDE DEF rest
  <2>3. CASE Known(h.peer) /\ EntryOf(h.peer).token = h.token
    <3>1. peers' = rest
      BY <1>1, <2>3 DEF handle_reader_done, rest
    <3> QED BY <3>1, <2>2
  <2>4. CASE Known(h.peer) /\ EntryOf(h.peer).token # h.token
    <3> DEFINE e == EntryOf(h.peer)
    <3>1. e \in Entries /\ e \in Entry /\ e.token # h.token
      BY <2>4, EntryFacts
    <3>2. peers' = put(rest, e)
      BY <1>1, <2>4 DEF handle_reader_done, rest
    <3> HIDE DEF e
    <3> QED BY <3>1, <3>2, <2>2, PutFacts
  <2> QED BY <2>1, <2>3, <2>4
<1>5. NatTypeOK'
  BY <1>1, <1>2, <1>4 DEF NatInv, NatTypeOK, D
<1>6. ReadersInv'
  BY <1>1, <1>2 DEF NatInv, ReadersInv
<1>7. TableInv'
  <2>1. ASSUME NEW e \in Entries' PROVE Served(e)'
    <3>1. e \in Entries /\ ~(e.peer = h.peer /\ e.token = h.token) /\ Served(e)
      BY <1>4 DEF Entries, NatInv, TableInv
    <3>2. [peer |-> e.peer, token |-> e.token] # h
      BY <3>1
    <3> QED BY <1>1, <1>2, <3>1, <3>2 DEF Served
  <2> QED BY <2>1, <1>1, <1>4 DEF TableInv
<1> QED BY <1>5, <1>6, <1>7 DEF NatInv

LEMMA BecomesIdleKeepsNatInv ==
    ASSUME NatInv, NEW p \in Peer, BecomesIdle(p)
    PROVE  NatInv'
<1>1. peers \in Seq(Entry) /\ Len(peers) <= MaxEntries /\ UniquePeers(peers) /\ Len(peers) \in Nat
  BY LenProperties DEF NatInv, NatTypeOK, TableInv
<1> DEFINE aged(e) == IF e.peer = p THEN [e EXCEPT !.idle = TRUE] ELSE e
<1>2. \A e \in Entry : aged(e) \in Entry /\ aged(e).peer = e.peer /\ aged(e).token = e.token
  BY DEF Entry
<1>3. peers' = [i \in DOMAIN peers |-> aged(peers[i])]
  BY DEF BecomesIdle
<1> HIDE DEF aged
<1>4. /\ DOMAIN peers' = 1..Len(peers) /\ DOMAIN peers = 1..Len(peers)
      /\ \A i \in 1..Len(peers) : peers[i] \in Entry /\ peers'[i] = aged(peers[i])
  BY <1>1, <1>3
<1>5. peers' \in Seq(Entry) /\ Len(peers') = Len(peers)
  <2>1. peers' = [i \in 1..Len(peers) |-> peers'[i]]
    BY <1>3, <1>4
  <2>2. \A i \in 1..Len(peers) : peers'[i] \in Entry
    BY <1>2, <1>4
  <2>3. peers' \in [1..Len(peers) -> Entry]
    BY <2>1, <2>2
  <2> QED BY <2>3, <1>1, SeqDef
<1>6. UniquePeers(peers')
  BY <1>1, <1>2, <1>4 DEF UniquePeers
<1>7. \A e \in EntriesOf(peers') : \E d \in Entries : d.peer = e.peer /\ d.token = e.token
  BY <1>2, <1>4 DEF Entries, EntriesOf
<1> QED BY <1>1, <1>5, <1>6, <1>7, TableStep DEF BecomesIdle

\* What a sweep leaves: the entries that are not idle, in their order.
LEMMA SweepFacts ==
    ASSUME NatInv, sweep_idle
    PROVE  /\ peers' \in Seq(Entry) /\ Len(peers') <= MaxEntries /\ UniquePeers(peers')
           /\ EntriesOf(peers') = {e \in Entries : ~e.idle}
<1> DEFINE kept == {i \in DOMAIN peers : ~peers[i].idle}
           n == Cardinality(kept)
<1>1. /\ peers \in Seq(Entry) /\ Len(peers) <= MaxEntries /\ UniquePeers(peers)
      /\ Len(peers) \in Nat /\ DOMAIN peers = 1..Len(peers)
  BY LenProperties DEF NatInv, NatTypeOK, TableInv
<1>2. n \in Nat /\ n <= Len(peers)
  <2>1. IsFiniteSet(1..Len(peers)) /\ Cardinality(1..Len(peers)) = Len(peers)
    BY <1>1, FS_Interval
  <2>2. kept \in SUBSET (1..Len(peers))
    BY <1>1
  <2>3. IsFiniteSet(kept) /\ n <= Len(peers)
    BY <2>1, <2>2, FS_Subset
  <2> QED BY <2>3, FS_CardinalityType
<1>3. PICK f \in InOrder(kept) : peers' = [i \in DOMAIN f |-> peers[f[i]]]
  BY DEF sweep_idle
<1>4. /\ f \in [1..n -> kept]
      /\ \A i, j \in 1..n : i < j => f[i] < f[j]
      /\ \A k \in kept : \E i \in 1..n : f[i] = k
  BY DEF InOrder
<1> HIDE DEF n
<1>5. /\ \A i \in 1..n : f[i] \in DOMAIN peers /\ ~peers[f[i]].idle /\ peers'[i] = peers[f[i]]
      /\ DOMAIN peers' = 1..n
  BY <1>3, <1>4
<1>6. peers' \in Seq(Entry) /\ Len(peers') = n
  <2>1. peers' \in [1..n -> Entry]
    BY <1>1, <1>3, <1>4, <1>5
  <2> QED BY <2>1, <1>2, SeqDef
<1>7. UniquePeers(peers')
  BY <1>1, <1>2, <1>4, <1>5 DEF UniquePeers
<1>8. EntriesOf(peers') = {e \in Entries : ~e.idle}
  BY <1>4, <1>5 DEF Entries, EntriesOf
<1> QED BY <1>1, <1>2, <1>6, <1>7, <1>8, UdpAssumption

LEMMA SweepKeepsNatInv ==
    ASSUME NatInv, sweep_idle
    PROVE  NatInv'
<1> DEFINE gone == {e.token : e \in {d \in Entries : d.idle}}
<1>1. /\ peers' \in Seq(Entry) /\ Len(peers') <= MaxEntries /\ UniquePeers(peers')
      /\ EntriesOf(peers') = {e \in Entries : ~e.idle}
  BY SweepFacts
<1>2. /\ serving /\ reader' = Aborted(gone)
      /\ UNCHANGED <<next_token, relays, done, cancel, serving>>
  BY DEF sweep_idle
<1>3. \A t \in Token : reader'[t] = IF t \in gone /\ reader[t] = "Running" THEN "Ended" ELSE reader[t]
  BY <1>2 DEF Aborted
<1>4. NatTypeOK'
  BY <1>1, <1>2 DEF NatInv, NatTypeOK, Aborted, ReaderStage
<1>5. Range(done) \subseteq [peer : Peer, token : Token]
  BY RangeOfSeq DEF NatInv, NatTypeOK
<1>6. ReadersInv'
  BY <1>2, <1>3, <1>5 DEF NatInv, ReadersInv
<1>7. TableInv'
  <2>1. ASSUME NEW e \in Entries' PROVE Served(e)'
    <3>1. e \in Entries /\ ~e.idle /\ e \in Entry /\ Served(e)
      BY <1>1, EntryFacts DEF Entries, NatInv, TableInv
    <3>2. e.token \notin gone
      <4> SUFFICES ASSUME NEW d \in Entries, d.idle, d.token = e.token PROVE FALSE
        OBVIOUS
      <4>1. Served(d)
        BY DEF NatInv, TableInv
      <4>2. d.peer = e.peer
        BY <3>1, <4>1 DEF Served
      <4> QED BY <3>1, <4>2, EntryFacts
    <3>3. reader'[e.token] = reader[e.token]
      BY <1>3, <3>1, <3>2 DEF Entry
    <3> QED BY <1>2, <3>1, <3>3 DEF Served
  <2> QED BY <2>1, <1>1, <1>2 DEF TableInv
<1> QED BY <1>4, <1>6, <1>7 DEF NatInv

LEMMA ReaderLeavesLoopKeepsNatInv ==
    ASSUME NatInv, NEW t \in Token, ReaderLeavesLoop(t)
    PROVE  NatInv'
<1>1. /\ reader[t] = "Running" /\ reader' = [reader EXCEPT ![t] = "Ending"]
      /\ UNCHANGED <<peers, next_token, relays, done, cancel, serving>>
  BY DEF ReaderLeavesLoop
<1>2. NatTypeOK'
  BY <1>1 DEF NatInv, NatTypeOK, ReaderStage
<1>3. Range(done) \subseteq [peer : Peer, token : Token]
  BY RangeOfSeq DEF NatInv, NatTypeOK
<1>4. ReadersInv'
  BY <1>1, <1>3 DEF NatInv, NatTypeOK, ReadersInv
<1>5. TableInv'
  <2>1. ASSUME NEW e \in Entries' PROVE Served(e)'
    <3>1. e \in Entries /\ e \in Entry /\ Served(e)
      BY <1>1, EntryFacts DEF Entries, NatInv, TableInv
    <3> QED BY <1>1, <3>1 DEF Served, Entry, NatInv, NatTypeOK
  <2> QED BY <2>1, <1>1 DEF NatInv, TableInv
<1> QED BY <1>2, <1>4, <1>5 DEF NatInv

LEMMA ReaderEndsKeepsNatInv ==
    ASSUME NatInv, NEW t \in Token, ReaderEnds(t)
    PROVE  NatInv'
<1> DEFINE D == [peer : Peer, token : Token]
           notice == [peer |-> relays[t], token |-> t]
<1>1. /\ reader[t] = "Ending" /\ reader' = [reader EXCEPT ![t] = "Ended"]
      /\ done' = IF serving THEN Append(done, notice) ELSE done
      /\ UNCHANGED <<peers, next_token, relays, cancel, serving>>
  BY DEF ReaderEnds
<1>2. done \in Seq(D) /\ notice \in D /\ reader \in [Token -> ReaderStage]
  BY <1>1 DEF NatInv, NatTypeOK, ReadersInv
<1>3. Range(done) \subseteq D
  BY <1>2, RangeOfSeq
<1>4. /\ done' \in Seq(D) /\ Range(done) \subseteq Range(done')
      /\ Range(done') \subseteq Range(done) \cup {notice}
      /\ serving => notice \in Range(done')
  <2> HIDE DEF D, notice
  <2>1. /\ Append(done, notice) \in Seq(D)
        /\ Range(Append(done, notice)) = Range(done) \cup {notice}
    BY <1>2, NoticeFacts
  <2> QED BY <1>1, <1>2, <2>1
<1> HIDE DEF D
<1>5. NatTypeOK'
  BY <1>1, <1>2, <1>4 DEF NatInv, NatTypeOK, ReaderStage, D
<1>6. ReadersInv'
  <2>1. \A u \in Token : reader'[u] # "Unborn" => u < next_token' /\ relays'[u] \in Peer
    BY <1>1, <1>2 DEF NatInv, ReadersInv
  <2>2. \A d \in Range(done') : relays'[d.token] = d.peer /\ reader'[d.token] = "Ended"
    <3> SUFFICES ASSUME NEW d \in Range(done')
                 PROVE  relays'[d.token] = d.peer /\ reader'[d.token] = "Ended"
      OBVIOUS
    <3>1. CASE d = notice
      BY <1>1, <1>2, <3>1
    <3>2. CASE d \in Range(done)
      <4>1. d.token \in Token /\ relays[d.token] = d.peer /\ reader[d.token] = "Ended"
        BY <3>2, <1>3 DEF D, NatInv, ReadersInv
      <4> QED BY <4>1, <1>1, <1>2
    <3> QED BY <3>1, <3>2, <1>4
  <2> QED BY <2>1, <2>2 DEF ReadersInv
<1>7. TableInv'
  <2>1. ASSUME NEW e \in Entries' PROVE Served(e)'
    <3>1. e \in Entries /\ e \in Entry /\ Served(e)
      BY <1>1, EntryFacts DEF Entries, NatInv, TableInv
    <3>2. serving
      BY <3>1 DEF NatInv, TableInv, Entries, EntriesOf
    <3>3. CASE e.token = t
      <4>1. [peer |-> e.peer, token |-> e.token] = notice
        BY <3>1, <3>3 DEF Served
      <4> QED BY <4>1, <1>1, <1>4, <3>1, <3>2 DEF Served
    <3>4. CASE e.token # t
      <4>1. reader'[e.token] = reader[e.token]
        BY <1>1, <1>2, <3>1, <3>4 DEF Entry
      <4> QED BY <4>1, <1>1, <1>4, <3>1 DEF Served
    <3> QED BY <3>3, <3>4
  <2> QED BY <2>1, <1>1 DEF NatInv, TableInv
<1> QED BY <1>5, <1>6, <1>7 DEF NatInv

LEMMA StopServingKeepsNatInv ==
    ASSUME NatInv, StopServing
    PROVE  NatInv'
<1>1. /\ peers' = <<>> /\ done' = <<>> /\ serving' = FALSE
      /\ UNCHANGED <<next_token, reader, relays, cancel>>
  BY DEF StopServing
<1>2. NatTypeOK'
  <2>1. /\ peers' \in Seq(Entry) /\ Len(peers') <= MaxEntries
        /\ done' \in Seq([peer : Peer, token : Token])
    BY <1>1, UdpAssumption, EmptySeq
  <2>2. serving' \in BOOLEAN
    BY <1>1
  <2> QED BY <1>1, <2>1, <2>2 DEF NatInv, NatTypeOK
<1>3. ReadersInv'
  BY <1>1 DEF NatInv, ReadersInv, Range
<1>4. TableInv'
  BY <1>1 DEF TableInv, UniquePeers, Entries, EntriesOf
<1> QED BY <1>2, <1>3, <1>4 DEF NatInv

\* Steps that leave the table, the readers and the notices alone.
LEMMA OtherStepsKeepNatInv ==
    ASSUME NatInv, cancel' \in BOOLEAN,
           UNCHANGED <<peers, next_token, reader, relays, done, serving>>
    PROVE  NatInv'
<1>1. NatTypeOK'
  BY DEF NatInv, NatTypeOK
<1>2. ReadersInv'
  BY DEF NatInv, ReadersInv
<1>3. TableInv'
  BY DEF NatInv, TableInv, Entries, Served
<1> QED BY <1>1, <1>2, <1>3 DEF NatInv

LEMMA NatNext == NatInv /\ [Next]_vars => NatInv'
<1> SUFFICES ASSUME NatInv, [Next]_vars PROVE NatInv'
  OBVIOUS
<1>1. ASSUME NEW p \in Peer, PassDatagram(p) PROVE NatInv'
  <2>1. serving /\ UNCHANGED <<cancel, serving>> /\ forward_to_upstream(p)
    BY <1>1 DEF PassDatagram
  <2>2. CASE ReuseUpstream(p)
    BY <2>1, <2>2, ReuseUpstreamKeepsNatInv
  <2>3. CASE CreateUpstream(p)
    BY <2>1, <2>3, CreateUpstreamKeepsNatInv
  <2>4. CASE UpstreamFails(p)
    BY <2>1, <2>4, OtherStepsKeepNatInv DEF UpstreamFails, NatInv, NatTypeOK
  <2> QED BY <2>1, <2>2, <2>3, <2>4 DEF forward_to_upstream
<1>2. CASE PlaneStep
  <2>1. UNCHANGED natVars
    BY <1>2 DEF PlaneStep, SendClaim, DeliverTunPacket, WriteTun, WriterReturns, ClaimDatagram,
                ReadTun, SessionStarts, SessionEnds, SessionTakesEvent, RegisterPrefix,
                AcceptPacket
  <2> QED BY <2>1, OtherStepsKeepNatInv DEF natVars, NatInv, NatTypeOK
<1>3. CASE Cancel
  BY <1>3, OtherStepsKeepNatInv DEF Cancel
<1>4. CASE UNCHANGED vars
  BY <1>4, OtherStepsKeepNatInv DEF vars, natVars, NatInv, NatTypeOK
<1>5. CASE NatStep
  BY <1>1, <1>5, ReaderDoneKeepsNatInv, SweepKeepsNatInv, StopServingKeepsNatInv,
     BecomesIdleKeepsNatInv, ReaderLeavesLoopKeepsNatInv, ReaderEndsKeepsNatInv
     DEF NatStep
<1> QED BY <1>2, <1>3, <1>4, <1>5 DEF Next

\* The NAT table is sound in every reachable state: keys are unique, every entry
\* names the token that was given out for its peer, and every notice a reader that
\* has ended.
THEOREM NatTableIsSound == Spec => []NatInv
  BY NatInit, NatNext, PTL DEF Spec

\* MappingStays: a step takes away only a mapping that is idle, that is the least
\* recently used one of a full table, or whose reader has ended.
LEMMA StepKeepsMappings == NatInv /\ [Next]_vars => [MappingStays]_vars
<1> SUFFICES ASSUME NatInv, Next, NEW i \in DOMAIN peers,
                    serving', reader[peers[i].token] = "Running", ~peers[i].idle,
                    ~(i = 1 /\ Len(peers) = MaxEntries)
             PROVE  \E d \in EntriesOf(peers') :
                        d.peer = peers[i].peer /\ d.token = peers[i].token
  BY DEF MappingStays
<1> DEFINE e == peers[i]
<1>1. /\ peers \in Seq(Entry) /\ Len(peers) <= MaxEntries /\ UniquePeers(peers)
      /\ e \in Entries /\ e \in Entry
  BY EntryFacts DEF NatInv, NatTypeOK, TableInv, Entries, EntriesOf
<1>2. CASE peers' = peers
  BY <1>1, <1>2 DEF Entries
<1>3. ASSUME NEW p \in Peer, PassDatagram(p)
      PROVE  \E d \in EntriesOf(peers') : d.peer = e.peer /\ d.token = e.token
  <2>1. CASE ReuseUpstream(p)
    <3> DEFINE f == [EntryOf(p) EXCEPT !.idle = FALSE]
    <3>1. /\ EntryOf(p) \in Entries /\ EntryOf(p) \in Entry /\ EntryOf(p).peer = p
          /\ \A d \in Entries : d.peer = p => d = EntryOf(p)
      BY <2>1, EntryFacts DEF ReuseUpstream
    <3>2. f \in Entry /\ f.peer = p /\ f.token = EntryOf(p).token
      BY <3>1 DEF Entry
    <3>3. peers' = put(peers, f)
      BY <2>1 DEF ReuseUpstream
    <3> HIDE DEF f
    <3>4. CASE e.peer = p
      BY <1>1, <3>1, <3>2, <3>3, <3>4, PutFacts
    <3>5. CASE e.peer # p
      BY <1>1, <3>2, <3>3, <3>5, PutFacts
    <3> QED BY <3>4, <3>5
  <2>2. CASE CreateUpstream(p)
    <3> DEFINE f == [peer |-> p, token |-> next_token, idle |-> FALSE]
    <3>1. f \in Entry /\ f.peer = p
      BY <2>2 DEF CreateUpstream, Entry
    <3>2. peers' = put(peers, f) /\ e.peer # p
      BY <2>2, <1>1 DEF CreateUpstream, Known
    <3> HIDE DEF f
    <3> QED BY <1>1, <3>1, <3>2, PutFacts
  <2>3. CASE UpstreamFails(p)
    BY <2>3, <1>2 DEF UpstreamFails
  <2> QED BY <1>3, <2>1, <2>2, <2>3 DEF PassDatagram, forward_to_upstream
<1>4. CASE ReaderDone
  <2> DEFINE h == Head(done)
  <2>1. h \in Range(done)
    <3>1. done \in Seq([peer : Peer, token : Token]) /\ done # <<>>
      BY <1>4 DEF ReaderDone, NatInv, NatTypeOK
    <3>2. h \in [peer : Peer, token : Token]
      BY <3>1, HeadTailProperties
    <3> QED BY <3>1, <3>2, NoticeFacts
  <2>2. e.token # h.token
    BY <2>1 DEF NatInv, ReadersInv
  <2>3. handle_reader_done(h.peer, h.token)
    BY <1>4 DEF ReaderDone
  <2> HIDE DEF h
  <2>4. CASE ~Known(h.peer)
    BY <1>2, <2>3, <2>4 DEF handle_reader_done
  <2>5. CASE Known(h.peer) /\ e.peer = h.peer
    <3>1. EntryOf(h.peer) = e
      BY <1>1, <2>5, EntryFacts
    <3>2. peers' = put(pop(peers, h.peer), e)
      BY <2>2, <2>3, <2>5, <3>1 DEF handle_reader_done
    <3>3. /\ pop(peers, h.peer) \in Seq(Entry) /\ UniquePeers(pop(peers, h.peer))
          /\ Len(pop(peers, h.peer)) <= MaxEntries
      BY <1>1, PopFacts, UdpAssumption, LenProperties
    <3>4. e \in EntriesOf(peers')
      BY <1>1, <3>2, <3>3, PutFacts
    <3> QED BY <3>4
  <2>6. CASE Known(h.peer) /\ e.peer # h.peer
    <3> DEFINE rest == pop(peers, h.peer)
    <3>1. /\ rest \in Seq(Entry) /\ UniquePeers(rest) /\ e \in EntriesOf(rest)
          /\ Len(rest) = Len(peers) - 1 /\ Len(peers) \in Nat
      BY <1>1, <2>6, PopFacts, LenProperties DEF Known, Entries
    <3>2. CASE peers' = rest
      BY <3>1, <3>2
    <3>3. CASE peers' = put(rest, EntryOf(h.peer))
      <4>1. EntryOf(h.peer) \in Entry /\ EntryOf(h.peer).peer = h.peer
        BY <2>6, EntryFacts
      <4>2. PICK j \in DOMAIN rest : rest[j] = e
        BY <3>1 DEF EntriesOf
      <4> HIDE DEF rest
      <4>3. Len(rest) <= MaxEntries /\ Len(rest) # MaxEntries
        BY <1>1, <3>1, UdpAssumption
      <4>4. rest[j].peer # EntryOf(h.peer).peer
        BY <2>6, <4>1, <4>2
      <4>5. rest[j] \in EntriesOf(put(rest, EntryOf(h.peer)))
        BY <3>1, <4>1, <4>2, <4>3, <4>4, PutFacts
      <4> QED BY <3>3, <4>2, <4>5
    <3> QED BY <2>3, <2>6, <3>2, <3>3 DEF handle_reader_done
  <2> QED BY <2>4, <2>5, <2>6
<1>5. ASSUME NEW p \in Peer, BecomesIdle(p)
      PROVE  \E d \in EntriesOf(peers') : d.peer = e.peer /\ d.token = e.token
  <2>1. /\ i \in DOMAIN peers'
        /\ peers'[i] = IF e.peer = p THEN [e EXCEPT !.idle = TRUE] ELSE e
    BY <1>5 DEF BecomesIdle
  <2>2. peers'[i].peer = e.peer /\ peers'[i].token = e.token
    BY <1>1, <2>1 DEF Entry
  <2> QED BY <2>1, <2>2 DEF EntriesOf
<1>6. CASE sweep_idle
  BY <1>1, <1>6, SweepFacts
<1>7. CASE StopServing
  BY <1>7 DEF StopServing
<1>8. CASE PlaneStep
  BY <1>2, <1>8 DEF PlaneStep, SendClaim, DeliverTunPacket, WriteTun, WriterReturns, natVars,
              ClaimDatagram, ReadTun, SessionStarts, SessionEnds, SessionTakesEvent,
              RegisterPrefix, AcceptPacket
<1>9. CASE Cancel \/ \E t \in Token : ReaderLeavesLoop(t) \/ ReaderEnds(t)
  BY <1>2, <1>9 DEF Cancel, ReaderLeavesLoop, ReaderEnds
<1> QED BY <1>3, <1>4, <1>5, <1>6, <1>7, <1>8, <1>9 DEF Next, NatStep

\* No datagram, notice, sweep or expiry takes the mapping of a peer away while its
\* reader runs and it is used, unless it is the oldest of a full table
\* (get_or_create_upstream, handle_reader_done, sweep_idle).
THEOREM UsedMappingStaysProved == Spec => UsedMappingStays
  BY NatTableIsSound, StepKeepsMappings, PTL DEF Spec, UsedMappingStays

-----------------------------------------------------------------------------
(* The packet plane                                                        *)

PlaneTypeOK ==
    /\ tun_writer \in BOOLEAN
    /\ cid_routes \in [Prefix -> Session \cup {None}]
    /\ ip_routes \in [Ip -> Session \cup {None}]
    /\ open \subseteq Session
    /\ claim \in [to : Session, about : Prefix] \cup {Nothing}
    /\ packet \in [to : Session, about : Ip] \cup {Nothing}
    /\ events \in [Session -> Seq(Event)]
    /\ \A s \in Session : Len(events[s]) <= QueueSize
    /\ tun_queue \in Seq([from : Session, src : Ip]) /\ Len(tun_queue) <= QueueSize

\* An address leads to a session of the client that owns it, and a packet that has
\* been looked up is for such a session.
RoutesInv ==
    /\ \A i \in Ip : ip_routes[i] \in Session => SessionIp[ip_routes[i]] = i
    /\ packet # Nothing => SessionIp[packet.to] = packet.about

PlaneInv == PlaneTypeOK /\ RoutesInv /\ PacketsKeepToTheirClient

LEMMA PlaneInit == Init => PlaneInv
<1> SUFFICES ASSUME Init PROVE PlaneInv
  OBVIOUS
<1> USE UdpAssumption
<1>1. PlaneTypeOK
  <2>1. /\ events \in [Session -> Seq(Event)]
        /\ \A s \in Session : Len(events[s]) <= QueueSize
    BY EmptySeq DEF Init
  <2>2. tun_queue \in Seq([from : Session, src : Ip]) /\ Len(tun_queue) <= QueueSize
    BY EmptySeq DEF Init
  <2>3. tun_writer \in BOOLEAN
    BY DEF Init
  <2> QED BY <2>1, <2>2, <2>3 DEF Init, PlaneTypeOK
<1>2. RoutesInv
  BY DEF Init, RoutesInv
<1>3. PacketsKeepToTheirClient
  BY DEF Init, PacketsKeepToTheirClient, Range
<1> QED BY <1>1, <1>2, <1>3 DEF PlaneInv

\* try_send queues the event for the session it was meant for, or drops it.
LEMMA SendFacts ==
    ASSUME PlaneInv, NEW s \in Session, NEW kind \in {"Udp", "TunPacket"},
           NEW about \in Prefix \cup Ip, try_send(s, kind, about),
           kind = "TunPacket" => about = SessionIp[s]
    PROVE  /\ events' \in [Session -> Seq(Event)]
           /\ \A r \in Session : Len(events'[r]) <= QueueSize
           /\ \A r \in Session : \A e \in Range(events'[r]) :
                  e.kind = "TunPacket" => e.about = SessionIp[r]
<1> DEFINE e == [kind |-> kind, about |-> about]
<1>1. e \in Event
  BY DEF Event
<1>2. /\ events \in [Session -> Seq(Event)]
      /\ \A r \in Session : Len(events[r]) <= QueueSize
      /\ \A r \in Session : \A d \in Range(events[r]) :
             d.kind = "TunPacket" => d.about = SessionIp[r]
  BY DEF PlaneInv, PlaneTypeOK, PacketsKeepToTheirClient
<1>3. CASE ~(s \in open /\ Len(events[s]) < QueueSize)
  BY <1>2, <1>3 DEF try_send
<1>4. CASE s \in open /\ Len(events[s]) < QueueSize
  <2>1. events' = [events EXCEPT ![s] = Append(events[s], e)]
    BY <1>4 DEF try_send
  <2>2. e.kind = "TunPacket" => e.about = SessionIp[s]
    OBVIOUS
  <2> HIDE DEF e
  <2>3. /\ Append(events[s], e) \in Seq(Event)
        /\ Range(Append(events[s], e)) = Range(events[s]) \cup {e}
    BY <1>1, <1>2, NoticeFacts
  <2>4. Len(Append(events[s], e)) <= QueueSize
    BY <1>1, <1>2, <1>4, AppendProperties, LenProperties, UdpAssumption
  <2> QED BY <1>2, <2>1, <2>2, <2>3, <2>4
<1> QED BY <1>3, <1>4

\* A queue that loses what is at its head holds nothing new.
LEMMA SubSeqFacts ==
    ASSUME NEW S, NEW s \in Seq(S), NEW n \in 1..Len(s)
    PROVE  /\ SubSeq(s, n + 1, Len(s)) \in Seq(S)
           /\ Len(SubSeq(s, n + 1, Len(s))) <= Len(s)
           /\ Range(SubSeq(s, n + 1, Len(s))) \subseteq Range(s)
<1> DEFINE rest == SubSeq(s, n + 1, Len(s))
<1>1. Len(s) \in Nat /\ DOMAIN s = 1..Len(s) /\ n \in Nat
  BY LenProperties
<1>2. /\ rest \in Seq(S)
      /\ Len(rest) = Len(s) - n
      /\ \A i \in 1..Len(s)-n : rest[i] = s[n + i]
  <2>1. \A i \in n+1..Len(s) : s[i] \in S
    BY <1>1, ElementOfSeq
  <2>2. /\ rest \in Seq(S)
        /\ Len(rest) = IF n + 1 <= Len(s) THEN Len(s) - (n + 1) + 1 ELSE 0
        /\ \A i \in 1..Len(s)-(n+1)+1 : rest[i] = s[(n + 1) + i - 1]
    BY <1>1, <2>1, SubSeqProperties
  <2> HIDE DEF rest
  <2>3. Len(rest) = Len(s) - n /\ Len(s) - (n + 1) + 1 = Len(s) - n
    <3>1. Len(rest) = IF n + 1 <= Len(s) THEN Len(s) - (n + 1) + 1 ELSE 0
      BY <2>2
    <3>2. \A l \in Nat, r \in Int : n \in 1..l /\ r = (IF n + 1 <= l THEN l - (n + 1) + 1 ELSE 0)
              => r = l - n /\ l - (n + 1) + 1 = l - n
      BY <1>1
    <3>3. Len(rest) \in Nat
      BY <2>2, LenProperties
    <3>4. Len(rest) \in Int
      BY <3>3
    <3> QED BY <1>1, <3>1, <3>2, <3>4
  <2>4. \A i \in 1..Len(s)-n : rest[i] = s[n + i]
    <3> SUFFICES ASSUME NEW i \in 1..Len(s)-n PROVE rest[i] = s[n + i]
      OBVIOUS
    <3>1. (n + 1) + i - 1 = n + i
      BY <1>1
    <3> QED BY <2>2, <2>3, <3>1
  <2> QED BY <2>2, <2>3, <2>4
<1> HIDE DEF rest
<1>3. DOMAIN rest = 1..Len(s)-n
  BY <1>1, <1>2, LenProperties
<1>4. \A i \in DOMAIN rest : n + i \in DOMAIN s /\ rest[i] = s[n + i]
  BY <1>1, <1>2, <1>3
<1>5. Range(rest) \subseteq Range(s)
  BY <1>4 DEF Range
<1>6. Len(rest) <= Len(s)
  BY <1>1, <1>2
<1> QED BY <1>2, <1>5, <1>6 DEF rest

LEMMA PlaneNext == PlaneInv /\ [Next]_vars => PlaneInv'
<1> SUFFICES ASSUME PlaneInv, [Next]_vars PROVE PlaneInv'
  OBVIOUS
<1> USE UdpAssumption
<1>0. CASE UNCHANGED <<routeVars, queueVars>>
  BY <1>0 DEF routeVars, queueVars, PlaneInv, PlaneTypeOK, RoutesInv, PacketsKeepToTheirClient
<1>1. ASSUME NEW p \in Prefix, ClaimDatagram(p) PROVE PlaneInv'
  <2>1. claim' \in [to : Session, about : Prefix]
    BY <1>1 DEF ClaimDatagram, PlaneInv, PlaneTypeOK
  <2> QED BY <1>1, <2>1 DEF ClaimDatagram, PlaneInv, PlaneTypeOK, RoutesInv,
                            PacketsKeepToTheirClient, routeVars
<1>2. CASE SendClaim
  <2>1. claim \in [to : Session, about : Prefix]
    BY <1>2 DEF SendClaim, PlaneInv, PlaneTypeOK
  <2>2. /\ events' \in [Session -> Seq(Event)]
        /\ \A r \in Session : Len(events'[r]) <= QueueSize
        /\ \A r \in Session : \A e \in Range(events'[r]) :
               e.kind = "TunPacket" => e.about = SessionIp[r]
    BY <1>2, <2>1, SendFacts DEF SendClaim
  <2> QED BY <1>2, <2>2 DEF SendClaim, PlaneInv, PlaneTypeOK, RoutesInv,
                            PacketsKeepToTheirClient, routeVars
<1>3. ASSUME NEW i \in Ip, ReadTun(i) PROVE PlaneInv'
  <2>1. PICK s \in Session : ip_routes[i] = s /\ packet' = [to |-> s, about |-> i]
    BY <1>3 DEF ReadTun, lookup_ip
  <2>2. packet' \in [to : Session, about : Ip] /\ SessionIp[packet'.to] = packet'.about
    BY <2>1 DEF PlaneInv, RoutesInv
  <2> QED BY <1>3, <2>2 DEF ReadTun, PlaneInv, PlaneTypeOK, RoutesInv,
                            PacketsKeepToTheirClient, routeVars
<1>4. CASE DeliverTunPacket
  <2>1. packet \in [to : Session, about : Ip] /\ packet.about = SessionIp[packet.to]
    BY <1>4 DEF DeliverTunPacket, PlaneInv, PlaneTypeOK, RoutesInv
  <2>2. /\ events' \in [Session -> Seq(Event)]
        /\ \A r \in Session : Len(events'[r]) <= QueueSize
        /\ \A r \in Session : \A e \in Range(events'[r]) :
               e.kind = "TunPacket" => e.about = SessionIp[r]
    BY <1>4, <2>1, SendFacts DEF DeliverTunPacket
  <2> QED BY <1>4, <2>2 DEF DeliverTunPacket, PlaneInv, PlaneTypeOK, RoutesInv,
                            PacketsKeepToTheirClient, routeVars
<1>5. ASSUME NEW s \in Session, NEW i \in Ip, AcceptPacket(s, i) PROVE PlaneInv'
  <2> DEFINE P == [from : Session, src : Ip]
             p == [from |-> s, src |-> i]
  <2>1. p \in P /\ p.src = SessionIp[p.from]
    BY <1>5 DEF AcceptPacket, validate_packet_src
  <2>2. tun_queue \in Seq(P) /\ Len(tun_queue) <= QueueSize /\ Len(tun_queue) \in Nat
    BY LenProperties DEF PlaneInv, PlaneTypeOK
  <2>3. tun_queue' = IF Len(tun_queue) < QueueSize THEN Append(tun_queue, p) ELSE tun_queue
    BY <1>5 DEF AcceptPacket
  <2> HIDE DEF P, p
  <2>4. /\ Append(tun_queue, p) \in Seq(P) /\ Len(Append(tun_queue, p)) = Len(tun_queue) + 1
        /\ Range(Append(tun_queue, p)) = Range(tun_queue) \cup {p}
    BY <2>1, <2>2, NoticeFacts, AppendProperties
  <2>5. /\ tun_queue' \in Seq(P) /\ Len(tun_queue') <= QueueSize
        /\ Range(tun_queue') \subseteq Range(tun_queue) \cup {p}
    BY <2>2, <2>3, <2>4
  <2>6. \A q \in Range(tun_queue') : q.src = SessionIp[q.from]
    BY <2>1, <2>5 DEF PlaneInv, PacketsKeepToTheirClient
  <2> QED BY <1>5, <2>5, <2>6 DEF AcceptPacket, PlaneInv, PlaneTypeOK, RoutesInv,
                                  PacketsKeepToTheirClient, routeVars, P
<1>6. CASE WriteTun
  <2> DEFINE P == [from : Session, src : Ip]
  <2>1. tun_queue \in Seq(P) /\ Len(tun_queue) <= QueueSize /\ Len(tun_queue) \in Nat
    BY LenProperties DEF PlaneInv, PlaneTypeOK
  <2>2. PICK n \in 1..Len(tun_queue) : tun_queue' = SubSeq(tun_queue, n + 1, Len(tun_queue))
    BY <1>6 DEF WriteTun
  <2> HIDE DEF P
  <2>3. /\ tun_queue' \in Seq(P) /\ Len(tun_queue') <= Len(tun_queue)
        /\ Range(tun_queue') \subseteq Range(tun_queue)
    BY <2>1, <2>2, SubSeqFacts
  <2>4. Len(tun_queue') <= QueueSize
    BY <2>1, <2>3, LenProperties
  <2>5. \A q \in Range(tun_queue') : q.src = SessionIp[q.from]
    BY <2>3 DEF PlaneInv, PacketsKeepToTheirClient
  <2> QED BY <1>6, <2>3, <2>4, <2>5 DEF WriteTun, PlaneInv, PlaneTypeOK, RoutesInv,
                                        PacketsKeepToTheirClient, routeVars, P
<1>7. CASE WriterReturns
  <2>1. /\ tun_queue' \in Seq([from : Session, src : Ip]) /\ Len(tun_queue') <= QueueSize
        /\ Range(tun_queue') = {}
    BY <1>7, EmptySeq DEF WriterReturns, Range
  <2>2. tun_writer' \in BOOLEAN
    BY <1>7 DEF WriterReturns
  <2> QED BY <1>7, <2>1, <2>2 DEF WriterReturns, PlaneInv, PlaneTypeOK, RoutesInv,
                                  PacketsKeepToTheirClient, routeVars
<1>8. ASSUME NEW s \in Session, SessionStarts(s) PROVE PlaneInv'
  <2>1. /\ ip_routes' \in [Ip -> Session \cup {None}] /\ open' \subseteq Session
        /\ \A i \in Ip : ip_routes'[i] \in Session => SessionIp[ip_routes'[i]] = i
    BY <1>8 DEF SessionStarts, PlaneInv, PlaneTypeOK, RoutesInv
  <2> QED BY <1>8, <2>1 DEF SessionStarts, PlaneInv, PlaneTypeOK, RoutesInv,
                            PacketsKeepToTheirClient, queueVars
<1>9. ASSUME NEW s \in Session, NEW p \in Prefix, RegisterPrefix(s, p) PROVE PlaneInv'
  <2>1. cid_routes' \in [Prefix -> Session \cup {None}]
    BY <1>9 DEF RegisterPrefix, PlaneInv, PlaneTypeOK
  <2> QED BY <1>9, <2>1 DEF RegisterPrefix, PlaneInv, PlaneTypeOK, RoutesInv,
                            PacketsKeepToTheirClient, queueVars
<1>10. ASSUME NEW s \in Session, SessionEnds(s) PROVE PlaneInv'
  <2>1. /\ ip_routes' \in [Ip -> Session \cup {None}] /\ open' \subseteq Session
        /\ cid_routes' \in [Prefix -> Session \cup {None}]
        /\ \A i \in Ip : ip_routes'[i] \in Session => SessionIp[ip_routes'[i]] = i
    BY <1>10 DEF SessionEnds, PlaneInv, PlaneTypeOK, RoutesInv
  <2>2. /\ events' \in [Session -> Seq(Event)]
        /\ \A r \in Session : events'[r] = IF r = s THEN <<>> ELSE events[r]
    BY <1>10, EmptySeq DEF SessionEnds, PlaneInv, PlaneTypeOK
  <2>3. /\ \A r \in Session : Len(events'[r]) <= QueueSize
        /\ \A r \in Session : \A e \in Range(events'[r]) :
               e.kind = "TunPacket" => e.about = SessionIp[r]
    BY <2>2, EmptySeq DEF PlaneInv, PlaneTypeOK, PacketsKeepToTheirClient, Range
  <2> QED BY <1>10, <2>1, <2>2, <2>3 DEF SessionEnds, PlaneInv, PlaneTypeOK, RoutesInv,
                                         PacketsKeepToTheirClient
<1>11. ASSUME NEW s \in Session, SessionTakesEvent(s) PROVE PlaneInv'
  <2>1. /\ events \in [Session -> Seq(Event)]
        /\ \A r \in Session : Len(events[r]) <= QueueSize
        /\ events[s] # <<>>
        /\ events' = [events EXCEPT ![s] = Tail(events[s])]
    BY <1>11 DEF SessionTakesEvent, PlaneInv, PlaneTypeOK
  <2>2. /\ Tail(events[s]) \in Seq(Event)
        /\ Len(Tail(events[s])) <= QueueSize
        /\ Range(Tail(events[s])) \subseteq Range(events[s])
    <3>1. Head(events[s]) \in Event /\ Len(Tail(events[s])) = Len(events[s]) - 1
      BY <2>1, HeadTailProperties
    <3>2. Len(events[s]) \in Nat
      BY <2>1, LenProperties
    <3> QED BY <2>1, <3>1, <3>2, NoticeFacts
  <2>3. /\ events' \in [Session -> Seq(Event)]
        /\ \A r \in Session : Len(events'[r]) <= QueueSize
        /\ \A r \in Session : Range(events'[r]) \subseteq Range(events[r])
    BY <2>1, <2>2
  <2> QED BY <1>11, <2>3 DEF SessionTakesEvent, PlaneInv, PlaneTypeOK, RoutesInv,
                             PacketsKeepToTheirClient, routeVars
<1>12. CASE NatStep \/ Cancel
  BY <1>0, <1>12 DEF NatStep, Cancel, ReaderDone, sweep_idle, StopServing, PassDatagram,
                     BecomesIdle, ReaderLeavesLoop, ReaderEnds
<1>13. CASE PlaneStep
  BY <1>13, <1>1, <1>2, <1>3, <1>4, <1>5, <1>6, <1>7, <1>8, <1>9, <1>10, <1>11 DEF PlaneStep
<1>14. CASE UNCHANGED vars
  BY <1>0, <1>14 DEF vars
<1> QED BY <1>12, <1>13, <1>14 DEF Next

\* However routes change between the lookup and the use of a session's sender, a
\* packet from the TUN device reaches only the client whose address it bears, and a
\* client's packet leaves only under its own address (run_reader, accept_packet).
THEOREM PacketsKeepToTheirClientProved == Spec => []PacketsKeepToTheirClient
<1>1. PlaneInv => PacketsKeepToTheirClient
  BY DEF PlaneInv
<1> QED BY <1>1, PlaneInit, PlaneNext, PTL DEF Spec

\* The NAT table, the queues and the readers are well-formed and bounded, and no
\* entry is without a reader whose end will be handled (get_or_create_upstream,
\* handle_reader_done, sweep_idle).
THEOREM MappingsAreServedProved == Spec => []MappingsAreServed
<1>1. NatInv /\ PlaneInv => MappingsAreServed
  BY DEF NatInv, PlaneInv, NatTypeOK, PlaneTypeOK, TypeOK, TableInv, Served,
         EntryHasReader, MappingsAreServed
<1>2. Spec => []PlaneInv
  BY PlaneInit, PlaneNext, PTL DEF Spec
<1> QED BY <1>1, <1>2, NatTableIsSound, PTL
=============================================================================
