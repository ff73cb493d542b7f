----------------------- MODULE TransportSwitchProofs -----------------------
(***************************************************************************)
(* Proofs about TransportSwitch, for any number of connection ids, keys    *)
(* and attempts, and a history of any length.                              *)
(*                                                                         *)
(* The two sessions are tied together by what is in flight between them    *)
(* and in which order.  The inductive invariant has a part for each        *)
(* session, a part for what the server will still read, which holds also   *)
(* after the client has ended, and a part that relates the two sessions as *)
(* long as TCP delivers.                                                   *)
(***************************************************************************)
EXTENDS TransportSwitch, SequenceTheorems, TLAPS

-----------------------------------------------------------------------------
(* What is in flight, and in which order                                   *)

Elems(q) == {q[i] : i \in DOMAIN q}

Has(q, X) == \E m \in Elems(q) : m \in X

Before(q, a, b) == \E i, j \in DOMAIN q : i < j /\ q[i] = a /\ q[j] = b

\* Every message of Y has one of Z before it.
Preceded(q, Y, Z) ==
    \A i \in DOMAIN q : q[i] \in Y => \E j \in DOMAIN q : j < i /\ q[j] \in Z

\* Every message of X has one of Z behind it.
Followed(q, X, Z) ==
    \A i \in DOMAIN q : q[i] \in X => \E j \in DOMAIN q : i < j /\ q[j] \in Z

\* Every message of X and every later one of Y have one of Z between them.
Between(q, X, Y, Z) ==
    \A i, k \in DOMAIN q : i < k /\ q[i] \in X /\ q[k] \in Y =>
        \E j \in DOMAIN q : i < j /\ j < k /\ q[j] \in Z

\* No message of X is behind one of Y.
Ordered(q, X, Y) == \A a \in Y, b \in X : ~Before(q, a, b)

AtMostOne(q, X) == \A a, b \in X : ~Before(q, a, b)

Of(type) == {m \in Messages : m.type = type}
The(type, id) == {m \in Messages : m.type = type /\ m.id = id}

Regs == Of("RegisterCid")
RegOf(key) == {m \in Regs : m.key = key}
OkFor(cid) == {m \in Of("RegisterOk") : m.cid = cid}
Requests == Of("FallbackToTcp")

\* Datagrams were sealed with these keys; a probe of this attempt was.
Traffic(key) == \E d \in datagrams : d.key = key
Probed(key, id) == \E d \in datagrams : d.type = "UpgradeProbe" /\ d.key = key /\ d.id = id

Upgrading == client.upgrade = "Upgrading"
Awaiting == client.upgrade = "AwaitingSwitchOk"

\* The server will commit when it reads a SWITCH_ACK of this attempt.
Matching(id) == server.upgrade_id = id /\ server.switch_to_udp_sent

\* The server has read the UDP_READY of this attempt.
Readied(id) == server.upgrade_id = id /\ server.ready_seen

-----------------------------------------------------------------------------
(* The inductive invariant                                                 *)

\* The client: what its states say of its keys and attempts.
ClientInv ==
    /\ AttemptHasTransport
    /\ client.active_transport = "UdpQsp" =>
          client.udp_state = "Active" /\ client.authenticated /\ client.pending_tcp_fallback = None
    /\ client.probe_acked \/ Awaiting => client.authenticated
    /\ client.discovery_task => client.udp_state = "NeedDiscovery"
    /\ client.registration # None => client.udp_state = "Pending" /\ client.registration = used.key
    /\ client.udp_state = "Active" <=> client.transport # None
    /\ client.transport # None => client.transport = used.key
    /\ client.udp_state = "Pending" => client.cid # None /\ client.cid = used.cid
    /\ Upgrading \/ Awaiting <=> client.upgrade_id # None
    /\ client.upgrade_id # None => client.upgrade_id = used.upgrade
    /\ client.ready_sent \/ client.probe_acked => Upgrading
    /\ client.ready_sent <=> client.probe_acked
    /\ client.upgrade = "Disabled" <=> ~(EnableUpgrade \/ client.require_udp)
    /\ client.udp_state = "Disabled" <=> ~(EnableUpgrade \/ client.require_udp)
    /\ client.retained # None => client.udp_state \in {"NeedDiscovery", "Pending"}

\* The server: what an attempt in progress and the preference for UDP-QSP rest on.
ServerInv ==
    /\ server.run # "ProtocolError"
    /\ server.probe_seen \/ server.ready_seen \/ server.switch_to_udp_sent => server.upgrade_id # None
    /\ server.switch_to_udp_sent => server.probe_seen /\ server.ready_seen
    /\ server.probe_seen =>
          /\ server.udp_session # None /\ server.peer_known /\ server.authenticated
          /\ Probed(server.udp_session, server.upgrade_id)
    /\ server.active_transport = "UdpQsp" =>
          /\ server.udp_session # None /\ server.peer_known /\ server.authenticated
          /\ server.pending_tcp_fallback = None
          /\ Traffic(server.udp_session)
    /\ StaleAttemptStaysStale
    /\ server.ready_seen => \E k \in Key : Probed(k, server.upgrade_id)
    /\ server.ready_seen /\ Probed(server.udp_session, server.upgrade_id) =>
          server.pending_tcp_fallback = None

\* Every datagram belongs to a registration and, if it is part of an attempt, to the
\* only one under which that attempt is made.
DatagramInv ==
    /\ \A d \in datagrams : d.key <= used.key /\ d.id <= used.upgrade
    /\ \A d \in datagrams : d.type # "Ping" => d.id # None
    /\ \A d, e \in datagrams :
          d.type = "UpgradeProbe" /\ e.type = "UpgradeProbe" /\ d.id = e.id => d.key = e.key
    /\ \A d \in datagrams : d.type = "UpgradeProbeAck" => Probed(d.key, d.id)
    /\ \A d \in datagrams : d.type = "UpgradeProbe" /\ d.id = client.upgrade_id => d.key = used.key

\* What was drawn is not drawn again.
Drawn(m) ==
    /\ m.type = "RegisterCid" => m.key <= used.key /\ m.cid <= used.cid
    /\ m.type = "RegisterOk" => m.cid <= used.cid
    /\ m.type \in {"UdpReady", "SwitchToUdp", "SwitchAck", "SwitchOk"} => m.id <= used.upgrade
    /\ m.type \in {"FallbackToTcp", "FallbackOk"} => m.id <= used.fallback

DrawnInv ==
    /\ \A m \in Elems(to_server) : Drawn(m)
    /\ \A m \in Elems(to_client) : Drawn(m)
    /\ server.udp_session <= used.key /\ server.upgrade_id <= used.upgrade
    /\ \A i \in DOMAIN server.stale_upgrade_ids : server.stale_upgrade_ids[i] <= used.upgrade
    /\ server.pending_tcp_fallback <= used.fallback /\ server.last_peer_fallback_id <= used.fallback
    /\ client.pending_tcp_fallback <= used.fallback

\* Registrations and UDP_READY messages arrive in the order of their keys and ids; there is
\* at most one fallback request on its way, and it is new to the server.
ArrivalInv ==
    /\ \A a, b \in Regs : Before(to_server, a, b) => a.key < b.key /\ a.cid <= b.cid
    /\ \A m \in Elems(to_server) : m \in Regs => server.udp_session < m.key
    /\ \A a, b \in Of("UdpReady") : Before(to_server, a, b) => a.id < b.id
    /\ AtMostOne(to_server, Requests)
    /\ \A m \in Elems(to_server) : m \in Requests => server.last_peer_fallback_id < m.id

\* The UDP_READY messages that can still complete an attempt: those under the keys of
\* the server, or of a registration that it has not read.
LiveReady ==
    {m \in Of("UdpReady") : \E k \in Key :
        Probed(k, m.id) /\ (server.udp_session = k \/ Has(to_server, RegOf(k)))}

\* What the server will read is consistent with what it has read.
ReadyInv ==
    /\ \A m \in Elems(to_server) : m \in Of("UdpReady") =>
          /\ \E k \in Key : Probed(k, m.id)
          /\ server.ready_seen => server.upgrade_id < m.id
          /\ \A a \in Elems(to_server) : a \in Of("SwitchAck") => a.id < m.id
          /\ server.upgrade_id = None => ~IsStale(server, m.id)
    /\ \A m \in Elems(to_server) : m \in Of("SwitchAck") =>
          /\ Readied(m.id) => server.switch_to_udp_sent
          /\ Matching(m.id) =>
                \A n \in DOMAIN server.stale_upgrade_ids : server.stale_upgrade_ids[n] <= m.id
    /\ server.pending_tcp_fallback # None =>
          Preceded(to_server, LiveReady, The("FallbackOk", server.pending_tcp_fallback))

\* No registration is read while the server prefers UDP-QSP: a fallback request comes
\* before it.
SwitchInv ==
    /\ server.active_transport = "UdpQsp" => Preceded(to_server, Regs, Requests)
    /\ server.switch_to_udp_sent =>
          Between(to_server, The("SwitchAck", server.upgrade_id), Regs, Requests)

\* A registration that was repeated before it was answered is never used: when the keys
\* of a registration in flight are in use, older ones that the server has not left
\* behind are not.
TrafficInv ==
    /\ \A m \in Elems(to_server) : m \in Regs /\ Traffic(m.key) =>
          /\ ~Traffic(server.udp_session)
          /\ \A n \in Elems(to_server) : n \in Regs /\ n.key < m.key => ~Traffic(n.key)
    /\ client.udp_state = "Pending" =>
          \A m \in Elems(to_server) : m \in Regs /\ m.cid = client.cid => ~Traffic(m.key)
    /\ client.udp_state = "Pending" /\ Has(to_client, OkFor(client.cid)) =>
          /\ ~Traffic(server.udp_session)
          /\ \A m \in Elems(to_server) : m \in Regs => ~Traffic(m.key)
    /\ client.udp_state = "Active" /\ Has(to_server, RegOf(used.key)) =>
          /\ ~Traffic(server.udp_session)
          /\ \A m \in Elems(to_server) : m \in Regs /\ m.key # used.key => ~Traffic(m.key)

One(b) == IF b THEN 1 ELSE 0

\* Every upgrade attempt and every fallback request is paid for by a registration or a
\* retry.
Charged ==
    used.fallback + One(client.udp_state = "Active") + One(Upgrading \/ Awaiting)
        + 2 * One(client.registration # None) + One(server.udp_session # None)

CountInv ==
    /\ used.upgrade + One(client.registration # None) <= used.key + used.retry
    /\ Charged <= 3 * used.key + used.retry
    /\ \A m \in Elems(to_server) : m \in Regs =>
          Charged + (used.key - m.key + 1) <= 3 * used.key + used.retry

\* Registration, while TCP delivers.
RegisterLink ==
    /\ Has(to_server, Regs) => Has(to_server, RegOf(used.key))
    /\ \A m \in Elems(to_server) : m \in Regs /\ client.cipher_policy_auto => m.auto
    /\ client.registration # None =>
          \A m \in Elems(to_server) : m \in RegOf(used.key) =>
              m.cid = client.cid /\ m.auto = client.cipher_policy_auto
    /\ client.udp_state = "Pending" /\ Has(to_client, OkFor(client.cid)) =>
          /\ client.cid \notin CollidingCids
          /\ server.rejects_auto_cipher => ~client.cipher_policy_auto
    /\ client.registration # None /\ Has(to_client, OkFor(client.cid)) =>
          Has(to_server, RegOf(used.key)) \/ server.udp_session \in {None, used.key}
    /\ client.udp_state = "Active" =>
          Has(to_server, RegOf(used.key)) \/ server.udp_session \in {None, used.key}
    /\ client.udp_state = "Active" =>
          \A m \in Elems(to_server) : m \in RegOf(used.key) => RegisterFailCodes(m) = {}

\* The client's fallback requests, while TCP delivers.
ClientFallbackLink ==
    LET pending == client.pending_tcp_fallback IN
    /\ \A m \in Elems(to_server) : m \in Requests => pending = m.id
    /\ pending # None => Has(to_server, The("FallbackToTcp", pending)) \/ Has(to_client, The("FallbackOk", pending))
    /\ pending # None /\ Has(to_client, The("FallbackOk", pending)) => ~Has(to_server, Requests)
    /\ Awaiting => pending = None
    /\ Upgrading /\ Readied(client.upgrade_id) => ~Has(to_server, Requests)
    /\ Upgrading => Ordered(to_server, Requests, The("UdpReady", client.upgrade_id))
    /\ Upgrading /\ pending # None =>
          Preceded(to_client, The("SwitchToUdp", client.upgrade_id), The("FallbackOk", pending))

\* The server's fallback requests, while TCP delivers.
ServerFallbackLink ==
    LET pending == server.pending_tcp_fallback IN
    /\ \A m \in Elems(to_client) : m \in Requests => pending = m.id
    /\ AtMostOne(to_client, Requests)
    /\ pending # None => Has(to_server, The("FallbackOk", pending)) \/ Has(to_client, The("FallbackToTcp", pending))
    /\ pending # None /\ Has(to_server, The("FallbackOk", pending)) => ~Has(to_client, Requests)
    /\ Has(to_client, Requests) /\ client.udp_state = "Active" =>
          server.udp_session # used.key /\ ~Has(to_server, RegOf(used.key))
    /\ client.udp_state = "Pending" => Ordered(to_client, Requests, OkFor(client.cid))

\* The attempt of the client and that of the server, while TCP delivers.
AttemptLink ==
    /\ Upgrading /\ ~client.ready_sent =>
          /\ ~Has(to_server, The("UdpReady", client.upgrade_id))
          /\ ~Has(to_client, The("SwitchToUdp", client.upgrade_id))
          /\ ~Readied(client.upgrade_id)
    /\ \A m \in Elems(to_client) : m \in Of("SwitchToUdp") =>
          /\ \A n \in Elems(to_server) : n \in Of("UdpReady") => m.id < n.id
          /\ Readied(m.id) => server.switch_to_udp_sent
    /\ Upgrading => ~Has(to_server, The("SwitchAck", client.upgrade_id))
    /\ \A m \in Elems(to_client) : m \in Of("SwitchOk") =>
          /\ Upgrading => m.id < client.upgrade_id
          /\ ~Has(to_server, The("UdpReady", m.id))
          /\ ~Readied(m.id)
    /\ Upgrading /\ server.upgrade_id = None => ~IsStale(server, client.upgrade_id)

\* The server commits to UDP-QSP only together with the client, or a fallback request
\* follows; while TCP delivers.
Committed == client.active_transport = "UdpQsp" \/ (Awaiting /\ Has(to_client, The("SwitchOk", client.upgrade_id)))

CommitLink ==
    /\ server.switch_to_udp_sent =>
          \/ Awaiting /\ client.upgrade_id = server.upgrade_id
          \/ Followed(to_server, The("SwitchAck", server.upgrade_id), Requests)
    /\ server.active_transport = "UdpQsp" => Has(to_server, Requests) \/ Committed
    /\ Committed =>
          /\ server.active_transport = "UdpQsp" \/ server.udp_session = None
          /\ ~Has(to_server, Regs)

BothConnected == client.run = "Running" /\ server.run = "Running" /\ client.tcp_alive /\ server.tcp_alive

Link ==
    /\ BothConnected
    /\ RegisterLink /\ ClientFallbackLink /\ ServerFallbackLink /\ AttemptLink /\ CommitLink

Inv ==
    /\ TypeOK /\ ClientInv /\ ServerInv /\ DatagramInv
    /\ DrawnInv /\ ArrivalInv /\ ReadyInv /\ SwitchInv /\ TrafficInv /\ CountInv
    /\ tcp_up => Link

-----------------------------------------------------------------------------
(* Queues                                                                  *)

\* A message is added.
LEMMA AppendFacts ==
    ASSUME NEW M, NEW q \in Seq(M), NEW m \in M
    PROVE  LET r == Append(q, m) IN
           /\ r \in Seq(M)
           /\ Elems(r) = Elems(q) \cup {m}
           /\ \A a, b : Before(r, a, b) => Before(q, a, b) \/ (a \in Elems(q) /\ b = m)
<1> DEFINE r == Append(q, m)
<1>1. /\ Len(q) \in Nat /\ DOMAIN q = 1..Len(q)
      /\ r \in Seq(M) /\ DOMAIN r = 1..Len(q)+1
      /\ \A i \in 1..Len(q) : r[i] = q[i]
      /\ r[Len(q) + 1] = m
  BY AppendProperties, LenProperties
<1> HIDE DEF r
<1>2. Elems(r) = Elems(q) \cup {m}
  <2>1. ASSUME NEW x \in Elems(r) PROVE x \in Elems(q) \cup {m}
    <3>1. PICK i \in DOMAIN r : x = r[i]
      BY DEF Elems
    <3>2. i \in DOMAIN q \/ i = Len(q) + 1
      BY <1>1
    <3> QED BY <1>1, <3>1, <3>2 DEF Elems
  <2>2. ASSUME NEW x \in Elems(q) PROVE x \in Elems(r)
    <3>1. PICK i \in DOMAIN q : x = q[i]
      BY DEF Elems
    <3>2. i \in DOMAIN r
      BY <1>1
    <3> QED BY <1>1, <3>1, <3>2 DEF Elems
  <2>3. m \in Elems(r)
    <3>1. Len(q) + 1 \in DOMAIN r
      BY <1>1
    <3> QED BY <1>1, <3>1 DEF Elems
  <2> QED BY <2>1, <2>2, <2>3
<1>3. ASSUME NEW a, NEW b, Before(r, a, b) PROVE Before(q, a, b) \/ (a \in Elems(q) /\ b = m)
  <2>1. PICK i, j \in DOMAIN r : i < j /\ r[i] = a /\ r[j] = b
    BY <1>3 DEF Before
  <2>2. i \in DOMAIN q
    BY <1>1, <2>1
  <2>3. CASE j \in DOMAIN q
    BY <1>1, <2>1, <2>2, <2>3 DEF Before
  <2>4. CASE j = Len(q) + 1
    BY <1>1, <2>1, <2>2, <2>4 DEF Elems
  <2> QED BY <1>1, <2>3, <2>4
<1> QED BY <1>1, <1>2, <1>3 DEF r

LEMMA AppendPreceded ==
    ASSUME NEW M, NEW q \in Seq(M), NEW m \in M, NEW Y, NEW Z,
           Preceded(q, Y, Z), m \in Y => Has(q, Z)
    PROVE  Preceded(Append(q, m), Y, Z)
<1> DEFINE r == Append(q, m)
<1>1. /\ Len(q) \in Nat /\ DOMAIN q = 1..Len(q)
      /\ DOMAIN r = 1..Len(q)+1
      /\ \A i \in 1..Len(q) : r[i] = q[i]
      /\ r[Len(q) + 1] = m
  BY AppendProperties, LenProperties
<1> HIDE DEF r
<1>2. ASSUME NEW i \in DOMAIN r, r[i] \in Y PROVE \E j \in DOMAIN r : j < i /\ r[j] \in Z
  <2>1. CASE i \in DOMAIN q
    <3>1. PICK j \in DOMAIN q : j < i /\ q[j] \in Z
      BY <1>1, <1>2, <2>1 DEF Preceded
    <3> QED BY <1>1, <3>1
  <2>2. CASE i = Len(q) + 1
    <3>1. PICK j \in DOMAIN q : q[j] \in Z
      BY <1>1, <1>2, <2>2 DEF Has, Elems
    <3>2. j < i /\ j \in DOMAIN r /\ r[j] = q[j]
      BY <1>1, <2>2
    <3> QED BY <3>1, <3>2
  <2> QED BY <1>1, <2>1, <2>2
<1> QED BY <1>2 DEF Preceded, r

LEMMA AppendFollowed ==
    ASSUME NEW M, NEW q \in Seq(M), NEW m \in M, NEW X, NEW Z,
           m \notin X, Followed(q, X, Z) \/ m \in Z
    PROVE  Followed(Append(q, m), X, Z)
<1> DEFINE r == Append(q, m)
<1>1. /\ Len(q) \in Nat /\ DOMAIN q = 1..Len(q)
      /\ DOMAIN r = 1..Len(q)+1
      /\ \A i \in 1..Len(q) : r[i] = q[i]
      /\ r[Len(q) + 1] = m
  BY AppendProperties, LenProperties
<1> HIDE DEF r
<1>2. ASSUME NEW i \in DOMAIN r, r[i] \in X PROVE \E j \in DOMAIN r : i < j /\ r[j] \in Z
  <2>1. i \in DOMAIN q /\ i < Len(q) + 1 /\ Len(q) + 1 \in DOMAIN r /\ q[i] \in X
    BY <1>1, <1>2
  <2>2. CASE m \in Z
    BY <1>1, <2>1, <2>2
  <2>3. CASE Followed(q, X, Z)
    <3>1. PICK j \in DOMAIN q : i < j /\ q[j] \in Z
      BY <2>1, <2>3 DEF Followed
    <3> QED BY <1>1, <3>1
  <2> QED BY <2>2, <2>3
<1> QED BY <1>2 DEF Followed, r

LEMMA AppendBetween ==
    ASSUME NEW M, NEW q \in Seq(M), NEW m \in M, NEW X, NEW Y, NEW Z,
           Between(q, X, Y, Z), m \in Y => ~Has(q, X) \/ Followed(q, X, Z)
    PROVE  Between(Append(q, m), X, Y, Z)
<1> DEFINE r == Append(q, m)
<1>1. /\ Len(q) \in Nat /\ DOMAIN q = 1..Len(q)
      /\ DOMAIN r = 1..Len(q)+1
      /\ \A i \in 1..Len(q) : r[i] = q[i]
      /\ r[Len(q) + 1] = m
  BY AppendProperties, LenProperties
<1> HIDE DEF r
<1>2. ASSUME NEW i \in DOMAIN r, NEW k \in DOMAIN r, i < k, r[i] \in X, r[k] \in Y
      PROVE  \E j \in DOMAIN r : i < j /\ j < k /\ r[j] \in Z
  <2>1. i \in DOMAIN q /\ q[i] \in X
    BY <1>1, <1>2
  <2>2. CASE k \in DOMAIN q
    <3>1. PICK j \in DOMAIN q : i < j /\ j < k /\ q[j] \in Z
      BY <1>1, <1>2, <2>1, <2>2 DEF Between
    <3> QED BY <1>1, <3>1
  <2>3. CASE k = Len(q) + 1
    <3>1. Has(q, X)
      BY <2>1 DEF Has, Elems
    <3>2. PICK j \in DOMAIN q : i < j /\ q[j] \in Z
      BY <1>1, <1>2, <2>1, <2>3, <3>1 DEF Followed
    <3>3. j < k /\ j \in DOMAIN r /\ r[j] = q[j]
      BY <1>1, <2>3
    <3> QED BY <3>2, <3>3
  <2> QED BY <1>1, <2>2, <2>3
<1> QED BY <1>2 DEF Between, r

\* The oldest message is read.
LEMMA TailFacts ==
    ASSUME NEW M, NEW q \in Seq(M), q # <<>>
    PROVE  /\ Head(q) \in M /\ Tail(q) \in Seq(M)
           /\ Elems(q) = {Head(q)} \cup Elems(Tail(q))
           /\ \A a, b : Before(Tail(q), a, b) => Before(q, a, b)
           /\ \A b \in Elems(Tail(q)) : Before(q, Head(q), b)
<1> DEFINE r == Tail(q)
           h == Head(q)
<1>1. /\ Len(q) \in Nat /\ Len(q) >= 1 /\ DOMAIN q = 1..Len(q)
      /\ h = q[1] /\ h \in M
      /\ r \in Seq(M) /\ DOMAIN r = 1..Len(q)-1
      /\ \A i \in 1..Len(q)-1 : r[i] = q[i + 1]
  BY HeadTailProperties, LenProperties, EmptySeq, ElementOfSeq
<1> HIDE DEF r, h
<1>2. \A i \in DOMAIN r : i + 1 \in DOMAIN q /\ r[i] = q[i + 1] /\ 1 < i + 1
  BY <1>1
<1>3. \A i \in DOMAIN q : i = 1 \/ (i - 1 \in DOMAIN r /\ q[i] = r[i - 1])
  BY <1>1
<1>4. 1 \in DOMAIN q
  BY <1>1
<1>5. Elems(q) = {h} \cup Elems(r)
  <2>1. ASSUME NEW x \in Elems(q) PROVE x \in {h} \cup Elems(r)
    <3>1. PICK i \in DOMAIN q : x = q[i]
      BY DEF Elems
    <3> QED BY <1>1, <1>3, <3>1 DEF Elems
  <2>2. ASSUME NEW x \in Elems(r) PROVE x \in Elems(q)
    <3>1. PICK i \in DOMAIN r : x = r[i]
      BY DEF Elems
    <3> QED BY <1>2, <3>1 DEF Elems
  <2>3. h \in Elems(q)
    BY <1>1, <1>4 DEF Elems
  <2> QED BY <2>1, <2>2, <2>3
<1>6. ASSUME NEW a, NEW b, Before(r, a, b) PROVE Before(q, a, b)
  <2>1. PICK i, j \in DOMAIN r : i < j /\ r[i] = a /\ r[j] = b
    BY <1>6 DEF Before
  <2>2. i + 1 < j + 1
    BY <1>1, <2>1
  <2> QED BY <1>2, <2>1, <2>2 DEF Before
<1>7. ASSUME NEW b \in Elems(r) PROVE Before(q, h, b)
  <2>1. PICK i \in DOMAIN r : b = r[i]
    BY DEF Elems
  <2> QED BY <1>1, <1>2, <1>4, <2>1 DEF Before
<1> QED BY <1>1, <1>5, <1>6, <1>7 DEF r, h

LEMMA TailPreceded ==
    ASSUME NEW M, NEW q \in Seq(M), q # <<>>, NEW Y, NEW Z, Preceded(q, Y, Z)
    PROVE  /\ Head(q) \notin Y
           /\ Head(q) \notin Z => Preceded(Tail(q), Y, Z)
<1> DEFINE r == Tail(q)
           h == Head(q)
<1>1. /\ Len(q) \in Nat /\ Len(q) >= 1 /\ DOMAIN q = 1..Len(q)
      /\ h = q[1] /\ h \in M
      /\ r \in Seq(M) /\ DOMAIN r = 1..Len(q)-1
      /\ \A i \in 1..Len(q)-1 : r[i] = q[i + 1]
  BY HeadTailProperties, LenProperties, EmptySeq, ElementOfSeq
<1> HIDE DEF r, h
<1>2. h \notin Y
  BY <1>1 DEF Preceded
<1>3. ASSUME h \notin Z, NEW i \in DOMAIN r, r[i] \in Y PROVE \E j \in DOMAIN r : j < i /\ r[j] \in Z
  <2>1. i + 1 \in DOMAIN q /\ q[i + 1] \in Y
    BY <1>1, <1>3
  <2>2. PICK j \in DOMAIN q : j < i + 1 /\ q[j] \in Z
    BY <2>1 DEF Preceded
  <2>3. j # 1
    BY <1>1, <1>3, <2>2
  <2>4. j - 1 \in DOMAIN r /\ r[j - 1] = q[j] /\ j - 1 < i
    BY <1>1, <2>2, <2>3
  <2> QED BY <2>2, <2>4
<1> QED BY <1>2, <1>3 DEF Preceded, r, h

LEMMA TailFollowed ==
    ASSUME NEW M, NEW q \in Seq(M), q # <<>>, NEW X, NEW Z, Followed(q, X, Z)
    PROVE  /\ Followed(Tail(q), X, Z)
           /\ Head(q) \in X => Has(Tail(q), Z)
<1> DEFINE r == Tail(q)
           h == Head(q)
<1>1. /\ Len(q) \in Nat /\ Len(q) >= 1 /\ DOMAIN q = 1..Len(q)
      /\ h = q[1] /\ h \in M
      /\ r \in Seq(M) /\ DOMAIN r = 1..Len(q)-1
      /\ \A i \in 1..Len(q)-1 : r[i] = q[i + 1]
  BY HeadTailProperties, LenProperties, EmptySeq, ElementOfSeq
<1> HIDE DEF r, h
<1>2. ASSUME h \in X PROVE Has(r, Z)
  <2>1. PICK j \in DOMAIN q : 1 < j /\ q[j] \in Z
    BY <1>1, <1>2 DEF Followed
  <2>2. j - 1 \in DOMAIN r /\ r[j - 1] = q[j]
    BY <1>1, <2>1
  <2> QED BY <2>1, <2>2 DEF Has, Elems
<1>3. ASSUME NEW i \in DOMAIN r, r[i] \in X PROVE \E j \in DOMAIN r : i < j /\ r[j] \in Z
  <2>1. i + 1 \in DOMAIN q /\ q[i + 1] \in X
    BY <1>1, <1>3
  <2>2. PICK j \in DOMAIN q : i + 1 < j /\ q[j] \in Z
    BY <2>1 DEF Followed
  <2>3. j - 1 \in DOMAIN r /\ r[j - 1] = q[j] /\ i < j - 1
    BY <1>1, <2>2
  <2> QED BY <2>2, <2>3
<1> QED BY <1>2, <1>3 DEF Followed, r, h

LEMMA TailBetween ==
    ASSUME NEW M, NEW q \in Seq(M), q # <<>>, NEW X, NEW Y, NEW Z, Between(q, X, Y, Z)
    PROVE  /\ Between(Tail(q), X, Y, Z)
           /\ Head(q) \in X => Preceded(Tail(q), Y, Z)
<1> DEFINE r == Tail(q)
           h == Head(q)
<1>1. /\ Len(q) \in Nat /\ Len(q) >= 1 /\ DOMAIN q = 1..Len(q)
      /\ h = q[1] /\ h \in M
      /\ r \in Seq(M) /\ DOMAIN r = 1..Len(q)-1
      /\ \A i \in 1..Len(q)-1 : r[i] = q[i + 1]
  BY HeadTailProperties, LenProperties, EmptySeq, ElementOfSeq
<1> HIDE DEF r, h
<1>2. ASSUME h \in X, NEW i \in DOMAIN r, r[i] \in Y PROVE \E j \in DOMAIN r : j < i /\ r[j] \in Z
  <2>1. i + 1 \in DOMAIN q /\ q[i + 1] \in Y /\ 1 \in DOMAIN q /\ 1 < i + 1
    BY <1>1, <1>2
  <2>2. PICK j \in DOMAIN q : 1 < j /\ j < i + 1 /\ q[j] \in Z
    BY <1>1, <1>2, <2>1 DEF Between
  <2>3. j - 1 \in DOMAIN r /\ r[j - 1] = q[j] /\ j - 1 < i
    BY <1>1, <2>2
  <2> QED BY <2>2, <2>3
<1>3. ASSUME NEW i \in DOMAIN r, NEW k \in DOMAIN r, i < k, r[i] \in X, r[k] \in Y
      PROVE  \E j \in DOMAIN r : i < j /\ j < k /\ r[j] \in Z
  <2>1. /\ i + 1 \in DOMAIN q /\ q[i + 1] \in X
        /\ k + 1 \in DOMAIN q /\ q[k + 1] \in Y /\ i + 1 < k + 1
    BY <1>1, <1>3
  <2>2. PICK j \in DOMAIN q : i + 1 < j /\ j < k + 1 /\ q[j] \in Z
    BY <2>1 DEF Between
  <2>3. j - 1 \in DOMAIN r /\ r[j - 1] = q[j] /\ i < j - 1 /\ j - 1 < k
    BY <1>1, <2>2
  <2> QED BY <2>2, <2>3
<1> QED BY <1>2, <1>3 DEF Between, Preceded, r, h

\* Fewer messages need not be preceded.
LEMMA PrecededFewer ==
    ASSUME NEW q, NEW Y, NEW Z, NEW W, Preceded(q, Y, Z), \A m \in Elems(q) : m \in W => m \in Y
    PROVE  Preceded(q, W, Z)
BY DEF Preceded, Elems

LEMMA AbsentIsOrdered ==
    ASSUME NEW q, NEW X, ~Has(q, X)
    PROVE  /\ \A Z : Preceded(q, X, Z) /\ Followed(q, X, Z)
           /\ \A Y, Z : Between(q, X, Y, Z)
BY DEF Preceded, Followed, Between, Has, Elems

LEMMA EmptyQueue ==
    /\ <<>> \in Seq(Messages) /\ Elems(<<>>) = {}
    /\ \A a, b : ~Before(<<>>, a, b)
    /\ \A X : ~Has(<<>>, X)
    /\ \A Y, Z : Preceded(<<>>, Y, Z) /\ Followed(<<>>, Y, Z)
    /\ \A X, Y, Z : Between(<<>>, X, Y, Z)
<1>1. <<>> \in Seq(Messages) /\ DOMAIN <<>> = {}
  BY EmptySeq
<1> QED BY <1>1 DEF Elems, Before, Has, Preceded, Followed, Between

-----------------------------------------------------------------------------
(* Messages and types                                                      *)

LEMMA NewMessages ==
    /\ \A id \in UpgradeId : \A type \in {"UdpReady", "SwitchToUdp", "SwitchAck", "SwitchOk"} :
          Msg(type, id) \in Messages
    /\ \A id \in FallbackId : \A type \in {"FallbackToTcp", "FallbackOk"} : Msg(type, id) \in Messages
    /\ \A type, id : Msg(type, id).type = type /\ Msg(type, id).id = id
    /\ \A cid \in Cid, key \in Key, auto \in BOOLEAN :
          [type |-> "RegisterCid", cid |-> cid, key |-> key, auto |-> auto] \in Messages
    /\ \A cid \in Cid : [type |-> "RegisterOk", cid |-> cid] \in Messages
    /\ \A code \in {"InvalidCid", "InvalidCipher"} :
          [type |-> "RegisterFail", code |-> code] \in Messages
BY DEF Messages, Msg

LEMMA MessageTypes ==
    ASSUME NEW m \in Messages
    PROVE  /\ m.type = "RegisterCid" =>
                 /\ m.cid \in Cid /\ m.key \in Key /\ m.auto \in BOOLEAN
                 /\ m.cid \in Nat /\ m.key \in Nat /\ m.cid # None /\ m.key # None
           /\ m.type = "RegisterOk" => m.cid \in Cid /\ m.cid \in Nat /\ m.cid # None
           /\ m.type \in {"UdpReady", "SwitchToUdp", "SwitchAck", "SwitchOk"} =>
                 m.id \in UpgradeId /\ m.id \in Nat /\ m.id # None
           /\ m.type \in {"FallbackToTcp", "FallbackOk"} =>
                 m.id \in FallbackId /\ m.id \in Nat /\ m.id # None
<1>1. /\ m.type = "RegisterCid" => m.cid \in Cid /\ m.key \in Key /\ m.auto \in BOOLEAN
      /\ m.type = "RegisterOk" => m.cid \in Cid
      /\ m.type \in {"UdpReady", "SwitchToUdp", "SwitchAck", "SwitchOk"} => m.id \in UpgradeId
      /\ m.type \in {"FallbackToTcp", "FallbackOk"} => m.id \in FallbackId
  BY DEF Messages
<1>2. \A n : n \in Cid \/ n \in Key \/ n \in UpgradeId \/ n \in FallbackId => n \in Nat /\ n # None
  BY SwitchAssumption DEF Cid, Key, UpgradeId, FallbackId, None
<1> QED BY <1>1, <1>2

\* Everything that is counted is a number, and everything in flight is a message.
LEMMA Numbers ==
    ASSUME TypeOK
    PROVE  /\ MaxCids \in Nat /\ MaxKeys \in Nat /\ MaxRetries \in Nat
           /\ used.cid \in 0..MaxCids /\ used.key \in 0..MaxKeys /\ used.retry \in 0..MaxRetries
           /\ used.upgrade \in 0..(MaxKeys + MaxRetries)
           /\ used.fallback \in 0..(3 * MaxKeys + MaxRetries)
           /\ used.cid \in Nat /\ used.key \in Nat /\ used.retry \in Nat
           /\ used.upgrade \in Nat /\ used.fallback \in Nat
           /\ client.cid \in Nat /\ client.registration \in Nat /\ client.transport \in Nat
           /\ client.upgrade_id \in Nat /\ client.pending_tcp_fallback \in Nat
           /\ server.udp_session \in Nat /\ server.upgrade_id \in Nat
           /\ server.pending_tcp_fallback \in Nat /\ server.last_peer_fallback_id \in Nat
<1>1. /\ used.cid \in 0..MaxCids /\ used.key \in 0..MaxKeys /\ used.retry \in 0..MaxRetries
      /\ used.upgrade \in 0..(MaxKeys + MaxRetries)
      /\ used.fallback \in 0..(3 * MaxKeys + MaxRetries)
  BY DEF TypeOK
<1>2. /\ client.cid \in Cid \cup {None} /\ client.registration \in Key \cup {None}
      /\ client.transport \in Key \cup {None}
      /\ client.upgrade_id \in UpgradeId \cup {None}
      /\ client.pending_tcp_fallback \in FallbackId \cup {None}
  BY DEF TypeOK, ClientRecord
<1>3. /\ server.udp_session \in Key \cup {None} /\ server.upgrade_id \in UpgradeId \cup {None}
      /\ server.pending_tcp_fallback \in FallbackId \cup {None}
      /\ server.last_peer_fallback_id \in FallbackId \cup {None}
  BY DEF TypeOK, ServerRecord
<1> QED BY <1>1, <1>2, <1>3, SwitchAssumption DEF Cid, Key, UpgradeId, FallbackId, None

LEMMA InFlightTypes ==
    ASSUME TypeOK
    PROVE  /\ \A m \in Elems(to_server) : m \in Messages
           /\ \A m \in Elems(to_client) : m \in Messages
           /\ \A d \in datagrams : d \in Datagrams
           /\ \A d \in datagrams : d.key \in Key /\ d.id \in UpgradeId \cup {None} /\ d.key \in Nat /\ d.id \in Nat
           /\ \A i \in DOMAIN server.stale_upgrade_ids : server.stale_upgrade_ids[i] \in UpgradeId
<1>1. ASSUME NEW q \in Seq(Messages), NEW m \in Elems(q) PROVE m \in Messages
  BY ElementOfSeq, LenProperties DEF Elems
<1>2. \A d \in datagrams : d \in Datagrams
  BY DEF TypeOK
<1>3. \A d \in datagrams : d.key \in Key /\ d.id \in UpgradeId \cup {None}
  BY <1>2 DEF Datagrams
<1>4. server.stale_upgrade_ids \in Seq(UpgradeId)
  BY DEF TypeOK, ServerRecord
<1>5. \A i \in DOMAIN server.stale_upgrade_ids : server.stale_upgrade_ids[i] \in UpgradeId
  BY <1>4, ElementOfSeq, LenProperties
<1> QED BY <1>1, <1>2, <1>3, <1>5 DEF TypeOK, Key, UpgradeId, None

LEMMA OneIsNat == \A b : One(b) \in Nat /\ One(b) <= 1
BY DEF One

\* A session writes to TCP.
LEMMA WrittenFacts ==
    ASSUME NEW q \in Seq(Messages), NEW m \in Messages, tcp_up \in BOOLEAN
    PROVE  LET r == Written(q, m) IN
           /\ r \in Seq(Messages)
           /\ Elems(q) \subseteq Elems(r) /\ Elems(r) \subseteq Elems(q) \cup {m}
           /\ tcp_up => m \in Elems(r)
           /\ \A a, b : Before(r, a, b) => Before(q, a, b) \/ (a \in Elems(q) /\ b = m)
           /\ \A Y, Z : Preceded(q, Y, Z) /\ (m \in Y => Has(q, Z)) => Preceded(r, Y, Z)
           /\ \A X, Z : m \notin X /\ (Followed(q, X, Z) \/ (tcp_up /\ m \in Z)) => Followed(r, X, Z)
           /\ \A X, Y, Z : Between(q, X, Y, Z) /\ (m \in Y => ~Has(q, X) \/ Followed(q, X, Z))
                  => Between(r, X, Y, Z)
<1>1. CASE tcp_up
  BY <1>1, AppendFacts, AppendPreceded, AppendFollowed, AppendBetween DEF Written
<1>2. CASE ~tcp_up
  BY <1>2 DEF Written
<1> QED BY <1>1, <1>2

\* A session reads from TCP.
LEMMA ReadFacts ==
    ASSUME NEW q \in Seq(Messages), q # <<>>
    PROVE  /\ Head(q) \in Messages /\ Tail(q) \in Seq(Messages)
           /\ Elems(q) = {Head(q)} \cup Elems(Tail(q))
           /\ \A a, b : Before(Tail(q), a, b) => Before(q, a, b)
           /\ \A b \in Elems(Tail(q)) : Before(q, Head(q), b)
           /\ \A Y, Z : Preceded(q, Y, Z) =>
                 Head(q) \notin Y /\ (Head(q) \notin Z => Preceded(Tail(q), Y, Z))
           /\ \A X, Z : Followed(q, X, Z) =>
                 Followed(Tail(q), X, Z) /\ (Head(q) \in X => Has(Tail(q), Z))
           /\ \A X, Y, Z : Between(q, X, Y, Z) =>
                 Between(Tail(q), X, Y, Z) /\ (Head(q) \in X => Preceded(Tail(q), Y, Z))
BY TailFacts, TailPreceded, TailFollowed, TailBetween

\* A step that opens nothing charges nothing, and neither does one that draws no key.
LEMMA NoCharge ==
    ASSUME TypeOK, used'.fallback = used.fallback,
           client'.udp_state = "Active" => client.udp_state = "Active",
           Upgrading' \/ Awaiting' => Upgrading \/ Awaiting,
           client'.registration # None => client.registration # None,
           server'.udp_session # None => server.udp_session # None
    PROVE  Charged \in Nat /\ Charged' \in Nat /\ Charged' <= Charged
<1>1. /\ One(client'.udp_state = "Active") <= One(client.udp_state = "Active")
      /\ One(Upgrading' \/ Awaiting') <= One(Upgrading \/ Awaiting)
      /\ One(client'.registration # None) <= One(client.registration # None)
      /\ One(server'.udp_session # None) <= One(server.udp_session # None)
  BY DEF One
<1>2. used.fallback \in Nat /\ \A b : One(b) \in Nat
  BY Numbers, OneIsNat
<1> QED BY <1>1, <1>2 DEF Charged

LEMMA CountKept ==
    ASSUME TypeOK, CountInv, Charged \in Nat, Charged' \in Nat, Charged' <= Charged,
           used'.key = used.key, used'.retry = used.retry, used'.upgrade = used.upgrade,
           client'.registration # None => client.registration # None,
           \A m \in Elems(to_server') : m \in Regs => m \in Elems(to_server)
    PROVE  CountInv'
<1>1. used.key \in Nat /\ used.retry \in Nat /\ used.upgrade \in Nat /\ \A b : One(b) \in Nat
  BY Numbers, OneIsNat
<1>2. used'.upgrade + One(client'.registration # None) <= used'.key + used'.retry
  <2>1. One(client'.registration # None) <= One(client.registration # None)
    BY DEF One
  <2>2. used.upgrade + One(client.registration # None) <= used.key + used.retry
    BY DEF CountInv
  <2> QED BY <1>1, <2>1, <2>2
<1>3. Charged' <= 3 * used'.key + used'.retry
  <2>1. Charged <= 3 * used.key + used.retry
    BY DEF CountInv
  <2> QED BY <1>1, <2>1
<1>4. ASSUME NEW n \in Elems(to_server'), n \in Regs
      PROVE  Charged' + (used'.key - n.key + 1) <= 3 * used'.key + used'.retry
  <2>1. Charged + (used.key - n.key + 1) <= 3 * used.key + used.retry /\ n.key \in Nat
    BY <1>4, MessageTypes DEF CountInv, Regs, Of
  <2> QED BY <1>1, <2>1
<1> QED BY <1>2, <1>3, <1>4 DEF CountInv

-----------------------------------------------------------------------------
(* The fields that a transition leaves                                     *)

\* A field is assigned a value of its type.
LEMMA SetClient ==
    ASSUME NEW c \in ClientRecord
    PROVE  /\ \A v \in {"Running"} \cup Exit : [c EXCEPT !.run = v] \in ClientRecord
           /\ \A v \in BOOLEAN : [c EXCEPT !.tcp_alive = v] \in ClientRecord
           /\ \A v \in {"Tcp", "UdpQsp"} : [c EXCEPT !.active_transport = v] \in ClientRecord
           /\ \A v \in {"Disabled", "NeedDiscovery", "Pending", "Active"} : [c EXCEPT !.udp_state = v] \in ClientRecord
           /\ \A v \in BOOLEAN : [c EXCEPT !.discovery_task = v] \in ClientRecord
           /\ \A v \in Cid \cup {None} : [c EXCEPT !.cid = v] \in ClientRecord
           /\ \A v \in Key \cup {None} : [c EXCEPT !.registration = v] \in ClientRecord
           /\ \A v \in Key \cup {None} : [c EXCEPT !.transport = v] \in ClientRecord
           /\ \A v \in Key \cup {None} : [c EXCEPT !.retained = v] \in ClientRecord
           /\ \A v \in BOOLEAN : [c EXCEPT !.authenticated = v] \in ClientRecord
           /\ \A v \in BOOLEAN : [c EXCEPT !.cipher_policy_auto = v] \in ClientRecord
           /\ \A v \in {"Disabled", "Idle", "Upgrading", "AwaitingSwitchOk", "TcpOnlyBlockedUdp"} : [c EXCEPT !.upgrade = v] \in ClientRecord
           /\ \A v \in UpgradeId \cup {None} : [c EXCEPT !.upgrade_id = v] \in ClientRecord
           /\ \A v \in BOOLEAN : [c EXCEPT !.probe_acked = v] \in ClientRecord
           /\ \A v \in BOOLEAN : [c EXCEPT !.ready_sent = v] \in ClientRecord
           /\ \A v \in FallbackId \cup {None} : [c EXCEPT !.pending_tcp_fallback = v] \in ClientRecord
           /\ \A v \in FallbackId \cup {None} : [c EXCEPT !.last_peer_fallback_id = v] \in ClientRecord
<1>1. \A v \in {"Running"} \cup Exit : [c EXCEPT !.run = v] \in ClientRecord
  BY DEF ClientRecord
<1>2. \A v \in BOOLEAN : [c EXCEPT !.tcp_alive = v] \in ClientRecord
  BY DEF ClientRecord
<1>3. \A v \in {"Tcp", "UdpQsp"} : [c EXCEPT !.active_transport = v] \in ClientRecord
  BY DEF ClientRecord
<1>4. \A v \in {"Disabled", "NeedDiscovery", "Pending", "Active"} : [c EXCEPT !.udp_state = v] \in ClientRecord
  BY DEF ClientRecord
<1>5. \A v \in BOOLEAN : [c EXCEPT !.discovery_task = v] \in ClientRecord
  BY DEF ClientRecord
<1>6. \A v \in Cid \cup {None} : [c EXCEPT !.cid = v] \in ClientRecord
  BY DEF ClientRecord
<1>7. \A v \in Key \cup {None} : [c EXCEPT !.registration = v] \in ClientRecord
  BY DEF ClientRecord
<1>8. \A v \in Key \cup {None} : [c EXCEPT !.transport = v] \in ClientRecord
  BY DEF ClientRecord
<1>9. \A v \in Key \cup {None} : [c EXCEPT !.retained = v] \in ClientRecord
  BY DEF ClientRecord
<1>10. \A v \in BOOLEAN : [c EXCEPT !.authenticated = v] \in ClientRecord
  BY DEF ClientRecord
<1>11. \A v \in BOOLEAN : [c EXCEPT !.cipher_policy_auto = v] \in ClientRecord
  BY DEF ClientRecord
<1>12. \A v \in {"Disabled", "Idle", "Upgrading", "AwaitingSwitchOk", "TcpOnlyBlockedUdp"} : [c EXCEPT !.upgrade = v] \in ClientRecord
  BY DEF ClientRecord
<1>13. \A v \in UpgradeId \cup {None} : [c EXCEPT !.upgrade_id = v] \in ClientRecord
  BY DEF ClientRecord
<1>14. \A v \in BOOLEAN : [c EXCEPT !.probe_acked = v] \in ClientRecord
  BY DEF ClientRecord
<1>15. \A v \in BOOLEAN : [c EXCEPT !.ready_sent = v] \in ClientRecord
  BY DEF ClientRecord
<1>16. \A v \in FallbackId \cup {None} : [c EXCEPT !.pending_tcp_fallback = v] \in ClientRecord
  BY DEF ClientRecord
<1>17. \A v \in FallbackId \cup {None} : [c EXCEPT !.last_peer_fallback_id = v] \in ClientRecord
  BY DEF ClientRecord
<1> QED BY <1>1, <1>2, <1>3, <1>4, <1>5, <1>6, <1>7, <1>8, <1>9, <1>10, <1>11, <1>12, <1>13, <1>14, <1>15, <1>16, <1>17

LEMMA SetServer ==
    ASSUME NEW s \in ServerRecord
    PROVE  /\ \A v \in {"Running"} \cup Exit : [s EXCEPT !.run = v] \in ServerRecord
           /\ \A v \in BOOLEAN : [s EXCEPT !.tcp_alive = v] \in ServerRecord
           /\ \A v \in {"Tcp", "UdpQsp"} : [s EXCEPT !.active_transport = v] \in ServerRecord
           /\ \A v \in Key \cup {None} : [s EXCEPT !.udp_session = v] \in ServerRecord
           /\ \A v \in BOOLEAN : [s EXCEPT !.peer_known = v] \in ServerRecord
           /\ \A v \in BOOLEAN : [s EXCEPT !.authenticated = v] \in ServerRecord
           /\ \A v \in UpgradeId \cup {None} : [s EXCEPT !.upgrade_id = v] \in ServerRecord
           /\ \A v \in BOOLEAN : [s EXCEPT !.probe_seen = v] \in ServerRecord
           /\ \A v \in BOOLEAN : [s EXCEPT !.ready_seen = v] \in ServerRecord
           /\ \A v \in BOOLEAN : [s EXCEPT !.switch_to_udp_sent = v] \in ServerRecord
           /\ \A v \in Seq(UpgradeId) : [s EXCEPT !.stale_upgrade_ids = v] \in ServerRecord
           /\ \A v \in FallbackId \cup {None} : [s EXCEPT !.pending_tcp_fallback = v] \in ServerRecord
           /\ \A v \in FallbackId \cup {None} : [s EXCEPT !.last_peer_fallback_id = v] \in ServerRecord
<1>1. \A v \in {"Running"} \cup Exit : [s EXCEPT !.run = v] \in ServerRecord
  BY DEF ServerRecord
<1>2. \A v \in BOOLEAN : [s EXCEPT !.tcp_alive = v] \in ServerRecord
  BY DEF ServerRecord
<1>3. \A v \in {"Tcp", "UdpQsp"} : [s EXCEPT !.active_transport = v] \in ServerRecord
  BY DEF ServerRecord
<1>4. \A v \in Key \cup {None} : [s EXCEPT !.udp_session = v] \in ServerRecord
  BY DEF ServerRecord
<1>5. \A v \in BOOLEAN : [s EXCEPT !.peer_known = v] \in ServerRecord
  BY DEF ServerRecord
<1>6. \A v \in BOOLEAN : [s EXCEPT !.authenticated = v] \in ServerRecord
  BY DEF ServerRecord
<1>7. \A v \in UpgradeId \cup {None} : [s EXCEPT !.upgrade_id = v] \in ServerRecord
  BY DEF ServerRecord
<1>8. \A v \in BOOLEAN : [s EXCEPT !.probe_seen = v] \in ServerRecord
  BY DEF ServerRecord
<1>9. \A v \in BOOLEAN : [s EXCEPT !.ready_seen = v] \in ServerRecord
  BY DEF ServerRecord
<1>10. \A v \in BOOLEAN : [s EXCEPT !.switch_to_udp_sent = v] \in ServerRecord
  BY DEF ServerRecord
<1>11. \A v \in Seq(UpgradeId) : [s EXCEPT !.stale_upgrade_ids = v] \in ServerRecord
  BY DEF ServerRecord
<1>12. \A v \in FallbackId \cup {None} : [s EXCEPT !.pending_tcp_fallback = v] \in ServerRecord
  BY DEF ServerRecord
<1>13. \A v \in FallbackId \cup {None} : [s EXCEPT !.last_peer_fallback_id = v] \in ServerRecord
  BY DEF ServerRecord
<1> QED BY <1>1, <1>2, <1>3, <1>4, <1>5, <1>6, <1>7, <1>8, <1>9, <1>10, <1>11, <1>12, <1>13

\* The fields of a client that no transition of its UDP side changes.
SameRest(d, c) ==
    /\ d.require_udp = c.require_udp /\ d.run = c.run /\ d.tcp_alive = c.tcp_alive
    /\ d.cipher_policy_auto = c.cipher_policy_auto
    /\ d.pending_tcp_fallback = c.pending_tcp_fallback
    /\ d.last_peer_fallback_id = c.last_peer_fallback_id

LEMMA WithoutAttemptFields ==
    ASSUME NEW c \in ClientRecord,
           NEW state \in {"Disabled", "Idle", "Upgrading", "AwaitingSwitchOk", "TcpOnlyBlockedUdp"}
    PROVE  LET d == WithoutAttempt(c, state) IN
           /\ d \in ClientRecord /\ SameRest(d, c)
           /\ d.active_transport = c.active_transport /\ d.udp_state = c.udp_state
           /\ d.discovery_task = c.discovery_task /\ d.cid = c.cid
           /\ d.registration = c.registration /\ d.transport = c.transport
           /\ d.retained = c.retained /\ d.authenticated = c.authenticated
           /\ d.upgrade = state /\ d.upgrade_id = None /\ ~d.probe_acked /\ ~d.ready_sent
<1> DEFINE d == WithoutAttempt(c, state)
<1>1. d \in ClientRecord
  BY SetClient DEF WithoutAttempt
<1>2. SameRest(d, c)
  BY DEF WithoutAttempt, ClientRecord, SameRest
<1>3. /\ d.active_transport = c.active_transport /\ d.udp_state = c.udp_state
      /\ d.cid = c.cid /\ d.registration = c.registration /\ d.transport = c.transport
      /\ d.retained = c.retained /\ d.upgrade = state /\ d.upgrade_id = None
  BY DEF WithoutAttempt, ClientRecord
<1>4. d.discovery_task = c.discovery_task /\ d.authenticated = c.authenticated
  BY DEF WithoutAttempt, ClientRecord
<1>5. ~d.probe_acked /\ ~d.ready_sent
  BY DEF WithoutAttempt, ClientRecord
<1> QED BY <1>1, <1>2, <1>3, <1>4, <1>5

LEMMA ScheduleDiscoveryFields ==
    ASSUME NEW c \in ClientRecord, NEW keep \in BOOLEAN
    PROVE  LET d == schedule_discovery(c, keep)
               enabled == EnableUpgrade \/ c.require_udp
           IN
           /\ d \in ClientRecord /\ SameRest(d, c)
           /\ d.active_transport = c.active_transport
           /\ d.udp_state = IF enabled THEN "NeedDiscovery" ELSE "Disabled"
           /\ d.discovery_task = c.discovery_task /\ d.cid = None
           /\ d.registration = None /\ d.transport = None
           /\ d.retained = IF enabled THEN Retained(c, keep) ELSE None
           /\ d.authenticated = (enabled /\ keep /\ c.authenticated)
           /\ d.upgrade = IF enabled THEN "Idle" ELSE "Disabled"
           /\ d.upgrade_id = None /\ ~d.probe_acked /\ ~d.ready_sent
<1>1. Retained(c, keep) \in Key \cup {None}
  BY DEF Retained, ClientRecord
<1>2. c.require_udp \in BOOLEAN /\ EnableUpgrade \in BOOLEAN /\ c.authenticated \in BOOLEAN
  BY SwitchAssumption DEF ClientRecord
<1>3. CASE EnableUpgrade \/ c.require_udp
  <2> DEFINE w == WithoutAttempt(c, "Idle")
  <2>1. w \in ClientRecord /\ SameRest(w, c)
        /\ w.active_transport = c.active_transport /\ w.discovery_task = c.discovery_task
        /\ w.upgrade = "Idle" /\ w.upgrade_id = None /\ ~w.probe_acked /\ ~w.ready_sent
    BY WithoutAttemptFields
  <2>2. schedule_discovery(c, keep) =
            [w EXCEPT !.udp_state = "NeedDiscovery", !.cid = None, !.registration = None, !.transport = None,
                      !.retained = Retained(c, keep), !.authenticated = keep /\ c.authenticated]
    BY <1>3 DEF schedule_discovery
  <2> HIDE DEF w
  <2>3. (keep /\ c.authenticated) \in BOOLEAN
    BY <1>2
  <2> DEFINE d == schedule_discovery(c, keep)
  <2>4. d \in ClientRecord
    <3> DEFINE b1 == [w EXCEPT !.udp_state = "NeedDiscovery"]
               b2 == [b1 EXCEPT !.cid = None]
               b3 == [b2 EXCEPT !.registration = None]
               b4 == [b3 EXCEPT !.transport = None]
               b5 == [b4 EXCEPT !.retained = Retained(c, keep)]
    <3>1. d = [b5 EXCEPT !.authenticated = (keep /\ c.authenticated)]
      BY <2>2
    <3>2. b1 \in ClientRecord
      BY <2>1, <1>1, <2>3, SetClient
    <3> HIDE DEF b1
    <3>3. b2 \in ClientRecord
      BY <3>2, <1>1, <2>3, SetClient
    <3> HIDE DEF b2
    <3>4. b3 \in ClientRecord
      BY <3>3, <1>1, <2>3, SetClient
    <3> HIDE DEF b3
    <3>5. b4 \in ClientRecord
      BY <3>4, <1>1, <2>3, SetClient
    <3> HIDE DEF b4
    <3>6. b5 \in ClientRecord
      BY <3>5, <1>1, <2>3, SetClient
    <3> HIDE DEF b5
    <3> QED BY <3>1, <3>6, <1>1, <2>3, SetClient
  <2>5. /\ SameRest(d, c) /\ d.active_transport = c.active_transport
        /\ d.discovery_task = c.discovery_task
    BY <2>1, <2>2 DEF ClientRecord, SameRest
  <2>6. /\ d.udp_state = "NeedDiscovery" /\ d.cid = None /\ d.registration = None /\ d.transport = None
        /\ d.retained = Retained(c, keep)
    BY <2>1, <2>2 DEF ClientRecord
  <2>7. d.authenticated = (keep /\ c.authenticated)
    BY <2>1, <2>2 DEF ClientRecord
  <2>8. d.upgrade = "Idle" /\ d.upgrade_id = None /\ ~d.probe_acked /\ ~d.ready_sent
    BY <2>1, <2>2 DEF ClientRecord
  <2> HIDE DEF d
  <2> QED BY <1>2, <1>3, <2>4, <2>5, <2>6, <2>7, <2>8 DEF d
<1>4. CASE ~(EnableUpgrade \/ c.require_udp)
  <2> DEFINE w == WithoutAttempt(c, "Disabled")
  <2>1. w \in ClientRecord /\ SameRest(w, c)
        /\ w.active_transport = c.active_transport /\ w.discovery_task = c.discovery_task
        /\ w.upgrade = "Disabled" /\ w.upgrade_id = None /\ ~w.probe_acked /\ ~w.ready_sent
    BY WithoutAttemptFields
  <2>2. schedule_discovery(c, keep) =
            [w EXCEPT !.udp_state = "Disabled", !.cid = None, !.registration = None, !.transport = None,
                      !.retained = None, !.authenticated = FALSE]
    BY <1>4 DEF schedule_discovery
  <2> HIDE DEF w
  <2> DEFINE d == schedule_discovery(c, keep)
  <2>4. d \in ClientRecord
    <3> DEFINE b1 == [w EXCEPT !.udp_state = "Disabled"]
               b2 == [b1 EXCEPT !.cid = None]
               b3 == [b2 EXCEPT !.registration = None]
               b4 == [b3 EXCEPT !.transport = None]
               b5 == [b4 EXCEPT !.retained = None]
    <3>1. d = [b5 EXCEPT !.authenticated = FALSE]
      BY <2>2
    <3>2. b1 \in ClientRecord
      BY <2>1, SetClient
    <3> HIDE DEF b1
    <3>3. b2 \in ClientRecord
      BY <3>2, SetClient
    <3> HIDE DEF b2
    <3>4. b3 \in ClientRecord
      BY <3>3, SetClient
    <3> HIDE DEF b3
    <3>5. b4 \in ClientRecord
      BY <3>4, SetClient
    <3> HIDE DEF b4
    <3>6. b5 \in ClientRecord
      BY <3>5, SetClient
    <3> HIDE DEF b5
    <3> QED BY <3>1, <3>6, SetClient
  <2>5. /\ SameRest(d, c) /\ d.active_transport = c.active_transport
        /\ d.discovery_task = c.discovery_task
    BY <2>1, <2>2 DEF ClientRecord, SameRest
  <2>6. /\ d.udp_state = "Disabled" /\ d.cid = None /\ d.registration = None /\ d.transport = None
        /\ d.retained = None /\ d.authenticated = FALSE
    BY <2>1, <2>2 DEF ClientRecord
  <2>8. d.upgrade = "Disabled" /\ d.upgrade_id = None /\ ~d.probe_acked /\ ~d.ready_sent
    BY <2>1, <2>2 DEF ClientRecord
  <2> HIDE DEF d
  <2> QED BY <1>2, <1>4, <2>4, <2>5, <2>6, <2>8 DEF d
<1> QED BY <1>3, <1>4

\* The fields of a server that no transition of its UDP side changes.
SameServer(t, s) ==
    /\ t.rejects_auto_cipher = s.rejects_auto_cipher /\ t.run = s.run /\ t.tcp_alive = s.tcp_alive
    /\ t.pending_tcp_fallback = s.pending_tcp_fallback
    /\ t.last_peer_fallback_id = s.last_peer_fallback_id

LEMMA ResetFields ==
    ASSUME NEW s \in ServerRecord
    PROVE  LET t == reset_udp_upgrade_attempt_preserving_history(s) IN
           /\ t \in ServerRecord /\ SameServer(t, s)
           /\ t.active_transport = s.active_transport /\ t.udp_session = s.udp_session
           /\ t.peer_known = s.peer_known /\ t.authenticated = s.authenticated
           /\ t.upgrade_id = None /\ ~t.probe_seen /\ ~t.ready_seen /\ ~t.switch_to_udp_sent
           /\ t.stale_upgrade_ids = s.stale_upgrade_ids
BY DEF reset_udp_upgrade_attempt_preserving_history, ServerRecord, SameServer

LEMMA NoStaleIds == <<>> \in Seq(UpgradeId) /\ Len(<<>>) = 0 /\ DOMAIN <<>> = {}
BY EmptySeq

LEMMA ResetStateFields ==
    ASSUME NEW s \in ServerRecord
    PROVE  LET t == reset_udp_upgrade_state(s) IN
           /\ t \in ServerRecord /\ SameServer(t, s)
           /\ t.active_transport = s.active_transport /\ t.udp_session = s.udp_session
           /\ t.peer_known = s.peer_known /\ t.authenticated = s.authenticated
           /\ t.upgrade_id = None /\ ~t.probe_seen /\ ~t.ready_seen /\ ~t.switch_to_udp_sent
           /\ t.stale_upgrade_ids = <<>>
<1> DEFINE w == reset_udp_upgrade_attempt_preserving_history(s)
<1>1. /\ w \in ServerRecord /\ SameServer(w, s)
      /\ w.active_transport = s.active_transport /\ w.udp_session = s.udp_session
      /\ w.peer_known = s.peer_known /\ w.authenticated = s.authenticated
      /\ w.upgrade_id = None /\ ~w.probe_seen /\ ~w.ready_seen /\ ~w.switch_to_udp_sent
  BY ResetFields
<1>2. reset_udp_upgrade_state(s) = [w EXCEPT !.stale_upgrade_ids = <<>>]
  BY DEF reset_udp_upgrade_state
<1> HIDE DEF w
<1> QED BY ZenonT(120), <1>1, <1>2, NoStaleIds DEF ServerRecord, SameServer

LEMMA RetiredFields ==
    ASSUME NEW s \in ServerRecord
    PROVE  LET t == RetiredToTcp(s) IN
           /\ t \in ServerRecord /\ SameServer(t, s)
           /\ t.active_transport = "Tcp" /\ t.udp_session = None
           /\ ~t.peer_known /\ ~t.authenticated
           /\ t.upgrade_id = None /\ ~t.probe_seen /\ ~t.ready_seen /\ ~t.switch_to_udp_sent
           /\ t.stale_upgrade_ids = <<>>
<1> DEFINE w == reset_udp_upgrade_state(s)
<1>1. /\ w \in ServerRecord /\ SameServer(w, s)
      /\ w.upgrade_id = None /\ ~w.probe_seen /\ ~w.ready_seen /\ ~w.switch_to_udp_sent
      /\ w.stale_upgrade_ids = <<>>
  BY ResetStateFields
<1>2. RetiredToTcp(s) = [[w EXCEPT !.udp_session = None, !.peer_known = FALSE, !.authenticated = FALSE]
                            EXCEPT !.active_transport = "Tcp"]
  BY DEF RetiredToTcp, retire_udp_transport
<1> DEFINE t == RetiredToTcp(s)
<1> HIDE DEF w
<1>3. t \in ServerRecord
  <2> DEFINE b1 == [w EXCEPT !.udp_session = None]
             b2 == [b1 EXCEPT !.peer_known = FALSE]
             b3 == [b2 EXCEPT !.authenticated = FALSE]
  <2>1. t = [b3 EXCEPT !.active_transport = "Tcp"]
    BY <1>2
  <2>2. b1 \in ServerRecord
    BY <1>1, SetServer
  <2> HIDE DEF b1
  <2>3. b2 \in ServerRecord
    BY <2>2, SetServer
  <2> HIDE DEF b2
  <2>4. b3 \in ServerRecord
    BY <2>3, SetServer
  <2> HIDE DEF b3
  <2> QED BY <2>1, <2>4, SetServer
<1>4. SameServer(t, s)
  BY <1>1, <1>2 DEF ServerRecord, SameServer
<1>5. /\ t.active_transport = "Tcp" /\ t.udp_session = None
      /\ ~t.peer_known /\ ~t.authenticated
      /\ t.upgrade_id = None /\ ~t.probe_seen /\ ~t.ready_seen /\ ~t.switch_to_udp_sent
      /\ t.stale_upgrade_ids = <<>>
  BY <1>1, <1>2 DEF ServerRecord
<1> QED BY <1>3, <1>4, <1>5

LEMMA RegisteringFields ==
    ASSUME NEW s \in ServerRecord, NEW key \in Key
    PROVE  LET t == Registering(s, key) IN
           /\ t \in ServerRecord /\ SameServer(t, s)
           /\ t.active_transport = s.active_transport /\ t.udp_session = key
           /\ ~t.peer_known /\ ~t.authenticated
           /\ t.upgrade_id = None /\ ~t.probe_seen /\ ~t.ready_seen /\ ~t.switch_to_udp_sent
           /\ t.stale_upgrade_ids = <<>>
<1> DEFINE w == reset_udp_upgrade_state(s)
<1>1. /\ w \in ServerRecord /\ SameServer(w, s) /\ w.active_transport = s.active_transport
      /\ w.upgrade_id = None /\ ~w.probe_seen /\ ~w.ready_seen /\ ~w.switch_to_udp_sent
      /\ w.stale_upgrade_ids = <<>>
  BY ResetStateFields
<1>2. Registering(s, key) = [w EXCEPT !.udp_session = key, !.peer_known = FALSE, !.authenticated = FALSE]
  BY DEF Registering
<1> HIDE DEF w
<1> QED BY ZenonT(120), <1>1, <1>2 DEF ServerRecord, SameServer

LEMMA RememberFields ==
    ASSUME NEW s \in ServerRecord, NEW id \in UpgradeId,
           Len(s.stale_upgrade_ids) <= MAX_STALE_UPGRADE_IDS
    PROVE  LET t == remember_stale_upgrade_id(s, id) IN
           /\ t \in ServerRecord /\ SameServer(t, s)
           /\ t.active_transport = s.active_transport /\ t.udp_session = s.udp_session
           /\ t.peer_known = s.peer_known /\ t.authenticated = s.authenticated
           /\ t.upgrade_id = s.upgrade_id /\ t.probe_seen = s.probe_seen
           /\ t.ready_seen = s.ready_seen /\ t.switch_to_udp_sent = s.switch_to_udp_sent
           /\ Len(t.stale_upgrade_ids) <= MAX_STALE_UPGRADE_IDS
           /\ IsStale(t, id)
           /\ \A i \in DOMAIN t.stale_upgrade_ids :
                 t.stale_upgrade_ids[i] = id \/ IsStale(s, t.stale_upgrade_ids[i])
<1> DEFINE old == s.stale_upgrade_ids
           t == remember_stale_upgrade_id(s, id)
           new == IF IsStale(s, id) THEN old
                  ELSE IF Len(old) >= MAX_STALE_UPGRADE_IDS THEN Append(Tail(old), id)
                  ELSE Append(old, id)
<1>1. t = [s EXCEPT !.stale_upgrade_ids = new]
  BY DEF remember_stale_upgrade_id
<1>2. old \in Seq(UpgradeId) /\ Len(old) \in Nat /\ DOMAIN old = 1..Len(old)
  BY LenProperties DEF ServerRecord
<1>3. MAX_STALE_UPGRADE_IDS \in Nat /\ MAX_STALE_UPGRADE_IDS >= 1
  BY SwitchAssumption
<1>4. /\ new \in Seq(UpgradeId) /\ Len(new) <= MAX_STALE_UPGRADE_IDS
      /\ \E i \in DOMAIN new : new[i] = id
      /\ \A i \in DOMAIN new : new[i] = id \/ \E j \in DOMAIN old : new[i] = old[j]
  <2>1. CASE IsStale(s, id)
    <3>1. new = old
      BY <2>1
    <3>2. \E i \in DOMAIN old : old[i] = id
      BY <2>1 DEF IsStale
    <3> QED BY <1>2, <3>1, <3>2
  <2>2. CASE ~IsStale(s, id) /\ Len(old) >= MAX_STALE_UPGRADE_IDS
    <3> DEFINE rest == Tail(old)
    <3>1. new = Append(rest, id)
      BY <2>2
    <3>2. Len(old) = MAX_STALE_UPGRADE_IDS
      BY <1>2, <1>3, <2>2
    <3>3. old # <<>>
      BY <1>3, <3>2, NoStaleIds
    <3>4. /\ rest \in Seq(UpgradeId) /\ Len(rest) = Len(old) - 1 /\ DOMAIN rest = 1..Len(old)-1
          /\ \A i \in 1..Len(old)-1 : rest[i] = old[i + 1]
      BY <1>2, <3>3, HeadTailProperties, LenProperties
    <3> HIDE DEF rest
    <3>5. /\ Append(rest, id) \in Seq(UpgradeId) /\ Len(Append(rest, id)) = Len(rest) + 1
          /\ DOMAIN Append(rest, id) = 1..Len(rest)+1
          /\ \A i \in 1..Len(rest) : Append(rest, id)[i] = rest[i]
          /\ Append(rest, id)[Len(rest) + 1] = id
      BY <3>4, AppendProperties, LenProperties
    <3>6. Len(rest) \in Nat /\ Len(rest) + 1 \in 1..Len(rest)+1 /\ Len(rest) + 1 = Len(old)
      BY <1>2, <1>3, <3>2, <3>4
    <3>7. \A i \in 1..Len(rest)+1 : i = Len(rest) + 1 \/ (i \in 1..Len(rest) /\ i + 1 \in DOMAIN old /\ i \in 1..Len(old)-1)
      BY <1>2, <3>4, <3>6
    <3> HIDE DEF new
    <3> QED BY <3>1, <3>2, <3>4, <3>5, <3>6, <3>7
  <2>3. CASE ~IsStale(s, id) /\ ~(Len(old) >= MAX_STALE_UPGRADE_IDS)
    <3>1. new = Append(old, id)
      BY <2>3
    <3>2. /\ Append(old, id) \in Seq(UpgradeId) /\ Len(Append(old, id)) = Len(old) + 1
          /\ DOMAIN Append(old, id) = 1..Len(old)+1
          /\ \A i \in 1..Len(old) : Append(old, id)[i] = old[i]
          /\ Append(old, id)[Len(old) + 1] = id
      BY <1>2, AppendProperties, LenProperties
    <3>3. Len(old) + 1 \in 1..Len(old)+1 /\ Len(old) + 1 <= MAX_STALE_UPGRADE_IDS
      BY <1>2, <1>3, <2>3
    <3>4. \A i \in 1..Len(old)+1 : i = Len(old) + 1 \/ i \in DOMAIN old
      BY <1>2
    <3> HIDE DEF new
    <3> QED BY <1>2, <3>1, <3>2, <3>3, <3>4
  <2> QED BY <2>1, <2>2, <2>3
<1> HIDE DEF new
<1>5. /\ t \in ServerRecord /\ SameServer(t, s) /\ t.stale_upgrade_ids = new
      /\ t.active_transport = s.active_transport /\ t.udp_session = s.udp_session
      /\ t.peer_known = s.peer_known /\ t.authenticated = s.authenticated
      /\ t.upgrade_id = s.upgrade_id /\ t.probe_seen = s.probe_seen
      /\ t.ready_seen = s.ready_seen /\ t.switch_to_udp_sent = s.switch_to_udp_sent
  BY <1>1, <1>4 DEF ServerRecord, SameServer
<1> HIDE DEF t
<1> QED BY <1>4, <1>5 DEF IsStale, t

-----------------------------------------------------------------------------
(* The steps that only give something up                                   *)

\* What the client does not gain.
Calmer ==
    /\ client'.run = client.run /\ client'.tcp_alive = client.tcp_alive
    /\ client'.pending_tcp_fallback = client.pending_tcp_fallback
    /\ client'.cipher_policy_auto => client.cipher_policy_auto
    /\ client'.udp_state = "Active" => client.udp_state = "Active"
    /\ client'.udp_state = "Pending" => client.udp_state = "Pending" /\ client'.cid = client.cid
    /\ client'.registration # None =>
          client'.registration = client.registration /\ client'.cipher_policy_auto = client.cipher_policy_auto
    /\ client'.upgrade \in {"Upgrading", "AwaitingSwitchOk"} =>
          client'.upgrade = client.upgrade /\ client'.upgrade_id = client.upgrade_id
    /\ Upgrading' => client'.ready_sent = client.ready_sent

\* The client may have read a message whose loss matters to nobody.
Skips ==
    \/ to_client' = to_client
    \/ /\ to_client # <<>> /\ to_client' = Tail(to_client)
       /\ Head(to_client) \notin Requests
       /\ Head(to_client) \notin The("FallbackOk", client.pending_tcp_fallback)
       /\ Awaiting => Head(to_client) \notin The("SwitchOk", client.upgrade_id)

LEMMA SkipFacts ==
    ASSUME TypeOK, Skips
    PROVE  /\ to_client' \in Seq(Messages)
           /\ Elems(to_client') \subseteq Elems(to_client)
           /\ \A a, b : Before(to_client', a, b) => Before(to_client, a, b)
           /\ \A Y : Preceded(to_client, Y, The("FallbackOk", client.pending_tcp_fallback)) =>
                     Preceded(to_client', Y, The("FallbackOk", client.pending_tcp_fallback))
           /\ \A m \in Elems(to_client) :
                 \/ m \in Elems(to_client')
                 \/ /\ m \notin Requests
                    /\ m \notin The("FallbackOk", client.pending_tcp_fallback)
                    /\ Awaiting => m \notin The("SwitchOk", client.upgrade_id)
<1>1. to_client \in Seq(Messages)
  BY DEF TypeOK
<1>2. CASE to_client' = to_client
  BY <1>1, <1>2
<1>3. CASE to_client' # to_client
  <2>1. /\ to_client # <<>> /\ to_client' = Tail(to_client)
        /\ Head(to_client) \notin Requests
        /\ Head(to_client) \notin The("FallbackOk", client.pending_tcp_fallback)
        /\ Awaiting => Head(to_client) \notin The("SwitchOk", client.upgrade_id)
    BY <1>3 DEF Skips
  <2>2. /\ Tail(to_client) \in Seq(Messages)
        /\ Elems(to_client) = {Head(to_client)} \cup Elems(Tail(to_client))
        /\ \A a, b : Before(Tail(to_client), a, b) => Before(to_client, a, b)
        /\ \A Y, Z : Preceded(to_client, Y, Z) /\ Head(to_client) \notin Z
                        => Preceded(Tail(to_client), Y, Z)
    BY <1>1, <2>1, ReadFacts
  <2> QED BY <2>1, <2>2
<1> QED BY <1>2, <1>3

LEMMA ClientCalms ==
    ASSUME Inv, client' \in ClientRecord, ClientInv', Calmer, Skips,
           Awaiting' <=> Awaiting, client'.active_transport = client.active_transport,
           UNCHANGED <<server, tcp_up, to_server, datagrams, used>>
    PROVE  Inv'
<1>1. TypeOK /\ ClientInv
  BY DEF Inv
<1>2. /\ to_client' \in Seq(Messages)
      /\ Elems(to_client') \subseteq Elems(to_client)
      /\ \A a, b : Before(to_client', a, b) => Before(to_client, a, b)
      /\ \A Y : Preceded(to_client, Y, The("FallbackOk", client.pending_tcp_fallback)) =>
                Preceded(to_client', Y, The("FallbackOk", client.pending_tcp_fallback))
      /\ \A m \in Elems(to_client) :
            \/ m \in Elems(to_client')
            \/ /\ m \notin Requests
               /\ m \notin The("FallbackOk", client.pending_tcp_fallback)
               /\ Awaiting => m \notin The("SwitchOk", client.upgrade_id)
  BY <1>1, SkipFacts
<1>3. TypeOK'
  BY <1>1, <1>2 DEF TypeOK
<1>4. ServerInv'
  BY DEF Inv, ServerInv, StaleAttemptStaysStale, IsStale, Probed, Traffic
<1>5. DatagramInv'
  <2>1. client'.upgrade_id = None \/ client'.upgrade_id = client.upgrade_id
    BY DEF Calmer, ClientInv, Upgrading, Awaiting
  <2>2. \A d \in datagrams : d.type = "UpgradeProbe" => d.id # None
    BY DEF Inv, DatagramInv
  <2> QED BY <2>1, <2>2 DEF Inv, DatagramInv, Probed
<1>6. DrawnInv'
  BY <1>2 DEF Inv, DrawnInv, Drawn, Calmer
<1>7. ArrivalInv' /\ SwitchInv'
  BY DEF Inv, ArrivalInv, SwitchInv, AtMostOne
<1>8. ReadyInv'
  BY DEF Inv, ReadyInv, LiveReady, Probed, Readied, Matching, IsStale
<1>9. TrafficInv'
  BY <1>2 DEF Inv, TrafficInv, Traffic, Calmer, Has
<1>10. CountInv'
  <2>1. Charged \in Nat /\ Charged' \in Nat /\ Charged' <= Charged
    BY <1>1, NoCharge DEF Calmer, Upgrading, Awaiting
  <2> QED BY <1>1, <2>1, CountKept DEF Inv, Calmer
<1>11. ASSUME tcp_up' PROVE Link'
  <2>1. Link
    BY <1>11 DEF Inv
  <2>2. BothConnected'
    BY <2>1 DEF Link, BothConnected, Calmer
  <2>3. RegisterLink'
    BY <1>2, <2>1 DEF Link, RegisterLink, Calmer, Has, RegisterFailCodes, ClientInv
  <2>4. ClientFallbackLink'
    BY <1>2, <2>1 DEF Link, ClientFallbackLink, Calmer, Has, Upgrading, Awaiting, Readied, Ordered
  <2>5. ServerFallbackLink'
    BY <1>2, <2>1 DEF Link, ServerFallbackLink, Calmer, Has, Ordered, AtMostOne, The, Requests, Of
  <2>6. AttemptLink'
    BY <1>2, <2>1 DEF Link, AttemptLink, Calmer, Has, Upgrading, Readied, IsStale
  <2>7. CommitLink'
    BY <1>2, <2>1 DEF Link, CommitLink, Committed, Calmer, Has, Awaiting
  <2> QED BY <2>2, <2>3, <2>4, <2>5, <2>6, <2>7 DEF Link
<1> QED BY <1>3, <1>4, <1>5, <1>6, <1>7, <1>8, <1>9, <1>10, <1>11 DEF Inv

\* What a client leaves when it asks for TCP: the transport or the attempt is given up.
GivesUp(d) ==
    /\ SameRest(d, client) /\ client.udp_state = "Active"
    /\ \/ d.udp_state = "Active" /\ Awaiting /\ d.transport = client.transport /\ d.retained = None
       \/ d.udp_state \in {"NeedDiscovery", "Disabled"} /\ d.transport = None
    /\ d.udp_state = "Disabled" <=> ~(EnableUpgrade \/ client.require_udp)
    /\ d.upgrade = "Disabled" <=> ~(EnableUpgrade \/ client.require_udp)
    /\ d.upgrade = "TcpOnlyBlockedUdp" => d.udp_state = "Active"
    /\ d.upgrade \notin {"Upgrading", "AwaitingSwitchOk"}
    /\ d.registration = None /\ d.upgrade_id = None /\ ~d.probe_acked /\ ~d.ready_sent
    /\ d.retained # None => d.udp_state = "NeedDiscovery"
    /\ ~d.discovery_task

LEMMA ClientRequests ==
    ASSUME Inv, NEW d \in ClientRecord, GivesUp(d), ClientRequestsFallback(d)
    PROVE  Inv'
<1> DEFINE send == client.pending_tcp_fallback = None
           id == used.fallback + 1
<1>1. /\ TypeOK /\ ClientInv /\ CountInv /\ DrawnInv /\ (tcp_up => Link)
      /\ to_server \in Seq(Messages) /\ tcp_up \in BOOLEAN
      /\ client \in ClientRecord
  BY DEF Inv, TypeOK
<1>2. /\ client' = [d EXCEPT !.active_transport = "Tcp", !.pending_tcp_fallback = IF send THEN id ELSE @]
      /\ to_server' = IF send THEN Written(to_server, Msg("FallbackToTcp", id)) ELSE to_server
      /\ used' = IF send THEN [used EXCEPT !.fallback = id] ELSE used
      /\ UNCHANGED <<server, tcp_up, to_client, datagrams>>
  BY DEF ClientRequestsFallback
<1>3. /\ \A b : One(b) \in Nat
      /\ used.key \in 0..MaxKeys /\ used.retry \in 0..MaxRetries /\ used.upgrade \in Nat /\ used.fallback \in Nat
      /\ MaxKeys \in Nat /\ MaxRetries \in Nat /\ used.cid \in Nat /\ used.key \in Nat /\ used.retry \in Nat
      /\ server.last_peer_fallback_id \in Nat /\ server.pending_tcp_fallback \in Nat
  BY <1>1, Numbers, OneIsNat
<1>4. id \in FallbackId /\ id \in Nat
  <2>1. Charged >= used.fallback + 1
    BY <1>3 DEF Charged, One, GivesUp
  <2>2. Charged <= 3 * used.key + used.retry
    BY <1>1 DEF CountInv
  <2>3. Charged \in Nat
    BY <1>3 DEF Charged
  <2> QED BY <1>3, <2>1, <2>2, <2>3 DEF FallbackId
<1>5. PICK m \in Messages : m = Msg("FallbackToTcp", id) /\ m.type = "FallbackToTcp" /\ m.id = id
  BY <1>4, NewMessages
<1>0. tcp_up /\ send => ~Has(to_server, Requests)
  BY <1>1, MessageTypes DEF Has, Link, ClientFallbackLink, Requests, Of
<1>6. /\ to_server' \in Seq(Messages)
      /\ Elems(to_server) \subseteq Elems(to_server') /\ Elems(to_server') \subseteq Elems(to_server) \cup {m}
      /\ send /\ tcp_up => m \in Elems(to_server')
      /\ ~(send /\ tcp_up) => to_server' = to_server
      /\ \A a, b : Before(to_server', a, b) => Before(to_server, a, b) \/ (a \in Elems(to_server) /\ b = m)
      /\ \A Y, Z : Preceded(to_server, Y, Z) /\ m \notin Y => Preceded(to_server', Y, Z)
      /\ \A X, Z : m \notin X /\ (Followed(to_server, X, Z) \/ (send /\ tcp_up /\ m \in Z))
             => Followed(to_server', X, Z)
      /\ \A X, Y, Z : Between(to_server, X, Y, Z) /\ m \notin Y => Between(to_server', X, Y, Z)
  <2>1. CASE send
    <3>1. to_server' = Written(to_server, m)
      BY <1>2, <1>5, <2>1
    <3>2. ~tcp_up => to_server' = to_server
      BY <3>1 DEF Written
    <3> QED BY <1>1, <2>1, <3>1, <3>2, WrittenFacts
  <2>2. CASE ~send
    BY <1>1, <1>2, <2>2
  <2> QED BY <2>1, <2>2
<1>7. /\ used'.key = used.key /\ used'.cid = used.cid /\ used'.upgrade = used.upgrade /\ used'.retry = used.retry
      /\ used'.fallback = IF send THEN id ELSE used.fallback
      /\ used' \in [cid : 0..MaxCids, key : 0..MaxKeys,
                    upgrade : 0..(MaxKeys + MaxRetries), retry : 0..MaxRetries,
                    fallback : 0..(3 * MaxKeys + MaxRetries)]
  BY SMTT(60), <1>1, <1>2, <1>4 DEF TypeOK, FallbackId
<1>8. client' \in ClientRecord
  <2> DEFINE v == IF send THEN id ELSE d.pending_tcp_fallback
             b == [d EXCEPT !.active_transport = "Tcp"]
  <2>1. v \in FallbackId \cup {None}
    BY <1>4 DEF ClientRecord
  <2>2. b \in ClientRecord /\ b.pending_tcp_fallback = d.pending_tcp_fallback
    BY SMTT(60), SetClient DEF ClientRecord
  <2>3. client' = [b EXCEPT !.pending_tcp_fallback = v]
    BY <1>2, <2>2
  <2> HIDE DEF v, b
  <2> QED BY <2>1, <2>2, <2>3, SetClient
<1>9. /\ client'.active_transport = "Tcp"
      /\ client'.pending_tcp_fallback = IF send THEN id ELSE client.pending_tcp_fallback
      /\ client'.udp_state = d.udp_state /\ client'.transport = d.transport /\ client'.retained = d.retained
      /\ client'.upgrade = d.upgrade /\ client'.registration = None /\ client'.upgrade_id = None
      /\ ~client'.probe_acked /\ ~client'.ready_sent /\ ~client'.discovery_task
      /\ client'.run = client.run /\ client'.tcp_alive = client.tcp_alive
      /\ client'.cipher_policy_auto = client.cipher_policy_auto
      /\ client'.require_udp = client.require_udp
  BY <1>2 DEF GivesUp, SameRest, ClientRecord
<1>10. TypeOK'
  BY <1>1, <1>2, <1>6, <1>7, <1>8 DEF TypeOK
<1>11. ClientInv'
  BY <1>1, <1>7, <1>9 DEF ClientInv, GivesUp, AttemptHasTransport, Upgrading, Awaiting
<1>12. ServerInv'
  BY <1>2 DEF Inv, ServerInv, StaleAttemptStaysStale, IsStale, Probed, Traffic
<1>13. DatagramInv'
  BY <1>2, <1>7, <1>9 DEF Inv, DatagramInv, Probed
<1>14. DrawnInv'
  <2>1. \A n \in Nat : n <= used.fallback => n <= used'.fallback
    BY <1>3, <1>7
  <2>2. \A n \in Elems(to_server) \cup Elems(to_client) : Drawn(n) => Drawn(n)'
    BY <1>1, <1>7, <2>1, InFlightTypes, MessageTypes DEF Drawn
  <2>3. send => Drawn(m)'
    BY <1>4, <1>5, <1>7 DEF Drawn
  <2>4. client'.pending_tcp_fallback <= used'.fallback
    BY <1>3, <1>4, <1>7, <1>9 DEF Inv, DrawnInv
  <2> QED BY <1>1, <1>2, <1>6, <1>7, <2>1, <2>2, <2>3, <2>4, Numbers DEF Inv, DrawnInv
<1>15. ArrivalInv'
  <2>1. tcp_up /\ send => \A n \in Elems(to_server) : n \notin Requests
    BY <1>0 DEF Has
  <2>2. server.last_peer_fallback_id < id
    BY <1>1, <1>3 DEF DrawnInv
  <2> QED BY <1>2, <1>5, <1>6, <2>1, <2>2 DEF Inv, ArrivalInv, AtMostOne, Regs, Requests, Of
<1>16. \A key : Has(to_server, RegOf(key)) <=> Has(to_server', RegOf(key))
  BY <1>5, <1>6 DEF Has, RegOf, Regs, Of
<1>17. ReadyInv'
  <2>1. \A n \in Elems(to_server') : n \in Of("UdpReady") \/ n \in Of("SwitchAck") => n \in Elems(to_server)
    BY <1>5, <1>6 DEF Of
  <2>2. LiveReady' = LiveReady
    BY <1>2, <1>16 DEF LiveReady, Probed
  <2>3. m \notin LiveReady
    BY <1>5 DEF LiveReady, Of
  <2> HIDE DEF LiveReady
  <2> QED BY <1>2, <1>6, <2>1, <2>2, <2>3 DEF Inv, ReadyInv, Probed, Readied, Matching, IsStale
<1>18. SwitchInv'
  BY <1>2, <1>5, <1>6 DEF Inv, SwitchInv, Regs, Of
<1>19. TrafficInv'
  <2>1. \A n \in Elems(to_server') : n \in Regs => n \in Elems(to_server)
    BY <1>5, <1>6 DEF Regs, Of
  <2> QED BY <1>2, <1>7, <1>9, <1>16, <2>1 DEF Inv, TrafficInv, Traffic, GivesUp
<1>20. CountInv'
  <2>1. /\ client.registration = None
        /\ One(client'.registration # None) = 0 /\ One(client.registration # None) = 0
    BY <1>1, <1>9 DEF ClientInv, One, GivesUp
  <2>2. /\ One(client.udp_state = "Active") = 1 /\ One((Upgrading \/ Awaiting)') = 0
        /\ One(client'.udp_state = "Active") <= 1
        /\ One(client'.udp_state = "Active") = 1 => One(Upgrading \/ Awaiting) = 1
    BY <1>9 DEF One, GivesUp, Upgrading, Awaiting
  <2>3. One((server.udp_session # None)') = One(server.udp_session # None)
    BY <1>2
  <2>4. used'.fallback <= used.fallback + 1 /\ used'.fallback \in Nat
    BY <1>3, <1>4, <1>7
  <2>5. Charged' <= Charged /\ Charged \in Nat /\ Charged' \in Nat
    BY <1>3, <2>1, <2>2, <2>3, <2>4 DEF Charged
  <2>6. \A n \in Elems(to_server') : n \in Regs => n \in Elems(to_server)
    BY <1>5, <1>6 DEF Regs, Of
  <2> QED BY <1>1, <1>7, <1>9, <2>5, <2>6, CountKept
<1>21. ASSUME tcp_up' PROVE Link'
  <2>1. Link /\ tcp_up
    BY <1>2, <1>21 DEF Inv
  <2>2. BothConnected'
    BY <1>2, <1>9, <2>1 DEF Link, BothConnected
  <2>3. \A X : m \notin X => (Has(to_server', X) <=> Has(to_server, X))
    BY <1>6 DEF Has
  <2>4. /\ m \in Requests /\ m \in The("FallbackToTcp", id) /\ m \notin Regs
        /\ \A x : m \notin RegOf(x) /\ m \notin The("UdpReady", x) /\ m \notin The("SwitchAck", x) /\ m \notin The("FallbackOk", x)
        /\ m \notin Of("UdpReady")
    BY <1>5 DEF Requests, Of, The, Regs, RegOf
  <2>5. RegisterLink'
    BY ZenonT(120), <1>2, <1>6, <1>7, <1>9, <2>1, <2>3, <2>4 DEF Link, RegisterLink, GivesUp, RegisterFailCodes, RegOf
  <2>6. ClientFallbackLink'
    <3>1. ~Has(to_client, The("FallbackOk", id))
      BY <1>3, <1>4 DEF Inv, DrawnInv, Drawn, Has, The
    <3>2. send => ~Has(to_server, Requests)
      BY <1>0, <2>1
    <3>3. ~Upgrading' /\ ~Awaiting'
      BY <1>9 DEF Upgrading, Awaiting, GivesUp
    <3>4. CASE send
      <4>1. client'.pending_tcp_fallback = id /\ m \in Elems(to_server') /\ m.id = id
        BY <1>5, <1>6, <1>9, <2>1, <3>4
      <4>2. \A n \in Elems(to_server') : n \in Requests => n = m
        BY <1>6, <3>2, <3>4 DEF Has
      <4> QED BY <1>2, <2>4, <3>1, <3>3, <4>1, <4>2 DEF ClientFallbackLink, Has
    <3>5. CASE ~send
      BY <1>2, <1>6, <1>9, <2>1, <3>3, <3>5 DEF Link, ClientFallbackLink
    <3> QED BY <3>4, <3>5
  <2>7. ServerFallbackLink'
    BY <1>2, <1>7, <1>9, <2>1, <2>3, <2>4 DEF Link, ServerFallbackLink, GivesUp
  <2>8. AttemptLink'
    <3>1. ~Upgrading'
      BY <1>9 DEF Upgrading, GivesUp
    <3> QED BY <1>2, <1>6, <2>1, <2>3, <2>4, <3>1 DEF Link, AttemptLink, Readied
  <2>9. CommitLink'
    <3>1. ~Committed' /\ ~Awaiting'
      BY <1>9 DEF Committed, Awaiting, GivesUp
    <3>2. send => Has(to_server', Requests)
      BY <1>6, <2>1, <2>4 DEF Has
    <3>3. ~send => ~Committed /\ ~Awaiting
      BY <1>1, <2>1 DEF ClientInv, Link, ClientFallbackLink, Committed
    <3> QED BY <1>2, <1>6, <2>1, <2>4, <3>1, <3>2, <3>3 DEF Link, CommitLink
  <2> QED BY <2>2, <2>5, <2>6, <2>7, <2>8, <2>9 DEF Link
<1> QED BY <1>10, <1>11, <1>12, <1>13, <1>14, <1>15, <1>17, <1>18, <1>19, <1>20, <1>21 DEF Inv

-----------------------------------------------------------------------------
(* Sessions that end                                                       *)

LEMMA NewClientFields ==
    ASSUME NEW r \in BOOLEAN
    PROVE  LET c == NewClient(r) IN
           /\ c \in ClientRecord /\ c.require_udp = r /\ c.run = "Running" /\ c.tcp_alive
           /\ c.active_transport = "Tcp"
           /\ c.udp_state = IF EnableUpgrade \/ r THEN "NeedDiscovery" ELSE "Disabled"
           /\ c.upgrade = IF EnableUpgrade \/ r THEN "Idle" ELSE "Disabled"
           /\ c.registration = None /\ c.transport = None /\ c.retained = None /\ c.upgrade_id = None
           /\ c.pending_tcp_fallback = None
           /\ ~c.discovery_task /\ ~c.authenticated /\ ~c.probe_acked /\ ~c.ready_sent
<1>1. EnableUpgrade \in BOOLEAN
  BY SwitchAssumption
<1>2. NewClient(r) \in ClientRecord
  <2> DEFINE u == IF EnableUpgrade \/ r THEN "NeedDiscovery" ELSE "Disabled"
             a == IF EnableUpgrade \/ r THEN "Idle" ELSE "Disabled"
  <2>1. u \in {"Disabled", "NeedDiscovery", "Pending", "Active"} /\ a \in {"Disabled", "Idle"}
    OBVIOUS
  <2>2. NewClient(r) =
          [require_udp |-> r, run |-> "Running", tcp_alive |-> TRUE, active_transport |-> "Tcp",
           udp_state |-> u, discovery_task |-> FALSE, cid |-> None, registration |-> None,
           transport |-> None, retained |-> None, authenticated |-> FALSE, cipher_policy_auto |-> TRUE,
           upgrade |-> a, upgrade_id |-> None, probe_acked |-> FALSE, ready_sent |-> FALSE,
           pending_tcp_fallback |-> None, last_peer_fallback_id |-> None]
    BY DEF NewClient
  <2> HIDE DEF u, a
  <2> QED BY <2>1, <2>2 DEF ClientRecord
<1> QED BY <1>2 DEF NewClient

LEMMA NewServerFields ==
    ASSUME NEW r \in BOOLEAN
    PROVE  LET s == NewServer(r) IN
           /\ s \in ServerRecord /\ s.rejects_auto_cipher = r /\ s.run = "Running" /\ s.tcp_alive
           /\ s.active_transport = "Tcp" /\ s.udp_session = None /\ s.upgrade_id = None
           /\ ~s.probe_seen /\ ~s.ready_seen /\ ~s.switch_to_udp_sent
           /\ s.stale_upgrade_ids = <<>>
           /\ s.pending_tcp_fallback = None /\ s.last_peer_fallback_id = None
<1>1. NewServer(r) \in ServerRecord
  BY NoStaleIds DEF NewServer, ServerRecord
<1> QED BY <1>1 DEF NewServer

LEMMA ClientEndsKeepsInv ==
    ASSUME Inv, NEW exit \in Exit, ClientEnds(exit)
    PROVE  Inv'
<1> DEFINE c == NewClient(client.require_udp)
<1>1. /\ client' = [c EXCEPT !.run = exit] /\ ~tcp_up' /\ tcp_up' \in BOOLEAN /\ to_client' = <<>>
      /\ UNCHANGED <<server, to_server, datagrams, used>>
  BY DEF ClientEnds
<1>2. TypeOK /\ client \in ClientRecord /\ client.require_udp \in BOOLEAN
  BY DEF Inv, TypeOK, ClientRecord
<1>3. /\ c \in ClientRecord /\ c.require_udp = client.require_udp /\ c.active_transport = "Tcp"
      /\ c.udp_state = IF EnableUpgrade \/ client.require_udp THEN "NeedDiscovery" ELSE "Disabled"
      /\ c.upgrade = IF EnableUpgrade \/ client.require_udp THEN "Idle" ELSE "Disabled"
      /\ c.registration = None /\ c.transport = None /\ c.retained = None /\ c.upgrade_id = None
      /\ c.pending_tcp_fallback = None
      /\ ~c.discovery_task /\ ~c.probe_acked /\ ~c.ready_sent
  BY <1>2, NewClientFields
<1> HIDE DEF c
<1>4. client' \in ClientRecord
  BY <1>1, <1>3, SetClient DEF Exit
<1>5. /\ client'.require_udp = client.require_udp /\ client'.active_transport = "Tcp"
      /\ client'.udp_state = IF EnableUpgrade \/ client.require_udp THEN "NeedDiscovery" ELSE "Disabled"
      /\ client'.upgrade = IF EnableUpgrade \/ client.require_udp THEN "Idle" ELSE "Disabled"
      /\ client'.registration = None /\ client'.transport = None /\ client'.retained = None
      /\ client'.upgrade_id = None /\ client'.pending_tcp_fallback = None
      /\ ~client'.discovery_task /\ ~client'.probe_acked /\ ~client'.ready_sent
  BY <1>1, <1>3 DEF ClientRecord
<1>6. client'.udp_state \notin {"Pending", "Active"} /\ ~Upgrading' /\ ~Awaiting'
  BY <1>5 DEF Upgrading, Awaiting
<1>7. TypeOK'
  BY <1>1, <1>2, <1>4, EmptyQueue DEF TypeOK
<1>8. ClientInv'
  BY <1>5, <1>6 DEF ClientInv, AttemptHasTransport, Upgrading, Awaiting
<1>9. ServerInv'
  BY <1>1 DEF Inv, ServerInv, StaleAttemptStaysStale, IsStale, Probed, Traffic
<1>10. DatagramInv'
  BY <1>1, <1>5 DEF Inv, DatagramInv, Probed
<1>11. DrawnInv'
  <2>0. used'.fallback \in Nat
    BY <1>1, <1>2, Numbers
  <2>1. client'.pending_tcp_fallback <= used'.fallback
    BY <1>5, <2>0 DEF None
  <2> QED BY <1>1, <2>1, EmptyQueue DEF Inv, DrawnInv, Drawn
<1>12. ArrivalInv' /\ SwitchInv'
  BY <1>1 DEF Inv, ArrivalInv, SwitchInv, AtMostOne
<1>13. ReadyInv'
  BY <1>1 DEF Inv, ReadyInv, LiveReady, Probed, Readied, Matching, IsStale
<1>14. TrafficInv'
  BY <1>1, <1>6 DEF Inv, TrafficInv, Traffic
<1>15. CountInv'
  <2>1. Charged \in Nat /\ Charged' \in Nat /\ Charged' <= Charged
    BY <1>1, <1>2, <1>5, <1>6, NoCharge
  <2> QED BY <1>1, <1>2, <1>5, <2>1, CountKept DEF Inv
<1> QED BY <1>1, <1>7, <1>8, <1>9, <1>10, <1>11, <1>12, <1>13, <1>14, <1>15 DEF Inv

LEMMA ServerEndsKeepsInv ==
    ASSUME Inv, ServerEnds("Closed")
    PROVE  Inv'
<1> DEFINE s == NewServer(server.rejects_auto_cipher)
<1>1. /\ server' = [s EXCEPT !.run = "Closed"] /\ ~tcp_up' /\ tcp_up' \in BOOLEAN /\ to_server' = <<>>
      /\ UNCHANGED <<client, to_client, datagrams, used>>
  BY DEF ServerEnds
<1>2. TypeOK /\ server.rejects_auto_cipher \in BOOLEAN
  BY DEF Inv, TypeOK, ServerRecord
<1>3. /\ s \in ServerRecord
      /\ s.active_transport = "Tcp" /\ s.udp_session = None /\ s.upgrade_id = None
      /\ ~s.probe_seen /\ ~s.ready_seen /\ ~s.switch_to_udp_sent
      /\ s.stale_upgrade_ids = <<>>
      /\ s.pending_tcp_fallback = None /\ s.last_peer_fallback_id = None
  BY <1>2, NewServerFields
<1> HIDE DEF s
<1>4. server' \in ServerRecord
  BY <1>1, <1>3, SetServer DEF Exit
<1>5. /\ server'.run = "Closed"
      /\ server'.active_transport = "Tcp" /\ server'.udp_session = None /\ server'.upgrade_id = None
      /\ ~server'.probe_seen /\ ~server'.ready_seen /\ ~server'.switch_to_udp_sent
      /\ server'.stale_upgrade_ids = <<>>
      /\ server'.pending_tcp_fallback = None /\ server'.last_peer_fallback_id = None
  BY <1>1, <1>3 DEF ServerRecord
<1>6. /\ Elems(to_server') = {} /\ \A X : ~Has(to_server', X)
      /\ \A a, b : ~Before(to_server', a, b)
      /\ to_server' \in Seq(Messages)
  BY <1>1, EmptyQueue
<1>7. TypeOK'
  <2>1. Len(server'.stale_upgrade_ids) <= MAX_STALE_UPGRADE_IDS
    BY <1>5, NoStaleIds, SwitchAssumption
  <2> QED BY <1>1, <1>2, <1>4, <1>6, <2>1 DEF TypeOK
<1>8. ClientInv'
  BY <1>1 DEF Inv, ClientInv, AttemptHasTransport, Upgrading, Awaiting
<1>9. ServerInv'
  BY <1>5 DEF ServerInv, StaleAttemptStaysStale
<1>10. DatagramInv'
  BY <1>1 DEF Inv, DatagramInv, Probed
<1>11. DrawnInv'
  <2>0. used'.fallback \in Nat /\ used'.key \in Nat /\ used'.upgrade \in Nat
    BY <1>1, <1>2, Numbers
  <2>1. /\ server'.udp_session <= used'.key /\ server'.upgrade_id <= used'.upgrade
        /\ server'.pending_tcp_fallback <= used'.fallback /\ server'.last_peer_fallback_id <= used'.fallback
    BY <1>5, <2>0 DEF None
  <2> QED BY <1>1, <1>5, <1>6, <2>1, NoStaleIds DEF Inv, DrawnInv, Drawn
<1>12. ArrivalInv' /\ SwitchInv' /\ ReadyInv'
  BY <1>5, <1>6 DEF ArrivalInv, SwitchInv, ReadyInv, AtMostOne
<1>13. TrafficInv'
  <2>1. ~Traffic(None)'
    BY <1>1, <1>2, InFlightTypes DEF Traffic, Key, None
  <2> QED BY <1>1, <1>5, <1>6, <2>1 DEF TrafficInv, Traffic
<1>14. CountInv'
  <2>1. Charged \in Nat /\ Charged' \in Nat /\ Charged' <= Charged
    BY <1>1, <1>2, <1>5, NoCharge DEF Upgrading, Awaiting
  <2> QED BY <1>1, <1>2, <1>6, <2>1, CountKept DEF Inv
<1> QED BY <1>1, <1>7, <1>8, <1>9, <1>10, <1>11, <1>12, <1>13, <1>14 DEF Inv

\* TCP dies, or the end of its stream is noticed.
LEMMA DeadTcpKeepsInv ==
    ASSUME Inv, ~tcp_up', tcp_up' \in BOOLEAN, UNCHANGED <<datagrams, used>>,
           \/ client' = client /\ to_client' = to_client
           \/ client' = [client EXCEPT !.tcp_alive = FALSE] /\ to_client' = <<>>,
           \/ server' = server /\ to_server' = to_server
           \/ server' = [server EXCEPT !.tcp_alive = FALSE] /\ to_server' = <<>>
    PROVE  Inv'
<1>1. TypeOK /\ client \in ClientRecord /\ server \in ServerRecord
  BY DEF Inv, TypeOK
<1>2. /\ client' \in ClientRecord
      /\ client'.require_udp = client.require_udp
      /\ client'.pending_tcp_fallback = client.pending_tcp_fallback
      /\ client'.active_transport = client.active_transport /\ client'.udp_state = client.udp_state
      /\ client'.cid = client.cid /\ client'.registration = client.registration
      /\ client'.transport = client.transport /\ client'.retained = client.retained
      /\ client'.authenticated = client.authenticated /\ client'.upgrade = client.upgrade
      /\ client'.upgrade_id = client.upgrade_id /\ client'.probe_acked = client.probe_acked
      /\ client'.ready_sent = client.ready_sent /\ client'.discovery_task = client.discovery_task
  <2>1. CASE client' = client
    BY <1>1, <2>1
  <2>2. CASE client' = [client EXCEPT !.tcp_alive = FALSE]
    <3>1. client' \in ClientRecord
      BY <1>1, <2>2, SetClient
    <3> QED BY <1>1, <2>2, <3>1 DEF ClientRecord
  <2> QED BY <2>1, <2>2
<1>3. /\ server' \in ServerRecord
      /\ server'.run = server.run /\ server'.active_transport = server.active_transport
      /\ server'.udp_session = server.udp_session /\ server'.peer_known = server.peer_known
      /\ server'.authenticated = server.authenticated /\ server'.upgrade_id = server.upgrade_id
      /\ server'.probe_seen = server.probe_seen /\ server'.ready_seen = server.ready_seen
      /\ server'.switch_to_udp_sent = server.switch_to_udp_sent
      /\ server'.stale_upgrade_ids = server.stale_upgrade_ids
      /\ server'.pending_tcp_fallback = server.pending_tcp_fallback
      /\ server'.last_peer_fallback_id = server.last_peer_fallback_id
  <2>1. CASE server' = server
    BY <1>1, <2>1
  <2>2. CASE server' = [server EXCEPT !.tcp_alive = FALSE]
    <3>1. server' \in ServerRecord
      BY <1>1, <2>2, SetServer
    <3> QED BY <1>1, <2>2, <3>1 DEF ServerRecord
  <2> QED BY <2>1, <2>2
<1>4. /\ to_server' = to_server \/ to_server' = <<>>
      /\ to_client' = to_client \/ to_client' = <<>>
  OBVIOUS
<1>5. /\ Elems(to_server') \subseteq Elems(to_server) /\ Elems(to_client') \subseteq Elems(to_client)
      /\ to_server' \in Seq(Messages) /\ to_client' \in Seq(Messages)
      /\ \A a, b : Before(to_server', a, b) => Before(to_server, a, b)
      /\ \A Y, Z : Preceded(to_server, Y, Z) => Preceded(to_server', Y, Z)
      /\ \A X, Y, Z : Between(to_server, X, Y, Z) => Between(to_server', X, Y, Z)
  <2>1. to_server \in Seq(Messages) /\ to_client \in Seq(Messages)
    BY <1>1 DEF TypeOK
  <2>2. Elems(to_client') \subseteq Elems(to_client) /\ to_client' \in Seq(Messages)
    <3>1. CASE to_client' = to_client
      BY <2>1, <3>1
    <3>2. CASE to_client' = <<>>
      BY <3>2, EmptyQueue
    <3> QED BY <1>4, <3>1, <3>2
  <2>3. CASE to_server' = to_server
    BY <2>1, <2>2, <2>3
  <2>4. CASE to_server' = <<>>
    BY <2>2, <2>4, EmptyQueue
  <2> QED BY <1>4, <2>3, <2>4
<1>6. TypeOK'
  BY <1>1, <1>2, <1>3, <1>5 DEF TypeOK
<1>7. ClientInv'
  BY <1>2 DEF Inv, ClientInv, AttemptHasTransport, Upgrading, Awaiting
<1>8. ServerInv'
  BY <1>3 DEF Inv, ServerInv, StaleAttemptStaysStale, IsStale, Probed, Traffic
<1>9. DatagramInv'
  BY <1>2 DEF Inv, DatagramInv, Probed
<1>10. DrawnInv'
  BY <1>2, <1>3, <1>5 DEF Inv, DrawnInv, Drawn
<1>11. ArrivalInv' /\ SwitchInv'
  BY <1>3, <1>5 DEF Inv, ArrivalInv, SwitchInv, AtMostOne
<1>12. ReadyInv'
  <2>1. \A m \in Elems(to_server') : m \in LiveReady' => m \in LiveReady
    BY <1>3, <1>5 DEF LiveReady, Probed, Has
  <2>2. server.pending_tcp_fallback # None =>
           Preceded(to_server', LiveReady, The("FallbackOk", server.pending_tcp_fallback))
    BY <1>5 DEF Inv, ReadyInv
  <2>3. server.pending_tcp_fallback # None =>
           Preceded(to_server', LiveReady', The("FallbackOk", server.pending_tcp_fallback))
    BY <2>1, <2>2, PrecededFewer
  <2> QED BY <1>3, <1>5, <2>3 DEF Inv, ReadyInv, Probed, Readied, Matching, IsStale
<1>13. TrafficInv'
  BY <1>2, <1>3, <1>5 DEF Inv, TrafficInv, Traffic, Has
<1>14. CountInv'
  <2>1. Charged \in Nat /\ Charged' \in Nat /\ Charged' <= Charged
    BY <1>1, <1>2, <1>3, NoCharge DEF Upgrading, Awaiting
  <2> QED BY <1>1, <1>2, <1>5, <2>1, CountKept DEF Inv
<1> QED BY <1>6, <1>7, <1>8, <1>9, <1>10, <1>11, <1>12, <1>13, <1>14 DEF Inv

-----------------------------------------------------------------------------
(* The client: timers, failures and messages that it ignores               *)

\* The client changes nothing of itself, having read at most a message that means nothing.
LEMMA ClientIgnoresKeepsInv ==
    ASSUME Inv, Skips, UNCHANGED <<client, server, tcp_up, to_server, datagrams, used>>
    PROVE  Inv'
<1>1. client' \in ClientRecord /\ Calmer /\ (Awaiting' <=> Awaiting)
  BY DEF Inv, TypeOK, Calmer, Upgrading, Awaiting
<1>2. ClientInv'
  BY DEF Inv, ClientInv, AttemptHasTransport, Upgrading, Awaiting
<1> QED BY <1>1, <1>2, ClientCalms

LEMMA SpawnKeepsInv ==
    ASSUME Inv, SpawnQuicDiscovery
    PROVE  Inv'
<1>1. /\ client \in ClientRecord /\ ClientInv /\ client.udp_state = "NeedDiscovery"
      /\ client' = [client EXCEPT !.discovery_task = TRUE]
      /\ UNCHANGED <<server, tcp_up, to_server, to_client, datagrams, used>>
  BY DEF Inv, TypeOK, SpawnQuicDiscovery, ClientOnly
<1>2. client' \in ClientRecord
  BY <1>1, SetClient
<1>3. /\ SameRest(client', client)
      /\ client'.active_transport = client.active_transport /\ client'.udp_state = client.udp_state
      /\ client'.cid = client.cid /\ client'.registration = client.registration
      /\ client'.transport = client.transport /\ client'.retained = client.retained
      /\ client'.upgrade = client.upgrade /\ client'.upgrade_id = client.upgrade_id
  BY <1>1 DEF ClientRecord, SameRest
<1>4. /\ client'.authenticated = client.authenticated /\ client'.probe_acked = client.probe_acked
      /\ client'.ready_sent = client.ready_sent
  BY <1>1 DEF ClientRecord
<1>5. ClientInv'
  BY <1>1, <1>3, <1>4 DEF ClientInv, AttemptHasTransport, Upgrading, Awaiting, SameRest
<1>6. Calmer /\ Skips /\ (Awaiting' <=> Awaiting)
  BY <1>1, <1>3, <1>4 DEF Calmer, Skips, SameRest, Upgrading, Awaiting
<1> QED BY <1>1, <1>2, <1>3, <1>5, <1>6, ClientCalms

LEMMA DiscoveryFailsKeepsInv ==
    ASSUME Inv, DiscoveryFails
    PROVE  Inv'
<1>1. CASE client.require_udp
  BY <1>1, ClientEndsKeepsInv DEF DiscoveryFails, Exit
<1>2. CASE ~client.require_udp
  <2> DEFINE c == [client EXCEPT !.discovery_task = FALSE]
  <2>1. /\ client \in ClientRecord /\ ClientInv /\ client.discovery_task
        /\ client' = schedule_discovery(c, TRUE)
        /\ UNCHANGED <<server, tcp_up, to_server, to_client, datagrams, used>>
    BY <1>2 DEF Inv, TypeOK, DiscoveryFails, ClientOnly
  <2>2. c \in ClientRecord
    BY <2>1, SetClient
  <2>3. SameRest(c, client) /\ c.active_transport = client.active_transport /\ ~c.discovery_task
    BY <2>1 DEF SameRest, ClientRecord
  <2> HIDE DEF c
  <2>4. /\ client' \in ClientRecord /\ SameRest(client', c)
        /\ client'.active_transport = c.active_transport
        /\ client'.udp_state = IF EnableUpgrade \/ c.require_udp THEN "NeedDiscovery" ELSE "Disabled"
        /\ client'.discovery_task = c.discovery_task
        /\ client'.registration = None /\ client'.transport = None
        /\ client'.retained = IF EnableUpgrade \/ c.require_udp THEN Retained(c, TRUE) ELSE None
        /\ client'.upgrade = IF EnableUpgrade \/ c.require_udp THEN "Idle" ELSE "Disabled"
        /\ client'.upgrade_id = None /\ ~client'.probe_acked /\ ~client'.ready_sent
    BY <2>1, <2>2, ScheduleDiscoveryFields
  <2>5. client.udp_state = "NeedDiscovery" /\ client.active_transport = "Tcp" /\ ~Upgrading /\ ~Awaiting
    BY <2>1 DEF ClientInv, AttemptHasTransport, Upgrading, Awaiting, ClientRecord
  <2>6. ClientInv'
    BY <2>1, <2>3, <2>4, <2>5 DEF ClientInv, AttemptHasTransport, Upgrading, Awaiting, SameRest
  <2>7. Calmer /\ Skips /\ (Awaiting' <=> Awaiting)
    BY <2>1, <2>3, <2>4, <2>5 DEF Calmer, Skips, SameRest, Upgrading, Awaiting
  <2> QED BY <2>1, <2>3, <2>4, <2>6, <2>7, ClientCalms
<1> QED BY <1>1, <1>2

\* A registration that is refused or not answered is given up.
LEMMA RegistrationGivenUp ==
    ASSUME Inv, Skips, client.udp_state = "Pending", NEW auto \in BOOLEAN, auto => client.cipher_policy_auto,
           client' = schedule_registration_retry([client EXCEPT !.cipher_policy_auto = auto]),
           UNCHANGED <<server, tcp_up, to_server, datagrams, used>>
    PROVE  Inv'
<1> DEFINE c == [client EXCEPT !.cipher_policy_auto = auto]
<1>1. /\ client \in ClientRecord /\ ClientInv /\ client' = [c EXCEPT !.registration = None]
  BY DEF Inv, TypeOK, schedule_registration_retry
<1>2. /\ client' \in ClientRecord
  <2>1. c \in ClientRecord
    BY <1>1, SetClient
  <2> HIDE DEF c
  <2>2. \A v \in Key \cup {None} : [c EXCEPT !.registration = v] \in ClientRecord
    BY <2>1, SetClient
  <2> QED BY <1>1, <2>2
<1>3. /\ client'.require_udp = client.require_udp /\ client'.run = client.run
      /\ client'.tcp_alive = client.tcp_alive
      /\ client'.pending_tcp_fallback = client.pending_tcp_fallback
      /\ client'.active_transport = client.active_transport /\ client'.udp_state = client.udp_state
      /\ client'.cid = client.cid /\ client'.registration = None
      /\ client'.transport = client.transport /\ client'.retained = client.retained
      /\ client'.upgrade = client.upgrade /\ client'.upgrade_id = client.upgrade_id
  BY <1>1 DEF ClientRecord
<1>4. /\ client'.authenticated = client.authenticated /\ client'.probe_acked = client.probe_acked
      /\ client'.ready_sent = client.ready_sent /\ client'.discovery_task = client.discovery_task
      /\ client'.cipher_policy_auto = auto
  BY <1>1 DEF ClientRecord
<1>5. ClientInv'
  BY <1>1, <1>3, <1>4 DEF ClientInv, AttemptHasTransport, Upgrading, Awaiting
<1>6. Calmer /\ (Awaiting' <=> Awaiting)
  BY <1>1, <1>3, <1>4 DEF Calmer, Upgrading, Awaiting
<1> QED BY <1>2, <1>3, <1>5, <1>6, ClientCalms

LEMMA RegistrationTimeoutKeepsInv ==
    ASSUME Inv, handle_registration_timeout
    PROVE  Inv'
<1>1. CASE client.require_udp
  BY <1>1, ClientEndsKeepsInv DEF handle_registration_timeout, Exit
<1>2. CASE ~client.require_udp
  <2>1. /\ client.udp_state = "Pending" /\ client' = schedule_registration_retry(client)
        /\ UNCHANGED <<server, tcp_up, to_server, to_client, datagrams, used>>
    BY <1>2 DEF handle_registration_timeout, ClientOnly
  <2>2. client \in ClientRecord /\ client.cipher_policy_auto \in BOOLEAN
    BY DEF Inv, TypeOK, ClientRecord
  <2>3. client = [client EXCEPT !.cipher_policy_auto = client.cipher_policy_auto]
    BY <2>2 DEF ClientRecord
  <2>4. Skips
    BY <2>1 DEF Skips
  <2> QED BY <2>1, <2>2, <2>3, <2>4, RegistrationGivenUp
<1> QED BY <1>1, <1>2

LEMMA RegisterFailKeepsInv ==
    ASSUME Inv, handle_register_fail
    PROVE  Inv'
<1> DEFINE expected == client.udp_state = "Pending" /\ client.registration # None
           flip == Head(to_client).code = "InvalidCipher" /\ client.cipher_policy_auto
<1>1. CASE expected /\ client.require_udp /\ ~flip
  BY <1>1, ClientEndsKeepsInv DEF handle_register_fail, Exit
<1>2. CASE ~(expected /\ client.require_udp /\ ~flip)
  <2>1. /\ client' = IF ~expected THEN client
                     ELSE schedule_registration_retry([client EXCEPT !.cipher_policy_auto = @ /\ ~flip])
        /\ to_client # <<>> /\ Head(to_client).type = "RegisterFail" /\ to_client' = Tail(to_client)
        /\ UNCHANGED <<server, tcp_up, to_server, datagrams, used>>
    BY <1>2 DEF handle_register_fail, ClientReads
  <2>2. Skips
    BY <2>1 DEF Skips, Requests, Of, The
  <2>3. CASE ~expected
    BY <2>1, <2>2, <2>3, ClientIgnoresKeepsInv
  <2>4. CASE expected
    <3> DEFINE auto == client.cipher_policy_auto /\ ~flip
    <3>1. client' = schedule_registration_retry([client EXCEPT !.cipher_policy_auto = auto])
      BY <2>1, <2>4
    <3>2. auto \in BOOLEAN /\ (auto => client.cipher_policy_auto) /\ client.udp_state = "Pending"
      BY <2>4
    <3> HIDE DEF auto
    <3> QED BY <2>1, <2>2, <3>1, <3>2, RegistrationGivenUp
  <2> QED BY <2>3, <2>4
<1> QED BY <1>1, <1>2

LEMMA UpgradeTimeoutKeepsInv ==
    ASSUME Inv, handle_udp_upgrade_timeout
    PROVE  Inv'
<1> DEFINE d == WithoutAttempt(client, "TcpOnlyBlockedUdp")
<1>1. client \in ClientRecord /\ ClientInv
  BY DEF Inv, TypeOK
<1>2. /\ d \in ClientRecord /\ SameRest(d, client)
      /\ d.active_transport = client.active_transport /\ d.udp_state = client.udp_state
      /\ d.discovery_task = client.discovery_task /\ d.cid = client.cid
      /\ d.registration = client.registration /\ d.transport = client.transport
      /\ d.retained = client.retained /\ d.authenticated = client.authenticated
      /\ d.upgrade = "TcpOnlyBlockedUdp" /\ d.upgrade_id = None /\ ~d.probe_acked /\ ~d.ready_sent
  BY <1>1, WithoutAttemptFields
<1> HIDE DEF d
<1>3. CASE client.require_udp /\ ClientEnds("UdpUpgradeRequired")
  BY <1>3, ClientEndsKeepsInv DEF Exit
<1>4. CASE Upgrading /\ ClientOnly(d)
  <2>1. client' = d /\ UNCHANGED <<server, tcp_up, to_server, to_client, datagrams, used>>
    BY <1>4 DEF ClientOnly
  <2>2. ClientInv'
    BY <1>1, <1>2, <1>4, <2>1 DEF ClientInv, AttemptHasTransport, Upgrading, Awaiting, SameRest
  <2>3. Calmer /\ Skips /\ (Awaiting' <=> Awaiting)
    BY <1>2, <1>4, <2>1 DEF Calmer, Skips, SameRest, Upgrading, Awaiting
  <2> QED BY <1>2, <2>1, <2>2, <2>3, ClientCalms
<1>5. CASE Awaiting /\ ClientRequestsFallback(d)
  <2>1. GivesUp(d)
    BY <1>1, <1>2, <1>5 DEF GivesUp, ClientInv, AttemptHasTransport, Awaiting
  <2> QED BY <1>2, <1>5, <2>1, ClientRequests
<1> QED BY <1>3, <1>4, <1>5 DEF handle_udp_upgrade_timeout, Upgrading, Awaiting, d

\* The client leaves its transport, with or without keeping it for receiving.
LEMMA TransportGivenUp ==
    ASSUME Inv, NEW keep \in BOOLEAN, client.udp_state = "Active",
           ClientRequestsFallback(schedule_discovery(client, keep))
    PROVE  Inv'
<1> DEFINE d == schedule_discovery(client, keep)
<1>1. client \in ClientRecord /\ ClientInv
  BY DEF Inv, TypeOK
<1>2. /\ d \in ClientRecord /\ SameRest(d, client)
      /\ d.udp_state = IF EnableUpgrade \/ client.require_udp THEN "NeedDiscovery" ELSE "Disabled"
      /\ d.discovery_task = client.discovery_task /\ d.registration = None /\ d.transport = None
      /\ d.retained = IF EnableUpgrade \/ client.require_udp THEN Retained(client, keep) ELSE None
      /\ d.upgrade = IF EnableUpgrade \/ client.require_udp THEN "Idle" ELSE "Disabled"
      /\ d.upgrade_id = None /\ ~d.probe_acked /\ ~d.ready_sent
  BY <1>1, ScheduleDiscoveryFields
<1> HIDE DEF d
<1>3. GivesUp(d)
  BY <1>1, <1>2 DEF GivesUp, ClientInv
<1> QED BY <1>2, <1>3, ClientRequests DEF d

LEMMA LivenessTimeoutKeepsInv ==
    ASSUME Inv, UdpLivenessTimeout
    PROVE  Inv'
<1>1. client.udp_state = "Active"
  BY DEF Inv, ClientInv, UdpLivenessTimeout
<1> QED BY <1>1, TransportGivenUp DEF UdpLivenessTimeout

LEMMA NetworkChangedKeepsInv ==
    ASSUME Inv, handle_network_changed
    PROVE  Inv'
BY TransportGivenUp, ClientEndsKeepsInv DEF handle_network_changed, Exit

LEMMA UdpErrorKeepsInv ==
    ASSUME Inv, handle_udp_error
    PROVE  Inv'
<1>1. CASE client.udp_state = "Active"
  BY <1>1, TransportGivenUp, ClientEndsKeepsInv DEF handle_udp_error, Exit
<1>2. CASE client.udp_state # "Active"
  <2> DEFINE c == [client EXCEPT !.retained = None]
  <2>1. /\ client \in ClientRecord /\ ClientInv /\ client' = [c EXCEPT !.authenticated = FALSE]
        /\ UNCHANGED <<server, tcp_up, to_server, to_client, datagrams, used>>
    BY <1>2 DEF Inv, TypeOK, handle_udp_error, ClientOnly
  <2>2. client' \in ClientRecord
    <3>1. c \in ClientRecord
      BY SMTT(60), <2>1, SetClient DEF ClientRecord
    <3> HIDE DEF c
    <3> QED BY <2>1, <3>1, SetClient
  <2>3. /\ SameRest(client', client)
        /\ client'.active_transport = client.active_transport /\ client'.udp_state = client.udp_state
        /\ client'.cid = client.cid /\ client'.registration = client.registration
        /\ client'.transport = client.transport /\ client'.retained = None
        /\ client'.upgrade = client.upgrade /\ client'.upgrade_id = client.upgrade_id
    BY <2>1 DEF ClientRecord, SameRest
  <2>4. /\ client'.probe_acked = client.probe_acked /\ client'.discovery_task = client.discovery_task
        /\ client'.ready_sent = client.ready_sent
    BY <2>1 DEF ClientRecord
  <2>5. ClientInv'
    BY <1>2, <2>1, <2>3, <2>4 DEF ClientInv, AttemptHasTransport, Upgrading, Awaiting, SameRest
  <2>6. Calmer /\ Skips /\ (Awaiting' <=> Awaiting)
    BY <2>1, <2>3, <2>4 DEF Calmer, Skips, SameRest, Upgrading, Awaiting
  <2> QED BY <2>1, <2>2, <2>3, <2>5, <2>6, ClientCalms
<1> QED BY <1>1, <1>2

\* Traffic under the keys that the client reads.
LEMMA ClientHearsKeepsInv ==
    ASSUME Inv, ClientOnly([client EXCEPT !.authenticated = TRUE])
    PROVE  Inv'
<1>1. /\ client \in ClientRecord /\ ClientInv /\ client' = [client EXCEPT !.authenticated = TRUE]
      /\ UNCHANGED <<server, tcp_up, to_server, to_client, datagrams, used>>
  BY DEF Inv, TypeOK, ClientOnly
<1>2. client' \in ClientRecord
  BY <1>1, SetClient
<1>3. /\ SameRest(client', client)
      /\ client'.active_transport = client.active_transport /\ client'.udp_state = client.udp_state
      /\ client'.cid = client.cid /\ client'.registration = client.registration
      /\ client'.transport = client.transport /\ client'.retained = client.retained
      /\ client'.upgrade = client.upgrade /\ client'.upgrade_id = client.upgrade_id
  BY <1>1 DEF ClientRecord, SameRest
<1>4. /\ client'.authenticated /\ client'.probe_acked = client.probe_acked
      /\ client'.ready_sent = client.ready_sent /\ client'.discovery_task = client.discovery_task
  BY <1>1 DEF ClientRecord
<1>5. ClientInv'
  BY <1>1, <1>3, <1>4 DEF ClientInv, AttemptHasTransport, Upgrading, Awaiting, SameRest
<1>6. Calmer /\ Skips /\ (Awaiting' <=> Awaiting)
  BY <1>1, <1>3, <1>4 DEF Calmer, Skips, SameRest, Upgrading, Awaiting
<1> QED BY <1>1, <1>2, <1>3, <1>5, <1>6, ClientCalms

-----------------------------------------------------------------------------
(* Datagrams                                                               *)

LEMMA BeforeElems ==
    ASSUME NEW q, NEW a, NEW b, Before(q, a, b)
    PROVE  a \in Elems(q) /\ b \in Elems(q)
BY DEF Before, Elems

\* A datagram under keys that were used before, or that the client has just begun to use.
LEMMA DatagramSentKeepsInv ==
    ASSUME Inv, NEW d \in Datagrams, datagrams' = datagrams \cup {d},
           UNCHANGED <<client, server, tcp_up, to_server, to_client, used>>,
           d.key <= used.key, d.id <= used.upgrade, d.type # "Ping" => d.id # None,
           Traffic(d.key) \/ (client.udp_state = "Active" /\ d.key = used.key),
           d.type = "UpgradeProbe" => d.id = client.upgrade_id /\ d.key = used.key,
           d.type # "UpgradeProbeAck"
    PROVE  Inv'
<1>1. /\ TypeOK /\ ClientInv /\ ServerInv /\ DatagramInv /\ DrawnInv /\ ArrivalInv /\ ReadyInv /\ TrafficInv
  BY DEF Inv
<1>2. d.key \in Key /\ d.key \in Nat /\ d.id \in Nat
  BY SwitchAssumption DEF Datagrams, Key, UpgradeId, None
<1>3. /\ \A k : Traffic(k)' <=> Traffic(k) \/ k = d.key
      /\ \A k, id : Probed(k, id)' <=> Probed(k, id) \/ (d.type = "UpgradeProbe" /\ k = d.key /\ id = d.id)
  BY DEF Traffic, Probed
<1>4. \A k, id : Probed(k, id) /\ id = client.upgrade_id => k = used.key
  BY <1>1 DEF Probed, DatagramInv
<1>5. \A k, id : Probed(k, id)' /\ (\E j : Probed(j, id)) => Probed(k, id)
  BY <1>3, <1>4
<1>6. /\ used.key \in Nat /\ server.udp_session \in Nat
      /\ \A m \in Elems(to_server) : m \in Regs =>
            m.key \in Nat /\ m.key <= used.key /\ server.udp_session < m.key
  BY <1>1, Numbers, InFlightTypes, MessageTypes DEF DrawnInv, Drawn, ArrivalInv, Regs, Of
<1>7. TypeOK'
  BY <1>1 DEF TypeOK
<1>8. ClientInv'
  BY <1>1 DEF ClientInv, AttemptHasTransport, Upgrading, Awaiting
<1>9. ServerInv'
  BY <1>1, <1>3, <1>5 DEF ServerInv, StaleAttemptStaysStale, IsStale
<1>10. DatagramInv'
  BY <1>1, <1>3, <1>4 DEF DatagramInv, Probed
<1>11. DrawnInv' /\ ArrivalInv' /\ SwitchInv'
  BY DEF Inv, DrawnInv, Drawn, ArrivalInv, SwitchInv, AtMostOne
<1>12. ReadyInv'
  <2>1. \A m \in Elems(to_server) : m \in LiveReady' => m \in LiveReady
    <3>1. \A m \in Elems(to_server) : m \in Of("UdpReady") => \E k \in Key : Probed(k, m.id)
      BY <1>1 DEF ReadyInv
    <3> QED BY <1>5, <3>1 DEF LiveReady
  <2>2. server.pending_tcp_fallback # None =>
           Preceded(to_server, LiveReady', The("FallbackOk", server.pending_tcp_fallback))
    BY <1>1, <2>1, PrecededFewer DEF ReadyInv
  <2> QED BY <1>1, <1>3, <2>2 DEF ReadyInv, Readied, Matching, IsStale
<1>13. TrafficInv'
  <2>1. CASE Traffic(d.key)
    BY <1>1, <1>3, <2>1 DEF TrafficInv
  <2>2. CASE client.udp_state = "Active" /\ d.key = used.key
    <3>1. \A m \in Elems(to_server) : m \in Regs => server.udp_session # used.key
      BY <1>6
    <3>2. \A m \in Elems(to_server) : m \in RegOf(used.key) <=> m \in Regs /\ m.key = used.key
      BY DEF RegOf
    <3>3. \A m, n \in Elems(to_server) : m \in Regs /\ n \in Regs /\ n.key < m.key => n.key # used.key
      BY <1>6
    <3>4. ASSUME NEW m \in Elems(to_server), m \in Regs, Traffic(m.key)'
          PROVE  /\ ~Traffic(server.udp_session)'
                 /\ \A n \in Elems(to_server) : n \in Regs /\ n.key < m.key => ~Traffic(n.key)'
      <4>1. CASE m.key = used.key
        <5>1. Has(to_server, RegOf(used.key))
          BY <3>2, <3>4, <4>1 DEF Has
        <5> QED BY <1>1, <1>3, <2>2, <3>1, <3>3, <3>4, <5>1 DEF TrafficInv
      <4>2. CASE m.key # used.key
        BY <1>1, <1>3, <2>2, <3>1, <3>3, <3>4, <4>2 DEF TrafficInv
      <4> QED BY <4>1, <4>2
    <3>5. Has(to_server, RegOf(used.key)) => server.udp_session # used.key
      BY <3>1, <3>2 DEF Has
    <3> QED BY <1>1, <1>3, <2>2, <3>4, <3>5 DEF TrafficInv
  <2> QED BY <2>1, <2>2
<1>14. CountInv'
  BY DEF Inv, CountInv, Charged, Upgrading, Awaiting
<1>15. ASSUME tcp_up' PROVE Link'
  BY <1>15 DEF Inv, Link, BothConnected, RegisterLink, ClientFallbackLink, ServerFallbackLink, AttemptLink,
        CommitLink, Committed, Upgrading, Awaiting, Readied, IsStale, RegisterFailCodes, Ordered, AtMostOne
<1> QED BY <1>7, <1>8, <1>9, <1>10, <1>11, <1>12, <1>13, <1>14, <1>15 DEF Inv

LEMMA ClientSendsUdpKeepsInv ==
    ASSUME Inv, ClientSendsUdp
    PROVE  Inv'
<1>1. /\ client.udp_state = "Active" /\ client.transport = used.key /\ client.transport # None
      /\ client.transport \in Key \cup {None}
  BY DEF Inv, ClientInv, ClientSendsUdp, TypeOK, ClientRecord
<1>2. PICK d \in Datagrams : d = Datagram("server", "Ping", client.transport, None)
  BY <1>1 DEF Datagrams, Datagram
<1>3. d.key = used.key /\ d.id = None /\ d.type = "Ping"
  BY <1>1, <1>2 DEF Datagram
<1>4. d.key <= used.key /\ d.id <= used.upgrade
  <2>1. used.key \in Nat /\ used.upgrade \in Nat
    BY Numbers DEF Inv
  <2> QED BY <1>3, <2>1 DEF None
<1>5. datagrams' = datagrams \cup {d} /\ UNCHANGED <<client, server, tcp_up, to_server, to_client, used>>
  BY <1>2 DEF ClientSendsUdp
<1> QED BY <1>1, <1>3, <1>4, <1>5, DatagramSentKeepsInv

LEMMA SendProbeKeepsInv ==
    ASSUME Inv, send_upgrade_probe
    PROVE  Inv'
<1>1. /\ client.udp_state = "Active" /\ client.transport = used.key /\ client.transport # None
      /\ client.transport \in Key \cup {None}
      /\ client.upgrade_id # None /\ client.upgrade_id = used.upgrade
      /\ client.upgrade_id \in UpgradeId \cup {None}
  BY DEF Inv, ClientInv, AttemptHasTransport, Upgrading, send_upgrade_probe, TypeOK, ClientRecord
<1>2. PICK d \in Datagrams : d = Datagram("server", "UpgradeProbe", client.transport, client.upgrade_id)
  BY <1>1 DEF Datagrams, Datagram
<1>3. d.key = used.key /\ d.id = client.upgrade_id /\ d.type = "UpgradeProbe"
  BY <1>1, <1>2 DEF Datagram
<1>4. d.key <= used.key /\ d.id <= used.upgrade
  <2>1. used.key \in Nat /\ used.upgrade \in Nat
    BY Numbers DEF Inv
  <2> QED BY <1>1, <1>3, <2>1
<1>5. datagrams' = datagrams \cup {d} /\ UNCHANGED <<client, server, tcp_up, to_server, to_client, used>>
  BY <1>1, <1>2 DEF send_upgrade_probe, ReceiveTransport
<1> QED BY <1>1, <1>3, <1>4, <1>5, DatagramSentKeepsInv

LEMMA ServerSendsPingKeepsInv ==
    ASSUME Inv, server.active_transport = "UdpQsp",
           datagrams' = datagrams \cup {Datagram("client", "Ping", server.udp_session, None)},
           UNCHANGED <<client, server, tcp_up, to_server, to_client, used>>
    PROVE  Inv'
<1>1. /\ server.udp_session # None /\ server.udp_session \in Key \cup {None}
      /\ Traffic(server.udp_session) /\ server.udp_session <= used.key
  BY DEF Inv, ServerInv, DrawnInv, TypeOK, ServerRecord
<1>2. PICK d \in Datagrams : d = Datagram("client", "Ping", server.udp_session, None)
  BY <1>1 DEF Datagrams, Datagram
<1>3. d.key = server.udp_session /\ d.id = None /\ d.type = "Ping"
  BY <1>1, <1>2 DEF Datagram
<1>4. d.id <= used.upgrade
  <2>1. used.upgrade \in Nat
    BY Numbers DEF Inv
  <2> QED BY <1>3, <2>1 DEF None
<1> QED BY <1>1, <1>2, <1>3, <1>4, DatagramSentKeepsInv

-----------------------------------------------------------------------------
(* The client: discovery and registration                                  *)

LEMMA DiscoverySucceedsKeepsInv ==
    ASSUME Inv, DiscoverySucceeds
    PROVE  Inv'
<1> DEFINE cid == used.cid + 1
<1>1. /\ TypeOK /\ ClientInv /\ DrawnInv /\ client \in ClientRecord /\ client.udp_state = "NeedDiscovery"
      /\ client' = [client EXCEPT !.discovery_task = FALSE, !.udp_state = "Pending",
                                  !.cid = cid, !.registration = None]
      /\ used' = [used EXCEPT !.cid = cid] /\ cid \in Cid
      /\ UNCHANGED <<server, tcp_up, to_server, to_client, datagrams>>
  BY DEF Inv, TypeOK, ClientInv, DiscoverySucceeds
<1>2. used.cid \in Nat /\ cid \in Nat /\ cid # None /\ used.cid < cid /\ cid \in 0..MaxCids
  BY <1>1, Numbers DEF Cid, None
<1>3. client' \in ClientRecord
  <2> DEFINE b1 == [client EXCEPT !.discovery_task = FALSE]
             b2 == [b1 EXCEPT !.udp_state = "Pending"]
             b3 == [b2 EXCEPT !.cid = cid]
  <2>1. client' = [b3 EXCEPT !.registration = None]
    BY <1>1
  <2>2. b1 \in ClientRecord
    BY <1>1, SetClient
  <2> HIDE DEF b1
  <2>3. b2 \in ClientRecord
    BY <2>2, SetClient
  <2> HIDE DEF b2
  <2>4. b3 \in ClientRecord
    BY <1>1, <2>3, SetClient
  <2> HIDE DEF b3
  <2>5. \A v \in Key \cup {None} : [b3 EXCEPT !.registration = v] \in ClientRecord
    BY <2>4, SetClient
  <2> QED BY <2>1, <2>5
<1>4. /\ SameRest(client', client)
      /\ client'.active_transport = client.active_transport /\ client'.udp_state = "Pending"
      /\ client'.cid = cid /\ client'.registration = None
      /\ client'.transport = client.transport /\ client'.retained = client.retained
      /\ client'.upgrade = client.upgrade /\ client'.upgrade_id = client.upgrade_id
  BY <1>1 DEF ClientRecord, SameRest
<1>5. /\ client'.authenticated = client.authenticated /\ client'.probe_acked = client.probe_acked
      /\ client'.ready_sent = client.ready_sent /\ ~client'.discovery_task
  BY <1>1 DEF ClientRecord
<1>6. /\ used' \in [cid : 0..MaxCids, key : 0..MaxKeys,
                    upgrade : 0..(MaxKeys + MaxRetries), retry : 0..MaxRetries,
                    fallback : 0..(3 * MaxKeys + MaxRetries)]
      /\ used'.cid = cid /\ used'.key = used.key /\ used'.upgrade = used.upgrade
      /\ used'.retry = used.retry /\ used'.fallback = used.fallback
  BY <1>1, <1>2 DEF TypeOK
<1>7. /\ \A m \in Elems(to_server) : m \in Regs => m.cid # cid
      /\ ~Has(to_client, OkFor(cid))
      /\ \A a, b : Before(to_client, a, b) => a \notin OkFor(cid)
  <2>1. \A m \in Messages : Drawn(m) /\ m.type \in {"RegisterCid", "RegisterOk"} => m.cid # cid
    BY <1>2, MessageTypes DEF Drawn
  <2> QED BY <1>1, <2>1, InFlightTypes, BeforeElems DEF DrawnInv, Has, Regs, Of, OkFor
<1>8. TypeOK'
  BY <1>1, <1>3, <1>6 DEF TypeOK
<1>9. ClientInv'
  BY <1>1, <1>2, <1>4, <1>5, <1>6 DEF ClientInv, AttemptHasTransport, Upgrading, Awaiting, SameRest
<1>10. ServerInv'
  BY <1>1 DEF Inv, ServerInv, StaleAttemptStaysStale, IsStale, Probed, Traffic
<1>11. DatagramInv'
  BY <1>1, <1>4, <1>6 DEF Inv, DatagramInv, Probed
<1>12. DrawnInv'
  <2>1. \A m \in Messages : Drawn(m) => Drawn(m)'
    <3>1. \A n \in Nat : n <= used.cid => n <= used'.cid
      BY <1>2, <1>6
    <3> QED BY <1>6, <3>1, MessageTypes DEF Drawn
  <2> QED BY <1>1, <1>4, <1>6, <2>1, InFlightTypes DEF DrawnInv, SameRest
<1>13. ArrivalInv' /\ SwitchInv'
  BY <1>1 DEF Inv, ArrivalInv, SwitchInv, AtMostOne
<1>14. ReadyInv'
  BY <1>1 DEF Inv, ReadyInv, LiveReady, Probed, Readied, Matching, IsStale
<1>15. TrafficInv'
  BY <1>1, <1>4, <1>7 DEF Inv, TrafficInv, Traffic
<1>16. CountInv'
  <2>1. Charged \in Nat /\ Charged' \in Nat /\ Charged' <= Charged
    BY <1>1, <1>4, <1>6, NoCharge DEF Upgrading, Awaiting
  <2> QED BY <1>1, <1>4, <1>6, <2>1, CountKept DEF Inv
<1>17. ASSUME tcp_up' PROVE Link'
  <2>1. Link /\ tcp_up
    BY <1>1, <1>17 DEF Inv
  <2>2. BothConnected'
    BY <1>1, <1>4, <2>1 DEF Link, BothConnected, SameRest
  <2>3. RegisterLink'
    BY <1>1, <1>4, <1>6, <1>7, <2>1 DEF Link, RegisterLink, SameRest
  <2>4. ClientFallbackLink'
    BY <1>1, <1>4, <2>1 DEF Link, ClientFallbackLink, SameRest, Upgrading, Awaiting, Readied
  <2>5. ServerFallbackLink'
    BY <1>1, <1>4, <1>7, <2>1 DEF Link, ServerFallbackLink, Ordered, AtMostOne
  <2>6. AttemptLink'
    BY <1>1, <1>4, <1>5, <2>1 DEF Link, AttemptLink, Upgrading, Readied, IsStale
  <2>7. CommitLink'
    BY <1>1, <1>4, <2>1 DEF Link, CommitLink, Committed, Awaiting
  <2> QED BY <2>2, <2>3, <2>4, <2>5, <2>6, <2>7 DEF Link
<1> QED BY <1>8, <1>9, <1>10, <1>11, <1>12, <1>13, <1>14, <1>15, <1>16, <1>17 DEF Inv

LEMMA AttemptRegistrationKeepsInv ==
    ASSUME Inv, attempt_udp_registration
    PROVE  Inv'
<1> DEFINE key == used.key + 1
           reg == [type |-> "RegisterCid", cid |-> client.cid, key |-> key, auto |-> client.cipher_policy_auto]
<1>1. /\ TypeOK /\ ClientInv /\ DrawnInv /\ DatagramInv /\ ArrivalInv /\ client \in ClientRecord
      /\ client.udp_state = "Pending" /\ client.registration = None
      /\ client' = [client EXCEPT !.registration = key]
      /\ used' = [used EXCEPT !.key = key] /\ key \in Key
      /\ to_server' = Written(to_server, reg)
      /\ to_server \in Seq(Messages) /\ tcp_up \in BOOLEAN
      /\ UNCHANGED <<server, tcp_up, to_client, datagrams>>
  BY DEF Inv, TypeOK, attempt_udp_registration
<1> HIDE DEF reg
<1>0. /\ used.key \in Nat /\ MaxKeys \in Nat
      /\ server.udp_session \in Nat /\ server.udp_session <= used.key
      /\ to_server \in Seq(Messages) /\ tcp_up \in BOOLEAN
  BY <1>1, Numbers DEF DrawnInv
<1>2. key \in Nat /\ key # None /\ used.key < key /\ key \in 0..MaxKeys
  <2>1. key \in Key
    BY <1>1
  <2> QED BY <1>0, <2>1 DEF Key, None
<1>3. client' \in ClientRecord
  BY <1>1, SetClient
<1>4. /\ SameRest(client', client)
      /\ client'.active_transport = client.active_transport /\ client'.udp_state = "Pending"
      /\ client'.cid = client.cid /\ client'.registration = key
      /\ client'.transport = client.transport /\ client'.retained = client.retained
      /\ client'.upgrade = client.upgrade /\ client'.upgrade_id = client.upgrade_id
  BY <1>1 DEF ClientRecord, SameRest
<1>5. /\ client'.authenticated = client.authenticated /\ client'.probe_acked = client.probe_acked
      /\ client'.ready_sent = client.ready_sent /\ client'.discovery_task = client.discovery_task
  BY <1>1 DEF ClientRecord
<1>6. /\ used' \in [cid : 0..MaxCids, key : 0..MaxKeys,
                    upgrade : 0..(MaxKeys + MaxRetries), retry : 0..MaxRetries,
                    fallback : 0..(3 * MaxKeys + MaxRetries)]
      /\ used'.cid = used.cid /\ used'.key = key /\ used'.upgrade = used.upgrade
      /\ used'.retry = used.retry /\ used'.fallback = used.fallback
  BY <1>1, <1>2 DEF TypeOK
<1>7. PICK m \in Messages : /\ m = reg /\ m.type = "RegisterCid" /\ m.cid = client.cid /\ m.key = key
                            /\ m.auto = client.cipher_policy_auto
  <2>1. client.cid \in Cid /\ client.cipher_policy_auto \in BOOLEAN
    BY <1>1 DEF ClientInv, ClientRecord
  <2>2. reg \in Messages
    BY <1>1, <2>1, NewMessages DEF reg
  <2> QED BY <2>2 DEF reg
<1>8. /\ to_server' \in Seq(Messages)
      /\ Elems(to_server) \subseteq Elems(to_server') /\ Elems(to_server') \subseteq Elems(to_server) \cup {m}
      /\ tcp_up => m \in Elems(to_server')
      /\ ~tcp_up => to_server' = to_server
      /\ \A a, b : Before(to_server', a, b) => Before(to_server, a, b) \/ (a \in Elems(to_server) /\ b = m)
      /\ \A Y, Z : Preceded(to_server, Y, Z) /\ (m \in Y => Has(to_server, Z)) => Preceded(to_server', Y, Z)
      /\ \A X, Z : m \notin X /\ Followed(to_server, X, Z) => Followed(to_server', X, Z)
      /\ \A X, Y, Z : Between(to_server, X, Y, Z) /\ (m \in Y => ~Has(to_server, X) \/ Followed(to_server, X, Z))
             => Between(to_server', X, Y, Z)
  <2>1. to_server' = Written(to_server, m)
    BY <1>1, <1>7
  <2>2. ~tcp_up => to_server' = to_server
    BY <2>1 DEF Written
  <2> QED BY <1>0, <2>1, <2>2, WrittenFacts
<1>9. /\ \A n \in Elems(to_server) : n \in Regs => n.key \in Nat /\ n.key <= used.key /\ n.key # key
      /\ \A d \in datagrams : d.key # key
      /\ ~Traffic(key) /\ \A id : ~Probed(key, id)
      /\ ~Has(to_server, RegOf(key))
  <2>1. \A n \in Elems(to_server) : n \in Regs => n.key \in Nat /\ n.key <= used.key
    BY <1>1, InFlightTypes, MessageTypes DEF DrawnInv, Drawn, Regs, Of
  <2>2. \A n \in Elems(to_server) : n \in Regs => n.key # key
    BY <1>0, <1>2, <2>1
  <2>3. \A d \in datagrams : d.key # key
    BY <1>0, <1>1, <1>2, InFlightTypes DEF DatagramInv
  <2> QED BY <2>1, <2>2, <2>3 DEF Traffic, Probed, Has, RegOf
<1>10. m \in Regs /\ m \in RegOf(key) /\ m \notin LiveReady /\ m \notin Requests
       /\ m \notin Of("UdpReady") /\ m \notin Of("SwitchAck")
       /\ \A x : m \notin The("UdpReady", x) /\ m \notin The("SwitchAck", x) /\ m \notin The("FallbackOk", x)
                 /\ m \notin The("FallbackToTcp", x)
  BY <1>7 DEF Regs, RegOf, Of, LiveReady, Requests, The
<1>11. \A X : m \notin X => (Has(to_server', X) <=> Has(to_server, X))
  BY <1>8 DEF Has
<1>12. client.active_transport = "Tcp" /\ ~Upgrading /\ ~Awaiting /\ client.upgrade_id = None /\ client.transport = None
  BY <1>1 DEF ClientInv, AttemptHasTransport, Upgrading, Awaiting, ClientRecord
<1>13. TypeOK'
  BY <1>1, <1>3, <1>6, <1>8 DEF TypeOK
<1>14. ClientInv'
  BY <1>1, <1>2, <1>4, <1>5, <1>6, <1>12 DEF ClientInv, AttemptHasTransport, Upgrading, Awaiting, SameRest
<1>15. ServerInv'
  BY <1>1 DEF Inv, ServerInv, StaleAttemptStaysStale, IsStale, Probed, Traffic
<1>16. DatagramInv'
  <2>1. \A d \in datagrams : d.key <= used'.key
    BY <1>0, <1>1, <1>2, <1>6, InFlightTypes DEF DatagramInv
  <2> QED BY <1>1, <1>4, <1>6, <1>12, <2>1 DEF DatagramInv, Probed
<1>17. DrawnInv'
  <2>1. \A n \in Messages : Drawn(n) => Drawn(n)'
    <3>1. \A n \in Nat : n <= used.key => n <= used'.key
      BY SMTT(60), <1>0, <1>2, <1>6
    <3> QED BY <1>6, <3>1, MessageTypes DEF Drawn
  <2>2. Drawn(m)'
    <3>1. m.cid <= used.cid
      BY SMTT(60), <1>1, <1>7, Numbers DEF ClientInv
    <3> QED BY <1>0, <1>2, <1>6, <1>7, <3>1 DEF Drawn
  <2>3. server.udp_session <= used'.key
    BY SMTT(60), <1>0, <1>2, <1>6
  <2> QED BY <1>1, <1>4, <1>6, <1>8, <2>1, <2>2, <2>3, InFlightTypes DEF DrawnInv, SameRest
<1>18. ArrivalInv'
  <2>1. server.udp_session < key
    BY <1>0, <1>2
  <2>2. \A n \in Elems(to_server) : n \in Regs => n.key < m.key /\ n.cid <= m.cid
    <3>1. \A n \in Elems(to_server) : n \in Regs => n.cid <= used.cid
      BY <1>1 DEF DrawnInv, Drawn, Regs, Of
    <3> QED BY <1>0, <1>1, <1>2, <1>7, <1>9, <3>1 DEF ClientInv
  <2> QED BY <1>1, <1>7, <1>8, <1>10, <2>1, <2>2 DEF ArrivalInv, AtMostOne
<1>19. ReadyInv'
  <2>1. LiveReady' = LiveReady
    <3>1. \A k : Has(to_server', RegOf(k)) <=> Has(to_server, RegOf(k)) \/ (k = key /\ tcp_up)
      BY <1>7, <1>8, <1>10 DEF Has, RegOf
    <3> QED BY <1>1, <1>9, <3>1 DEF LiveReady, Probed
  <2>2. \A n \in Elems(to_server') : n \in Of("UdpReady") \/ n \in Of("SwitchAck") => n \in Elems(to_server)
    BY <1>8, <1>10
  <2> HIDE DEF LiveReady
  <2> QED BY <1>1, <1>8, <1>10, <2>1, <2>2 DEF Inv, ReadyInv, Probed, Readied, Matching, IsStale
<1>20. SwitchInv'
  <2>1. CASE tcp_up
    <3>1. server.active_transport = "UdpQsp" => Has(to_server, Requests)
      BY <1>12, <2>1 DEF Inv, Link, CommitLink, Committed
    <3>2. server.switch_to_udp_sent => Followed(to_server, The("SwitchAck", server.upgrade_id), Requests)
      BY <1>12, <2>1 DEF Inv, Link, CommitLink
    <3> QED BY <1>1, <1>8, <3>1, <3>2 DEF Inv, SwitchInv
  <2>2. CASE ~tcp_up
    BY <1>1, <1>8, <2>2 DEF Inv, SwitchInv
  <2> QED BY <1>1, <2>1, <2>2
<1>21. TrafficInv'
  <2>1. ~Traffic(m.key)
    BY <1>7, <1>9
  <2> QED BY <1>1, <1>4, <1>8, <2>1 DEF Inv, TrafficInv, Traffic, Has
<1>22. CountInv'
  <2>1. /\ \A b : One(b) \in Nat
        /\ used.key \in Nat /\ used.retry \in Nat /\ used.upgrade \in Nat /\ used.fallback \in Nat
    BY <1>1, Numbers, OneIsNat
  <2>2. /\ One(client.registration # None) = 0 /\ One(client'.registration # None) = 1
        /\ One(client'.udp_state = "Active") = One(client.udp_state = "Active")
        /\ One((Upgrading \/ Awaiting)') = One(Upgrading \/ Awaiting)
        /\ One((server.udp_session # None)') = One(server.udp_session # None)
    BY <1>1, <1>2, <1>4 DEF One, Upgrading, Awaiting
  <2>3. Charged' = Charged + 2 /\ Charged \in Nat
    BY <1>6, <2>1, <2>2 DEF Charged
  <2>4. /\ used.upgrade + 0 <= used.key + used.retry
        /\ Charged <= 3 * used.key + used.retry
        /\ \A n \in Elems(to_server) : n \in Regs =>
              Charged + (used.key - n.key + 1) <= 3 * used.key + used.retry
    BY <2>2 DEF Inv, CountInv
  <2>5. used'.upgrade + One(client'.registration # None) <= used'.key + used'.retry
    BY <1>2, <1>6, <2>1, <2>2, <2>4
  <2>6. Charged' <= 3 * used'.key + used'.retry
    BY <1>2, <1>6, <2>1, <2>3, <2>4
  <2>7. ASSUME NEW n \in Elems(to_server'), n \in Regs
        PROVE  Charged' + (used'.key - n.key + 1) <= 3 * used'.key + used'.retry
    <3>1. CASE n \in Elems(to_server)
      <4>1. Charged + (used.key - n.key + 1) <= 3 * used.key + used.retry /\ n.key \in Nat
        BY <1>9, <2>4, <2>7, <3>1
      <4> QED BY <1>2, <1>6, <2>1, <2>3, <4>1
    <3>2. CASE n = m
      BY <1>2, <1>6, <1>7, <2>1, <2>3, <2>4, <3>2
    <3> QED BY <1>8, <2>7, <3>1, <3>2
  <2> QED BY <2>5, <2>6, <2>7 DEF CountInv
<1>23. ASSUME tcp_up' PROVE Link'
  <2>1. Link /\ tcp_up
    BY <1>1, <1>23 DEF Inv
  <2>2. BothConnected'
    BY <1>1, <1>4, <2>1 DEF Link, BothConnected, SameRest
  <2>3. RegisterLink'
    <3>1. Has(to_server', RegOf(used'.key))
      BY <1>6, <1>8, <1>10, <2>1 DEF Has
    <3>2. \A n \in Elems(to_server') : n \in RegOf(key) => n = m
      BY <1>8, <1>9 DEF RegOf
    <3> QED BY <1>1, <1>4, <1>6, <1>7, <1>8, <2>1, <3>1, <3>2 DEF Link, RegisterLink, SameRest
  <2>4. ClientFallbackLink'
    BY <1>1, <1>4, <1>8, <1>10, <1>11, <1>12, <2>1 DEF Link, ClientFallbackLink, SameRest, Upgrading, Awaiting, Readied
  <2>5. ServerFallbackLink'
    BY <1>1, <1>4, <1>10, <1>11, <2>1 DEF Link, ServerFallbackLink, Ordered, AtMostOne
  <2>6. AttemptLink'
    BY <1>1, <1>4, <1>8, <1>10, <1>11, <1>12, <2>1 DEF Link, AttemptLink, Upgrading, Readied, IsStale
  <2>7. CommitLink'
    BY <1>1, <1>4, <1>8, <1>10, <1>11, <1>12, <2>1 DEF Link, CommitLink, Committed, Awaiting
  <2> QED BY <2>2, <2>3, <2>4, <2>5, <2>6, <2>7 DEF Link
<1> QED BY <1>13, <1>14, <1>15, <1>16, <1>17, <1>18, <1>19, <1>20, <1>21, <1>22, <1>23 DEF Inv

-----------------------------------------------------------------------------
(* The client: the start of an attempt                                     *)

\* The next upgrade id is unknown to everyone.
LEMMA FreshAttempt ==
    ASSUME Inv, NEW id, id = used.upgrade + 1
    PROVE  /\ id \in Nat /\ id # None /\ used.upgrade \in Nat /\ used.upgrade < id
           /\ ~Has(to_server, The("UdpReady", id)) /\ ~Has(to_server, The("SwitchAck", id))
           /\ ~Has(to_client, The("SwitchToUdp", id))
           /\ \A m \in Elems(to_client) : m \in Of("SwitchOk") => m.id < id
           /\ \A a, b : Before(to_server, a, b) => a \notin The("UdpReady", id)
           /\ server.upgrade_id # id /\ ~IsStale(server, id)
           /\ \A d \in datagrams : d.id # id
<1>1. TypeOK /\ DrawnInv /\ DatagramInv
  BY DEF Inv
<1>2. used.upgrade \in Nat /\ server.upgrade_id \in Nat
  BY <1>1, Numbers
<1>3. id \in Nat /\ id # None /\ used.upgrade < id
  BY <1>2 DEF None
<1>4. \A n \in Nat : n <= used.upgrade => n # id /\ n < id
  BY <1>2
<1>5. \A m \in Messages : Drawn(m) /\ m.type \in {"UdpReady", "SwitchToUdp", "SwitchAck", "SwitchOk"} =>
          m.id # id /\ m.id < id
  BY <1>4, MessageTypes DEF Drawn
<1>6. /\ \A m \in Elems(to_server) : m \in Messages /\ Drawn(m)
      /\ \A m \in Elems(to_client) : m \in Messages /\ Drawn(m)
  BY <1>1, InFlightTypes DEF DrawnInv
<1>7. /\ ~Has(to_server, The("UdpReady", id)) /\ ~Has(to_server, The("SwitchAck", id))
      /\ ~Has(to_client, The("SwitchToUdp", id))
      /\ \A m \in Elems(to_client) : m \in Of("SwitchOk") => m.id < id
  BY <1>5, <1>6 DEF Has, The, Of
<1>8. \A a, b : Before(to_server, a, b) => a \notin The("UdpReady", id)
  BY <1>7, BeforeElems DEF Has
<1>9. server.upgrade_id # id
  BY <1>1, <1>2, <1>4 DEF DrawnInv
<1>10. ~IsStale(server, id)
  <2>1. \A i \in DOMAIN server.stale_upgrade_ids :
            server.stale_upgrade_ids[i] \in Nat /\ server.stale_upgrade_ids[i] <= used.upgrade
    BY <1>1, InFlightTypes, SwitchAssumption DEF DrawnInv, UpgradeId
  <2> QED BY <1>4, <2>1 DEF IsStale
<1>11. \A d \in datagrams : d.id # id
  BY <1>1, <1>4, InFlightTypes DEF DatagramInv
<1> QED BY <1>2, <1>3, <1>7, <1>8, <1>9, <1>10, <1>11

LEMMA StartFields ==
    ASSUME NEW c \in ClientRecord, StartsAttempt(c), used.upgrade + 1 \in UpgradeId
    PROVE  LET d == start_udp_upgrade_attempt(c) IN
           /\ d \in ClientRecord /\ SameRest(d, c)
           /\ d.active_transport = "Tcp" /\ d.udp_state = "Active"
           /\ d.discovery_task = c.discovery_task /\ d.cid = c.cid
           /\ d.registration = c.registration /\ d.transport = c.transport
           /\ d.retained = c.retained /\ d.authenticated = c.authenticated
           /\ d.upgrade = "Upgrading" /\ d.upgrade_id = used.upgrade + 1 /\ ~d.probe_acked /\ ~d.ready_sent
<1> DEFINE w == WithoutAttempt(c, "Upgrading")
           id == used.upgrade + 1
<1>1. start_udp_upgrade_attempt(c) = [w EXCEPT !.upgrade_id = id]
  BY DEF start_udp_upgrade_attempt
<1>2. /\ w \in ClientRecord /\ SameRest(w, c)
      /\ w.active_transport = c.active_transport /\ w.udp_state = c.udp_state
      /\ w.discovery_task = c.discovery_task /\ w.cid = c.cid
      /\ w.registration = c.registration /\ w.transport = c.transport
      /\ w.retained = c.retained /\ w.authenticated = c.authenticated
      /\ w.upgrade = "Upgrading" /\ ~w.probe_acked /\ ~w.ready_sent
  BY WithoutAttemptFields
<1> HIDE DEF w, id
<1> DEFINE d == [w EXCEPT !.upgrade_id = id]
<1>3. id \in UpgradeId
  BY DEF id
<1>4. d \in ClientRecord
  BY <1>2, <1>3, SetClient
<1>5. SameRest(d, w)
  BY <1>2 DEF ClientRecord, SameRest
<1>6. /\ d.active_transport = w.active_transport /\ d.udp_state = w.udp_state
      /\ d.cid = w.cid /\ d.registration = w.registration /\ d.transport = w.transport
      /\ d.retained = w.retained /\ d.upgrade = w.upgrade /\ d.upgrade_id = id
  BY <1>2 DEF ClientRecord
<1>7. /\ d.discovery_task = w.discovery_task /\ d.authenticated = w.authenticated
      /\ d.probe_acked = w.probe_acked /\ d.ready_sent = w.ready_sent
  BY <1>2 DEF ClientRecord
<1> HIDE DEF d
<1>8. start_udp_upgrade_attempt(c) = d
  BY <1>1 DEF d
<1>9. c.active_transport = "Tcp" /\ c.udp_state = "Active"
  BY DEF StartsAttempt
<1> QED BY <1>2, <1>4, <1>5, <1>6, <1>7, <1>8, <1>9 DEF SameRest, id

LEMMA RegisterOkCommits ==
    ASSUME Inv, to_client # <<>>, Head(to_client).type = "RegisterOk", Head(to_client).cid = client.cid,
           client.udp_state = "Pending", client.registration # None,
           client' = Registered(client), used' = [used EXCEPT !.upgrade = @ + 1],
           to_client' = Tail(to_client), UNCHANGED <<server, tcp_up, to_server, datagrams>>
    PROVE  Inv'
<1> DEFINE id == used.upgrade + 1
<1>1. /\ TypeOK /\ ClientInv /\ DrawnInv /\ DatagramInv /\ CountInv /\ TrafficInv
      /\ client \in ClientRecord /\ to_client \in Seq(Messages)
  BY DEF Inv, TypeOK
<1>2. /\ used.key \in 0..MaxKeys /\ used.retry \in 0..MaxRetries /\ MaxKeys \in Nat /\ MaxRetries \in Nat
      /\ used.key \in Nat /\ used.retry \in Nat /\ used.upgrade \in Nat /\ used.fallback \in Nat
      /\ \A b : One(b) \in Nat
  BY <1>1, Numbers, OneIsNat
<1>3. id \in UpgradeId /\ id \in 0..(MaxKeys + MaxRetries)
  <2>1. One(client.registration # None) = 1
    BY DEF One
  <2>2. used.upgrade + 1 <= used.key + used.retry
    BY <1>1, <2>1 DEF CountInv
  <2> QED BY SMTT(60), <1>2, <2>2 DEF UpgradeId
<1>4. /\ id # None /\ used.upgrade < id /\ id \in Nat
      /\ ~Has(to_server, The("UdpReady", id)) /\ ~Has(to_server, The("SwitchAck", id))
      /\ ~Has(to_client, The("SwitchToUdp", id))
      /\ \A m \in Elems(to_client) : m \in Of("SwitchOk") => m.id < id
      /\ \A a, b : Before(to_server, a, b) => a \notin The("UdpReady", id)
      /\ server.upgrade_id # id /\ ~IsStale(server, id)
      /\ \A d \in datagrams : d.id # id
  BY FreshAttempt
<1>5. /\ client' \in ClientRecord /\ SameRest(client', client)
      /\ client'.active_transport = "Tcp" /\ client'.udp_state = "Active"
      /\ client'.discovery_task = client.discovery_task /\ client'.registration = None
      /\ client'.transport = client.registration /\ client'.retained = None
      /\ client'.upgrade = "Upgrading" /\ client'.upgrade_id = id /\ ~client'.probe_acked /\ ~client'.ready_sent
  <2> DEFINE k == client.registration
             b1 == [client EXCEPT !.udp_state = "Active"]
             b2 == [b1 EXCEPT !.transport = k]
             b3 == [b2 EXCEPT !.registration = None]
             b4 == [b3 EXCEPT !.cid = None]
             b5 == [b4 EXCEPT !.retained = None]
             c == [b5 EXCEPT !.authenticated = FALSE]
  <2>1. client' = start_udp_upgrade_attempt(c)
    BY DEF Registered
  <2>2. /\ SameRest(c, client) /\ c.active_transport = client.active_transport /\ c.udp_state = "Active"
        /\ c.registration = None /\ c.transport = k /\ c.retained = None
        /\ c.upgrade = client.upgrade
    BY <1>1 DEF ClientRecord, SameRest
  <2>3. c.discovery_task = client.discovery_task
    BY <1>1 DEF ClientRecord
  <2>4. k \in Key \cup {None} /\ None \in Key \cup {None} /\ None \in Cid \cup {None}
    BY <1>1 DEF ClientRecord
  <2> HIDE DEF k
  <2>5. b1 \in ClientRecord
    BY <1>1, SetClient
  <2> HIDE DEF b1
  <2>6. b2 \in ClientRecord
    BY <2>4, <2>5, SetClient
  <2> HIDE DEF b2
  <2>7. b3 \in ClientRecord
    BY <2>4, <2>6, SetClient
  <2> HIDE DEF b3
  <2>8. b4 \in ClientRecord
    BY <2>4, <2>7, SetClient
  <2> HIDE DEF b4
  <2>9. b5 \in ClientRecord
    BY <2>4, <2>8, SetClient
  <2> HIDE DEF b5
  <2>10. c \in ClientRecord
    BY <2>9, SetClient
  <2> HIDE DEF c
  <2>11. StartsAttempt(c)
    BY <1>1, <2>2 DEF StartsAttempt, ClientInv, ClientRecord
  <2>12. /\ client' \in ClientRecord /\ SameRest(client', c)
         /\ client'.active_transport = "Tcp" /\ client'.udp_state = "Active"
         /\ client'.discovery_task = c.discovery_task /\ client'.registration = c.registration
         /\ client'.transport = c.transport /\ client'.retained = c.retained
         /\ client'.upgrade = "Upgrading" /\ client'.upgrade_id = id /\ ~client'.probe_acked /\ ~client'.ready_sent
    BY <1>3, <2>1, <2>10, <2>11, StartFields
  <2> QED BY <2>2, <2>3, <2>12 DEF SameRest, k
<1>6. /\ used' \in [cid : 0..MaxCids, key : 0..MaxKeys,
                    upgrade : 0..(MaxKeys + MaxRetries), retry : 0..MaxRetries,
                    fallback : 0..(3 * MaxKeys + MaxRetries)]
      /\ used'.cid = used.cid /\ used'.key = used.key /\ used'.upgrade = id
      /\ used'.retry = used.retry /\ used'.fallback = used.fallback
  BY <1>1, <1>3 DEF TypeOK
<1>7. /\ Tail(to_client) \in Seq(Messages) /\ Head(to_client) \in Messages
      /\ Elems(to_client) = {Head(to_client)} \cup Elems(Tail(to_client))
      /\ \A a, b : Before(Tail(to_client), a, b) => Before(to_client, a, b)
      /\ \A b \in Elems(Tail(to_client)) : Before(to_client, Head(to_client), b)
  BY <1>1, ReadFacts
<1>8. /\ Head(to_client) \in OkFor(client.cid) /\ Has(to_client, OkFor(client.cid))
      /\ Head(to_client) \notin Requests
      /\ \A x : Head(to_client) \notin The("FallbackOk", x) /\ Head(to_client) \notin The("FallbackToTcp", x)
      /\ \A x : Head(to_client) \notin The("SwitchToUdp", x) /\ Head(to_client) \notin The("SwitchOk", x)
  BY <1>7 DEF OkFor, Of, Has, Requests, The
<1>9. ~Awaiting /\ ~Upgrading /\ Upgrading' /\ ~Awaiting' /\ client.active_transport = "Tcp"
  BY <1>1, <1>5 DEF ClientInv, AttemptHasTransport, Upgrading, Awaiting, ClientRecord
<1>10. TypeOK'
  BY <1>1, <1>5, <1>6, <1>7 DEF TypeOK
<1>11. ClientInv'
  BY <1>1, <1>4, <1>5, <1>6, <1>9 DEF ClientInv, AttemptHasTransport, Upgrading, Awaiting, SameRest
<1>12. ServerInv'
  BY DEF Inv, ServerInv, StaleAttemptStaysStale, IsStale, Probed, Traffic
<1>13. DatagramInv'
  <2>0. \A n \in Nat : n <= used.upgrade => n <= used'.upgrade
    BY <1>2, <1>6
  <2>1. \A d \in datagrams : d.id <= used'.upgrade
    BY <1>1, <2>0, InFlightTypes DEF DatagramInv
  <2> QED BY <1>1, <1>4, <1>5, <1>6, <2>1 DEF DatagramInv, Probed
<1>14. DrawnInv'
  <2>0. \A n \in Nat : n <= used.upgrade => n <= used'.upgrade
    BY <1>2, <1>6
  <2>1. \A n \in Messages : Drawn(n) => Drawn(n)'
    BY <1>6, <2>0, MessageTypes DEF Drawn
  <2>2. server.upgrade_id <= used'.upgrade
    BY <1>1, <2>0, Numbers DEF DrawnInv
  <2>3. \A i \in DOMAIN server.stale_upgrade_ids : server.stale_upgrade_ids[i] <= used'.upgrade
    <3>1. \A i \in DOMAIN server.stale_upgrade_ids : server.stale_upgrade_ids[i] \in Nat
      BY <1>1, InFlightTypes, SwitchAssumption DEF UpgradeId
    <3> QED BY <1>1, <2>0, <3>1 DEF DrawnInv
  <2> QED BY <1>1, <1>5, <1>6, <1>7, <2>1, <2>2, <2>3, InFlightTypes DEF DrawnInv, SameRest
<1>15. ArrivalInv' /\ SwitchInv'
  BY DEF Inv, ArrivalInv, SwitchInv, AtMostOne
<1>16. ReadyInv'
  BY DEF Inv, ReadyInv, LiveReady, Probed, Readied, Matching, IsStale
<1>17. TrafficInv'
  BY <1>1, <1>5, <1>6, <1>8 DEF TrafficInv, Traffic
<1>18. CountInv'
  <2>1. /\ One(client.registration # None) = 1 /\ One(client'.registration # None) = 0
        /\ One(client.udp_state = "Active") = 0 /\ One(client'.udp_state = "Active") = 1
        /\ One(Upgrading \/ Awaiting) = 0 /\ One((Upgrading \/ Awaiting)') = 1
        /\ One((server.udp_session # None)') = One(server.udp_session # None)
    BY <1>5, <1>9 DEF One
  <2>2. Charged' = Charged /\ Charged \in Nat
    <3>1. Charged = used.fallback + 0 + 0 + 2 * 1 + One(server.udp_session # None)
      BY <2>1 DEF Charged
    <3>2. Charged' = used.fallback + 1 + 1 + 2 * 0 + One(server.udp_session # None)
      BY <1>6, <2>1 DEF Charged
    <3>3. One(server.udp_session # None) \in Nat
      BY <1>2
    <3> QED BY SMTT(60), <1>2, <3>1, <3>2, <3>3
  <2>3. used'.upgrade + One(client'.registration # None) <= used'.key + used'.retry
    BY <1>1, <1>2, <1>6, <2>1 DEF CountInv
  <2> QED BY <1>1, <1>6, <2>2, <2>3 DEF CountInv
<1>19. ASSUME tcp_up' PROVE Link'
  <2>1. Link /\ tcp_up
    BY <1>19 DEF Inv
  <2>2. BothConnected'
    BY <1>5, <2>1 DEF Link, BothConnected, SameRest
  <2>3. RegisterLink'
    <3>1. \A m \in Elems(to_server) : m \in RegOf(used.key) => RegisterFailCodes(m)' = {}
      BY <1>8, <2>1 DEF Link, RegisterLink, RegisterFailCodes
    <3> QED BY <1>5, <1>6, <1>8, <2>1, <3>1 DEF Link, RegisterLink, SameRest
  <2>4. ~Has(to_client', Requests)
    BY <1>7, <1>8, <2>1 DEF Link, ServerFallbackLink, Ordered, Has
  <2>5. \A X : Has(to_client', X) => Has(to_client, X)
    BY <1>7 DEF Has
  <2>6. \A X : Head(to_client) \notin X /\ Has(to_client, X) => Has(to_client', X)
    BY <1>7 DEF Has
  <2>7. ClientFallbackLink'
    <3>1. \A Z : Preceded(to_client', The("SwitchToUdp", id), Z)
      BY <1>4, <2>5, AbsentIsOrdered
    <3> QED BY <1>4, <1>5, <1>8, <1>9, <2>1, <2>5, <2>6, <3>1
            DEF Link, ClientFallbackLink, SameRest, Readied, Ordered
  <2>8. ServerFallbackLink'
    <3>1. \A a, b : Before(to_client', a, b) => a \in Elems(to_client') /\ b \in Elems(to_client')
      BY BeforeElems
    <3>2. \A m \in Elems(to_client') : m \notin Requests
      BY <2>4 DEF Has
    <3>3. AtMostOne(to_client', Requests) /\ \A Y : Ordered(to_client', Requests, Y)
      BY <3>1, <3>2 DEF AtMostOne, Ordered
    <3> QED BY <1>5, <1>8, <2>1, <2>4, <2>6, <3>2, <3>3 DEF Link, ServerFallbackLink
  <2>9. AttemptLink'
    BY <1>4, <1>5, <1>7, <2>1, <2>5 DEF Link, AttemptLink, Upgrading, Readied, IsStale
  <2>10. CommitLink'
    BY <1>5, <1>9, <2>1 DEF Link, CommitLink, Committed
  <2> QED BY <2>2, <2>3, <2>7, <2>8, <2>9, <2>10 DEF Link
<1> QED BY <1>10, <1>11, <1>12, <1>13, <1>14, <1>15, <1>16, <1>17, <1>18, <1>19 DEF Inv

LEMMA RegisterOkKeepsInv ==
    ASSUME Inv, handle_register_ok
    PROVE  Inv'
<1> DEFINE expected == client.udp_state = "Pending" /\ client.registration # None
<1>1. to_client # <<>> /\ Head(to_client).type = "RegisterOk"
  BY DEF handle_register_ok, ClientReads
<1>2. CASE /\ ~expected /\ to_client' = Tail(to_client)
           /\ UNCHANGED <<client, used, server, tcp_up, to_server, datagrams>>
  <2>1. Skips
    BY <1>1, <1>2 DEF Skips, Requests, Of, The
  <2> QED BY <1>2, <2>1, ClientIgnoresKeepsInv
<1>3. CASE ClientEnds("ProtocolError")
  BY <1>3, ClientEndsKeepsInv DEF Exit
<1>4. CASE /\ expected /\ Head(to_client).cid = client.cid
           /\ client' = Registered(client) /\ used' = [used EXCEPT !.upgrade = @ + 1]
           /\ to_client' = Tail(to_client) /\ UNCHANGED <<server, tcp_up, to_server, datagrams>>
  BY <1>1, <1>4, RegisterOkCommits
<1> QED BY <1>2, <1>3, <1>4 DEF handle_register_ok

LEMMA RetryKeepsInv ==
    ASSUME Inv, RetryUpgrade
    PROVE  Inv'
<1> DEFINE id == used.upgrade + 1
<1>1. /\ TypeOK /\ ClientInv /\ DrawnInv /\ DatagramInv /\ CountInv /\ client \in ClientRecord
      /\ client.upgrade = "TcpOnlyBlockedUdp" /\ used.retry < MaxRetries
      /\ client' = start_udp_upgrade_attempt(client)
      /\ UNCHANGED <<server, tcp_up, to_server, to_client, datagrams>>
  BY DEF Inv, TypeOK, RetryUpgrade
<1>2. /\ used.key \in 0..MaxKeys /\ used.retry \in 0..MaxRetries /\ MaxKeys \in Nat /\ MaxRetries \in Nat
      /\ used.key \in Nat /\ used.retry \in Nat /\ used.upgrade \in Nat /\ used.fallback \in Nat
      /\ \A b : One(b) \in Nat
  BY <1>1, Numbers, OneIsNat
<1>3. StartsAttempt(client) /\ client.udp_state = "Active" /\ client.active_transport = "Tcp"
  BY <1>1 DEF StartsAttempt, ClientInv, AttemptHasTransport
<1>4. used' = [used EXCEPT !.upgrade = @ + 1, !.retry = @ + 1]
  BY <1>3 DEF RetryUpgrade
<1>5. id \in UpgradeId /\ id \in 0..(MaxKeys + MaxRetries) /\ used.retry + 1 \in 0..MaxRetries
  <2>1. used.upgrade + One(client.registration # None) <= used.key + used.retry
        /\ One(client.registration # None) \in Nat
    BY <1>1, <1>2 DEF CountInv
  <2>2. used.upgrade <= used.key + used.retry
    BY <1>2, <2>1
  <2> QED BY <1>1, <1>2, <2>2 DEF UpgradeId
<1>6. /\ id # None /\ used.upgrade < id /\ id \in Nat
      /\ ~Has(to_server, The("UdpReady", id)) /\ ~Has(to_server, The("SwitchAck", id))
      /\ ~Has(to_client, The("SwitchToUdp", id))
      /\ \A m \in Elems(to_client) : m \in Of("SwitchOk") => m.id < id
      /\ \A a, b : Before(to_server, a, b) => a \notin The("UdpReady", id)
      /\ server.upgrade_id # id /\ ~IsStale(server, id)
      /\ \A d \in datagrams : d.id # id
  BY FreshAttempt
<1>7. /\ client' \in ClientRecord /\ SameRest(client', client)
      /\ client'.active_transport = "Tcp" /\ client'.udp_state = "Active"
      /\ client'.discovery_task = client.discovery_task /\ client'.registration = client.registration
      /\ client'.transport = client.transport /\ client'.retained = client.retained
      /\ client'.upgrade = "Upgrading" /\ client'.upgrade_id = id /\ ~client'.probe_acked /\ ~client'.ready_sent
  BY <1>1, <1>3, <1>5, StartFields
<1>8. /\ used' \in [cid : 0..MaxCids, key : 0..MaxKeys,
                    upgrade : 0..(MaxKeys + MaxRetries), retry : 0..MaxRetries,
                    fallback : 0..(3 * MaxKeys + MaxRetries)]
      /\ used'.cid = used.cid /\ used'.key = used.key /\ used'.upgrade = id
      /\ used'.retry = used.retry + 1 /\ used'.fallback = used.fallback
  BY <1>1, <1>4, <1>5 DEF TypeOK
<1>9. ~Awaiting /\ ~Upgrading /\ Upgrading' /\ ~Awaiting'
  BY <1>1, <1>7 DEF Upgrading, Awaiting
<1>10. TypeOK'
  BY <1>1, <1>7, <1>8 DEF TypeOK
<1>11. ClientInv'
  BY <1>1, <1>3, <1>6, <1>7, <1>8, <1>9 DEF ClientInv, AttemptHasTransport, Upgrading, Awaiting, SameRest
<1>12. ServerInv'
  BY <1>1 DEF Inv, ServerInv, StaleAttemptStaysStale, IsStale, Probed, Traffic
<1>13. \A n \in Nat : n <= used.upgrade => n <= used'.upgrade
  BY <1>2, <1>8
<1>14. DatagramInv'
  <2>1. \A d \in datagrams : d.id <= used'.upgrade
    BY <1>1, <1>13, InFlightTypes DEF DatagramInv
  <2> QED BY <1>1, <1>6, <1>7, <1>8, <2>1 DEF DatagramInv, Probed
<1>15. DrawnInv'
  <2>1. \A n \in Messages : Drawn(n) => Drawn(n)'
    BY <1>8, <1>13, MessageTypes DEF Drawn
  <2>2. server.upgrade_id <= used'.upgrade
    BY <1>1, <1>13, Numbers DEF DrawnInv
  <2>3. \A i \in DOMAIN server.stale_upgrade_ids : server.stale_upgrade_ids[i] <= used'.upgrade
    <3>1. \A i \in DOMAIN server.stale_upgrade_ids : server.stale_upgrade_ids[i] \in Nat
      BY <1>1, InFlightTypes, SwitchAssumption DEF UpgradeId
    <3> QED BY <1>1, <1>13, <3>1 DEF DrawnInv
  <2> QED BY <1>1, <1>7, <1>8, <2>1, <2>2, <2>3, InFlightTypes DEF DrawnInv, SameRest
<1>16. ArrivalInv' /\ SwitchInv'
  BY <1>1 DEF Inv, ArrivalInv, SwitchInv, AtMostOne
<1>17. ReadyInv'
  BY <1>1 DEF Inv, ReadyInv, LiveReady, Probed, Readied, Matching, IsStale
<1>18. TrafficInv'
  BY <1>1, <1>3, <1>7, <1>8 DEF Inv, TrafficInv, Traffic
<1>19. CountInv'
  <2>1. /\ One(client'.registration # None) = One(client.registration # None)
        /\ One(client.udp_state = "Active") = 1 /\ One(client'.udp_state = "Active") = 1
        /\ One(Upgrading \/ Awaiting) = 0 /\ One((Upgrading \/ Awaiting)') = 1
        /\ One((server.udp_session # None)') = One(server.udp_session # None)
    BY <1>1, <1>3, <1>7, <1>9 DEF One
  <2> DEFINE r == One(client.registration # None)
             s == One(server.udp_session # None)
  <2>2. r \in Nat /\ s \in Nat
    BY <1>2
  <2>3. Charged' = Charged + 1 /\ Charged \in Nat
    <3>1. Charged = used.fallback + 1 + 0 + 2 * r + s
      BY <2>1 DEF Charged
    <3>2. Charged' = used.fallback + 1 + 1 + 2 * r + s
      BY <1>8, <2>1 DEF Charged
    <3> HIDE DEF r, s
    <3> QED BY <1>2, <2>2, <3>1, <3>2
  <2>4. used'.upgrade + One(client'.registration # None) <= used'.key + used'.retry
    <3>1. used.upgrade + r <= used.key + used.retry
      BY <1>1 DEF CountInv
    <3>2. One(client'.registration # None) = r
      BY <2>1
    <3> HIDE DEF r
    <3> QED BY <1>2, <1>8, <2>2, <3>1, <3>2
  <2>5. Charged' <= 3 * used'.key + used'.retry
    <3>1. Charged <= 3 * used.key + used.retry
      BY <1>1 DEF CountInv
    <3> QED BY <1>2, <1>8, <2>3, <3>1
  <2>6. ASSUME NEW n \in Elems(to_server'), n \in Regs
        PROVE  Charged' + (used'.key - n.key + 1) <= 3 * used'.key + used'.retry
    <3>1. Charged + (used.key - n.key + 1) <= 3 * used.key + used.retry /\ n.key \in Nat
      BY <1>1, <2>6, MessageTypes DEF CountInv, Regs, Of
    <3> QED BY <1>2, <1>8, <2>3, <3>1
  <2> QED BY <2>4, <2>5, <2>6 DEF CountInv
<1>20. ASSUME tcp_up' PROVE Link'
  <2>1. Link /\ tcp_up
    BY <1>1, <1>20 DEF Inv
  <2>2. BothConnected'
    BY <1>1, <1>7, <2>1 DEF Link, BothConnected, SameRest
  <2>3. RegisterLink'
    <3>1. client.registration = None
      BY <1>1, <1>3 DEF ClientInv
    <3> QED BY <1>1, <1>3, <1>7, <1>8, <2>1, <3>1 DEF Link, RegisterLink, SameRest, RegisterFailCodes
  <2>4. ClientFallbackLink'
    <3>1. \A Z : Preceded(to_client, The("SwitchToUdp", id), Z)
      BY <1>6, AbsentIsOrdered
    <3> QED BY <1>1, <1>6, <1>7, <1>9, <2>1, <3>1
            DEF Link, ClientFallbackLink, SameRest, Readied, Ordered
  <2>5. ServerFallbackLink'
    BY <1>1, <1>3, <1>7, <1>8, <2>1 DEF Link, ServerFallbackLink, AtMostOne
  <2>6. AttemptLink'
    BY <1>1, <1>6, <1>7, <2>1 DEF Link, AttemptLink, Upgrading, Readied, IsStale
  <2>7. CommitLink'
    BY <1>1, <1>3, <1>7, <1>9, <2>1 DEF Link, CommitLink, Committed
  <2> QED BY <2>2, <2>3, <2>4, <2>5, <2>6, <2>7 DEF Link
<1> QED BY <1>10, <1>11, <1>12, <1>14, <1>15, <1>16, <1>17, <1>18, <1>19, <1>20 DEF Inv

-----------------------------------------------------------------------------
(* The client: the upgrade handshake                                       *)

\* The first acknowledgement of the probes of an attempt: UDP_READY is sent.
LEMMA ProbeAckedKeepsInv ==
    ASSUME Inv, NEW d \in datagrams, d.type = "UpgradeProbeAck", d.key = ReceiveTransport(client),
           Upgrading, d.id = client.upgrade_id, ~client.ready_sent,
           client' = [client EXCEPT !.probe_acked = TRUE, !.ready_sent = TRUE, !.authenticated = TRUE],
           to_server' = Written(to_server, Msg("UdpReady", d.id)),
           UNCHANGED <<server, tcp_up, to_client, datagrams, used>>
    PROVE  Inv'
<1> DEFINE id == client.upgrade_id
<1>1. /\ TypeOK /\ ClientInv /\ DrawnInv /\ DatagramInv /\ ReadyInv /\ ArrivalInv /\ client \in ClientRecord
      /\ to_server \in Seq(Messages) /\ tcp_up \in BOOLEAN
  BY DEF Inv, TypeOK
<1>2. /\ client.udp_state = "Active" /\ client.active_transport = "Tcp" /\ id # None
      /\ id = used.upgrade /\ client.transport = used.key /\ used.key # None /\ ~Awaiting
      /\ d.key = used.key /\ Probed(used.key, id)
  BY <1>1 DEF ClientInv, AttemptHasTransport, Upgrading, Awaiting, ReceiveTransport, DatagramInv
<1>3. id \in UpgradeId /\ used.key \in Key /\ used.upgrade \in Nat
  BY <1>1, <1>2, Numbers DEF ClientRecord
<1>4. client' \in ClientRecord
  <2> DEFINE b1 == [client EXCEPT !.probe_acked = TRUE]
             b2 == [b1 EXCEPT !.ready_sent = TRUE]
  <2>1. client' = [b2 EXCEPT !.authenticated = TRUE]
    OBVIOUS
  <2>2. b1 \in ClientRecord
    BY <1>1, SetClient
  <2> HIDE DEF b1
  <2>3. b2 \in ClientRecord
    BY <2>2, SetClient
  <2> HIDE DEF b2
  <2> QED BY <2>1, <2>3, SetClient
<1>5. /\ SameRest(client', client)
      /\ client'.active_transport = client.active_transport /\ client'.udp_state = client.udp_state
      /\ client'.cid = client.cid /\ client'.registration = client.registration
      /\ client'.transport = client.transport /\ client'.retained = client.retained
      /\ client'.upgrade = client.upgrade /\ client'.upgrade_id = client.upgrade_id
  BY <1>1 DEF ClientRecord, SameRest
<1>6. client'.authenticated /\ client'.probe_acked /\ client'.ready_sent /\ client'.discovery_task = client.discovery_task
  BY <1>1 DEF ClientRecord
<1>7. PICK m \in Messages : m = Msg("UdpReady", id) /\ m.type = "UdpReady" /\ m.id = id
  BY <1>3, NewMessages
<1>8. /\ to_server' \in Seq(Messages)
      /\ Elems(to_server) \subseteq Elems(to_server') /\ Elems(to_server') \subseteq Elems(to_server) \cup {m}
      /\ ~tcp_up => to_server' = to_server
      /\ \A a, b : Before(to_server', a, b) => Before(to_server, a, b) \/ (a \in Elems(to_server) /\ b = m)
      /\ \A Y, Z : Preceded(to_server, Y, Z) /\ (m \in Y => Has(to_server, Z)) => Preceded(to_server', Y, Z)
      /\ \A X, Z : m \notin X /\ Followed(to_server, X, Z) => Followed(to_server', X, Z)
      /\ \A X, Y, Z : Between(to_server, X, Y, Z) /\ m \notin Y => Between(to_server', X, Y, Z)
  <2>1. to_server' = Written(to_server, m)
    BY <1>7
  <2>2. ~tcp_up => to_server' = to_server
    BY <2>1 DEF Written
  <2> QED BY <1>1, <2>1, <2>2, WrittenFacts
<1>9. /\ m \in Of("UdpReady") /\ m \notin Regs /\ m \notin Requests /\ m \notin Of("SwitchAck")
      /\ \A x : m \notin RegOf(x) /\ m \notin The("SwitchAck", x) /\ m \notin The("FallbackOk", x)
                /\ m \notin The("FallbackToTcp", x) /\ (m \in The("UdpReady", x) => x = id)
  BY <1>7 DEF Regs, RegOf, Of, Requests, The
<1>10. \A X : m \notin X => (Has(to_server', X) <=> Has(to_server, X))
  BY <1>8 DEF Has
<1>11. TypeOK'
  BY <1>1, <1>4, <1>8 DEF TypeOK
<1>12. ClientInv'
  BY <1>1, <1>2, <1>5, <1>6 DEF ClientInv, AttemptHasTransport, Upgrading, Awaiting, SameRest
<1>13. ServerInv'
  BY DEF Inv, ServerInv, StaleAttemptStaysStale, IsStale, Probed, Traffic
<1>14. DatagramInv'
  BY <1>1, <1>5 DEF DatagramInv, Probed
<1>15. DrawnInv'
  <2>1. Drawn(m)'
    BY <1>2, <1>3, <1>7 DEF Drawn
  <2> QED BY <1>1, <1>5, <1>8, <2>1 DEF DrawnInv, Drawn, SameRest
<1>16. tcp_up => Link
  BY DEF Inv
<1>17. /\ tcp_up => \A n \in Elems(to_server) : n \in Of("UdpReady") \/ n \in Of("SwitchAck") => n.id < id
       /\ tcp_up => \A n \in Elems(to_client) : n \in Of("SwitchToUdp") => n.id < id
  <2>1. ASSUME tcp_up
        PROVE  /\ \A n \in Elems(to_server) : n \in Of("UdpReady") \/ n \in Of("SwitchAck") => n.id # id
               /\ \A n \in Elems(to_client) : n \in Of("SwitchToUdp") => n.id # id
    BY <1>16, <2>1 DEF Link, AttemptLink, Has, The, Of
  <2>2. \A n \in Messages : Drawn(n) /\ n.type \in {"UdpReady", "SwitchToUdp", "SwitchAck"} /\ n.id # id => n.id < id
    BY <1>2, <1>3, MessageTypes DEF Drawn
  <2> QED BY <1>1, <2>1, <2>2, InFlightTypes DEF DrawnInv, Of
<1>18. ArrivalInv'
  BY <1>1, <1>7, <1>8, <1>9, <1>17 DEF ArrivalInv, AtMostOne
<1>19. ReadyInv'
  <2>1. LiveReady' = LiveReady
    BY <1>9, <1>10 DEF LiveReady, Probed
  <2>2. CASE ~tcp_up
    <3>1. to_server' = to_server
      BY <1>8, <2>2
    <3> QED BY <1>1, <2>1, <3>1 DEF ReadyInv, Probed, Readied, Matching, IsStale
  <2>3. CASE tcp_up
    <3>1. server.ready_seen => server.upgrade_id < id
      <4>1. server.ready_seen => server.upgrade_id # id
        BY <1>16, <2>3 DEF Link, AttemptLink, Readied
      <4>2. server.upgrade_id <= id /\ server.upgrade_id \in Nat /\ id \in Nat
        BY <1>1, <1>2, <1>3, Numbers DEF DrawnInv
      <4> QED BY <4>1, <4>2
    <3>2. server.upgrade_id = None => ~IsStale(server, id)
      BY <1>16, <2>3 DEF Link, AttemptLink
    <3>3. m \in LiveReady /\ server.pending_tcp_fallback # None =>
             Has(to_server, The("FallbackOk", server.pending_tcp_fallback))
      <4>1. m \in LiveReady => server.udp_session = used.key \/ Has(to_server, RegOf(used.key))
        BY <1>1, <1>7 DEF LiveReady, Probed, DatagramInv
      <4>2. Has(to_client, The("FallbackToTcp", server.pending_tcp_fallback)) => Has(to_client, Requests)
        BY DEF Has, The, Requests, Of
      <4> QED BY <1>2, <1>16, <2>3, <4>1, <4>2 DEF Link, ServerFallbackLink
    <3>4. \A a \in Elems(to_server) : a \in Of("SwitchAck") => a.id < id
      BY <1>17, <2>3
    <3>5. server.pending_tcp_fallback # None =>
             Preceded(to_server', LiveReady, The("FallbackOk", server.pending_tcp_fallback))
      BY <1>1, <1>8, <3>3 DEF ReadyInv
    <3>6. ASSUME NEW n \in Elems(to_server'), n \in Of("UdpReady")
          PROVE  /\ \E k \in Key : Probed(k, n.id)'
                 /\ server.ready_seen => server.upgrade_id < n.id
                 /\ \A a \in Elems(to_server') : a \in Of("SwitchAck") => a.id < n.id
                 /\ server.upgrade_id = None => ~IsStale(server, n.id)
      <4>1. CASE n = m
        BY <1>2, <1>3, <1>7, <1>8, <1>9, <3>1, <3>2, <3>4, <4>1 DEF Probed
      <4>2. CASE n \in Elems(to_server)
        BY <1>1, <1>8, <1>9, <3>6, <4>2 DEF ReadyInv, Probed
      <4> QED BY <1>8, <4>1, <4>2
    <3>7. \A n \in Elems(to_server') : n \in Of("SwitchAck") => n \in Elems(to_server)
      BY <1>8, <1>9
    <3> QED BY <1>1, <2>1, <3>5, <3>6, <3>7 DEF ReadyInv, Readied, Matching, IsStale
  <2> QED BY <1>1, <2>2, <2>3
<1>20. SwitchInv'
  BY <1>8, <1>9 DEF Inv, SwitchInv
<1>21. TrafficInv'
  <2>1. \A n \in Elems(to_server') : n \in Regs => n \in Elems(to_server)
    BY <1>8, <1>9
  <2> QED BY <1>5, <1>9, <1>10, <2>1 DEF Inv, TrafficInv, Traffic
<1>22. CountInv'
  <2>1. Charged \in Nat /\ Charged' \in Nat /\ Charged' <= Charged
    BY <1>1, <1>5, NoCharge DEF Upgrading, Awaiting
  <2>2. \A n \in Elems(to_server') : n \in Regs => n \in Elems(to_server)
    BY <1>8, <1>9
  <2> QED BY <1>1, <1>5, <2>1, <2>2, CountKept DEF Inv
<1>23. ASSUME tcp_up' PROVE Link'
  <2>1. Link /\ tcp_up
    BY <1>16, <1>23
  <2>2. BothConnected'
    BY <1>5, <2>1 DEF Link, BothConnected, SameRest
  <2>3. RegisterLink'
    BY <1>2, <1>5, <1>8, <1>9, <1>10, <2>1 DEF Link, RegisterLink, SameRest, RegisterFailCodes, RegOf
  <2>4. ClientFallbackLink'
    BY <1>5, <1>8, <1>9, <1>10, <1>17, <2>1, BeforeElems
       DEF Link, ClientFallbackLink, SameRest, Upgrading, Awaiting, Readied, Ordered
  <2>5. ServerFallbackLink'
    BY <1>5, <1>9, <1>10, <2>1 DEF Link, ServerFallbackLink, Ordered, AtMostOne
  <2>6. AttemptLink'
    BY <1>2, <1>3, <1>5, <1>6, <1>7, <1>8, <1>9, <1>10, <1>17, <2>1 DEF Link, AttemptLink, Upgrading, Readied, IsStale
  <2>7. CommitLink'
    BY <1>5, <1>8, <1>9, <1>10, <2>1 DEF Link, CommitLink, Committed, Awaiting
  <2> QED BY <2>2, <2>3, <2>4, <2>5, <2>6, <2>7 DEF Link
<1> QED BY <1>11, <1>12, <1>13, <1>14, <1>15, <1>18, <1>19, <1>20, <1>21, <1>22, <1>23 DEF Inv

LEMMA ClientReadsUdpKeepsInv ==
    ASSUME Inv, NEW d \in datagrams, ClientReadsUdp(d)
    PROVE  Inv'
<1>1. CASE d.type = "Ping" /\ ClientOnly([client EXCEPT !.authenticated = TRUE])
  BY <1>1, ClientHearsKeepsInv
<1>2. CASE d.type = "UpgradeProbeAck" /\ handle_upgrade_probe_ack(d)
  <2> DEFINE matches == client.upgrade = "Upgrading" /\ d.id = client.upgrade_id
  <2>1. /\ client \in ClientRecord /\ ClientInv
        /\ client' = [client EXCEPT !.probe_acked = @ \/ matches, !.ready_sent = @ \/ matches, !.authenticated = TRUE]
        /\ to_server' = IF matches /\ ~client.ready_sent
                        THEN Written(to_server, Msg("UdpReady", d.id)) ELSE to_server
        /\ UNCHANGED <<server, tcp_up, to_client, datagrams, used>>
    BY <1>2 DEF handle_upgrade_probe_ack, Inv, TypeOK
  <2>2. CASE matches /\ ~client.ready_sent
    <3>1. client' = [client EXCEPT !.probe_acked = TRUE, !.ready_sent = TRUE, !.authenticated = TRUE]
      BY <2>1, <2>2
    <3>2. d.key = ReceiveTransport(client)
      BY DEF ClientReadsUdp
    <3> QED BY <1>2, <2>1, <2>2, <3>1, <3>2, ProbeAckedKeepsInv DEF Upgrading
  <2>3. CASE ~(matches /\ ~client.ready_sent)
    <3>1. (client.probe_acked \/ matches) = client.probe_acked /\ (client.ready_sent \/ matches) = client.ready_sent
      BY <2>1, <2>3 DEF ClientInv, ClientRecord
    <3>2. client' = [client EXCEPT !.authenticated = TRUE]
      <4>1. client' = [client EXCEPT !.probe_acked = client.probe_acked, !.ready_sent = client.ready_sent,
                                     !.authenticated = TRUE]
        BY <2>1, <3>1
      <4> QED BY ZenonT(120), <2>1, <4>1 DEF ClientRecord
    <3> QED BY <2>1, <2>3, <3>2, ClientHearsKeepsInv DEF ClientOnly
  <2> QED BY <2>2, <2>3
<1> QED BY <1>1, <1>2 DEF ClientReadsUdp

\* SWITCH_TO_UDP of the attempt in progress: the client acknowledges it and waits.
LEMMA SwitchAcknowledgedKeepsInv ==
    ASSUME Inv, to_client # <<>>, Head(to_client).type = "SwitchToUdp",
           Upgrading, Head(to_client).id = client.upgrade_id, client.probe_acked,
           client' = [WithoutAttempt(client, "AwaitingSwitchOk") EXCEPT !.upgrade_id = client.upgrade_id],
           to_server' = Written(to_server, Msg("SwitchAck", client.upgrade_id)),
           to_client' = Tail(to_client), UNCHANGED <<server, tcp_up, datagrams, used>>
    PROVE  Inv'
<1> DEFINE id == client.upgrade_id
           h == Head(to_client)
<1>1. /\ TypeOK /\ ClientInv /\ DrawnInv /\ DatagramInv /\ ReadyInv /\ ArrivalInv /\ client \in ClientRecord
      /\ to_server \in Seq(Messages) /\ to_client \in Seq(Messages) /\ tcp_up \in BOOLEAN
  BY DEF Inv, TypeOK
<1>2. /\ client.udp_state = "Active" /\ client.active_transport = "Tcp" /\ id # None
      /\ id = used.upgrade /\ ~Awaiting /\ client.authenticated /\ client.registration = None
  BY <1>1 DEF ClientInv, AttemptHasTransport, Upgrading, Awaiting
<1>3. id \in UpgradeId /\ used.upgrade \in Nat
  BY <1>1, <1>2, Numbers DEF ClientRecord
<1>4. /\ client' \in ClientRecord /\ SameRest(client', client)
      /\ client'.active_transport = client.active_transport /\ client'.udp_state = client.udp_state
      /\ client'.cid = client.cid /\ client'.registration = client.registration
      /\ client'.transport = client.transport /\ client'.retained = client.retained
      /\ client'.upgrade = "AwaitingSwitchOk" /\ client'.upgrade_id = id
      /\ client'.authenticated = client.authenticated /\ ~client'.probe_acked
      /\ ~client'.ready_sent /\ client'.discovery_task = client.discovery_task
  <2> DEFINE w == WithoutAttempt(client, "AwaitingSwitchOk")
  <2>1. /\ w \in ClientRecord /\ SameRest(w, client)
        /\ w.active_transport = client.active_transport /\ w.udp_state = client.udp_state
        /\ w.discovery_task = client.discovery_task /\ w.cid = client.cid
        /\ w.registration = client.registration /\ w.transport = client.transport
        /\ w.retained = client.retained /\ w.authenticated = client.authenticated
        /\ w.upgrade = "AwaitingSwitchOk" /\ ~w.probe_acked /\ ~w.ready_sent
    BY <1>1, WithoutAttemptFields
  <2>2. client' = [w EXCEPT !.upgrade_id = id]
    OBVIOUS
  <2> HIDE DEF w, id
  <2>3. client' \in ClientRecord
    <3>1. \A v \in UpgradeId \cup {None} : [w EXCEPT !.upgrade_id = v] \in ClientRecord
      BY <2>1, SetClient
    <3> QED BY <1>3, <2>2, <3>1
  <2>4. SameRest(client', w)
    BY <2>1, <2>2 DEF ClientRecord, SameRest
  <2>5. /\ client'.active_transport = w.active_transport /\ client'.udp_state = w.udp_state
        /\ client'.cid = w.cid /\ client'.registration = w.registration
        /\ client'.transport = w.transport /\ client'.retained = w.retained
        /\ client'.upgrade = w.upgrade /\ client'.upgrade_id = id
    BY <2>1, <2>2 DEF ClientRecord
  <2>6. /\ client'.authenticated = w.authenticated /\ client'.probe_acked = w.probe_acked
        /\ client'.ready_sent = w.ready_sent /\ client'.discovery_task = w.discovery_task
    BY <2>1, <2>2 DEF ClientRecord
  <2> QED BY <2>1, <2>3, <2>4, <2>5, <2>6 DEF SameRest
<1>5. ~Upgrading' /\ Awaiting'
  BY <1>4 DEF Upgrading, Awaiting
<1>6. PICK m \in Messages : m = Msg("SwitchAck", id) /\ m.type = "SwitchAck" /\ m.id = id
  BY <1>3, NewMessages
<1>7. /\ to_server' \in Seq(Messages)
      /\ Elems(to_server) \subseteq Elems(to_server') /\ Elems(to_server') \subseteq Elems(to_server) \cup {m}
      /\ ~tcp_up => to_server' = to_server
      /\ \A a, b : Before(to_server', a, b) => Before(to_server, a, b) \/ (a \in Elems(to_server) /\ b = m)
      /\ \A Y, Z : Preceded(to_server, Y, Z) /\ m \notin Y => Preceded(to_server', Y, Z)
      /\ \A X, Z : m \notin X /\ Followed(to_server, X, Z) => Followed(to_server', X, Z)
      /\ \A X, Y, Z : Between(to_server, X, Y, Z) /\ m \notin Y => Between(to_server', X, Y, Z)
  <2>1. to_server' = Written(to_server, m)
    BY <1>6
  <2>2. ~tcp_up => to_server' = to_server
    BY <2>1 DEF Written
  <2>3. to_server \in Seq(Messages) /\ tcp_up \in BOOLEAN
    BY <1>1
  <2> QED BY <2>1, <2>2, <2>3, WrittenFacts
<1>8. /\ m \in Of("SwitchAck") /\ m \notin Regs /\ m \notin Requests /\ m \notin Of("UdpReady") /\ m \notin LiveReady
      /\ \A x : m \notin RegOf(x) /\ m \notin The("UdpReady", x) /\ m \notin The("FallbackOk", x)
                /\ m \notin The("FallbackToTcp", x) /\ (m \in The("SwitchAck", x) => x = id)
  BY <1>6 DEF Regs, RegOf, Of, Requests, The, LiveReady
<1>9. \A X : m \notin X => (Has(to_server', X) <=> Has(to_server, X))
  BY <1>7 DEF Has
<1>10. /\ h \in Messages /\ to_client' \in Seq(Messages) /\ Elems(to_client) = {h} \cup Elems(to_client')
       /\ \A a, b : Before(to_client', a, b) => Before(to_client, a, b)
       /\ \A Y, Z : Preceded(to_client, Y, Z) => h \notin Y
  BY <1>1, ReadFacts
<1>11. /\ h \in The("SwitchToUdp", id) /\ h \in Of("SwitchToUdp") /\ h \notin Requests
       /\ \A x : h \notin The("FallbackOk", x) /\ h \notin The("FallbackToTcp", x) /\ h \notin The("SwitchOk", x)
                 /\ h \notin OkFor(x)
  BY <1>10 DEF OkFor, Of, Requests, The
<1>12. /\ \A X : Has(to_client', X) => Has(to_client, X)
       /\ \A X : h \notin X /\ Has(to_client, X) => Has(to_client', X)
  BY <1>10 DEF Has
<1> HIDE DEF h
<1>13. TypeOK'
  BY <1>1, <1>4, <1>7, <1>10 DEF TypeOK
<1>14. ClientInv'
  BY ZenonT(120), <1>1, <1>2, <1>4, <1>5 DEF ClientInv, AttemptHasTransport, Upgrading, Awaiting, SameRest
<1>15. ServerInv'
  BY DEF Inv, ServerInv, StaleAttemptStaysStale, IsStale, Probed, Traffic
<1>16. DatagramInv'
  BY <1>1, <1>4 DEF DatagramInv, Probed
<1>17. DrawnInv'
  <2>1. Drawn(m)'
    BY <1>2, <1>3, <1>6 DEF Drawn
  <2> QED BY <1>1, <1>4, <1>7, <1>10, <2>1 DEF DrawnInv, Drawn, SameRest
<1>18. tcp_up => Link
  BY DEF Inv
<1>19. ArrivalInv'
  BY <1>1, <1>7, <1>8 DEF ArrivalInv, AtMostOne
<1>20. ReadyInv'
  <2>1. LiveReady' = LiveReady
    BY <1>8, <1>9 DEF LiveReady, Probed
  <2>2. CASE ~tcp_up
    <3>1. to_server' = to_server
      BY <1>7, <2>2
    <3> QED BY <1>1, <2>1, <3>1 DEF ReadyInv, Probed, Readied, Matching, IsStale
  <2>3. CASE tcp_up
    <3>1. \A n \in Elems(to_server) : n \in Of("UdpReady") => id < n.id
      BY <1>10, <1>11, <1>18, <2>3 DEF Link, AttemptLink, The
    <3>2. Readied(id) => server.switch_to_udp_sent
      BY <1>10, <1>11, <1>18, <2>3 DEF Link, AttemptLink, The
    <3>3. \A n \in DOMAIN server.stale_upgrade_ids : server.stale_upgrade_ids[n] <= id
      BY <1>1, <1>2 DEF DrawnInv
    <3>4. server.pending_tcp_fallback # None =>
             Preceded(to_server', LiveReady, The("FallbackOk", server.pending_tcp_fallback))
      BY <1>1, <1>7, <1>8 DEF ReadyInv
    <3>5. \A n \in Elems(to_server') : n \in Of("UdpReady") =>
              /\ \E k \in Key : Probed(k, n.id)'
              /\ server.ready_seen => server.upgrade_id < n.id
              /\ \A a \in Elems(to_server') : a \in Of("SwitchAck") => a.id < n.id
              /\ server.upgrade_id = None => ~IsStale(server, n.id)
      BY <1>1, <1>6, <1>7, <1>8, <3>1 DEF ReadyInv, Probed
    <3>6. \A n \in Elems(to_server') : n \in Of("SwitchAck") =>
              /\ Readied(n.id) => server.switch_to_udp_sent
              /\ Matching(n.id) =>
                    \A i \in DOMAIN server.stale_upgrade_ids : server.stale_upgrade_ids[i] <= n.id
      BY <1>1, <1>6, <1>7, <3>2, <3>3 DEF ReadyInv
    <3> QED BY <2>1, <3>4, <3>5, <3>6 DEF ReadyInv, Readied, Matching, IsStale
  <2> QED BY <1>1, <2>2, <2>3
<1>21. SwitchInv'
  BY <1>7, <1>8 DEF Inv, SwitchInv
<1>22. TrafficInv'
  <2>1. \A n \in Elems(to_server') : n \in Regs => n \in Elems(to_server)
    BY <1>7, <1>8
  <2> QED BY <1>4, <1>8, <1>9, <1>12, <2>1 DEF Inv, TrafficInv, Traffic
<1>23. CountInv'
  <2>1. Charged \in Nat /\ Charged' \in Nat /\ Charged' <= Charged
    BY <1>1, <1>4, NoCharge
  <2>2. \A n \in Elems(to_server') : n \in Regs => n \in Elems(to_server)
    BY <1>7, <1>8
  <2> QED BY <1>1, <1>4, <2>1, <2>2, CountKept DEF Inv
<1>24. ASSUME tcp_up' PROVE Link'
  <2>1. Link /\ tcp_up
    BY <1>18, <1>24
  <2>2. BothConnected'
    BY <1>4, <2>1 DEF Link, BothConnected, SameRest
  <2>3. RegisterLink'
    BY ZenonT(120), <1>2, <1>4, <1>7, <1>8, <1>9, <2>1 DEF Link, RegisterLink, SameRest, RegisterFailCodes, RegOf
  <2>4. client.pending_tcp_fallback = None
    BY <1>10, <1>11, <2>1 DEF Link, ClientFallbackLink
  <2>5. ClientFallbackLink'
    BY <1>4, <1>5, <1>7, <1>8, <2>1, <2>4 DEF Link, ClientFallbackLink, SameRest
  <2>6. ServerFallbackLink'
    BY <1>2, <1>4, <1>8, <1>9, <1>10, <1>11, <1>12, <2>1 DEF Link, ServerFallbackLink, Ordered, AtMostOne
  <2>7. AttemptLink'
    BY <1>5, <1>7, <1>8, <1>9, <1>10, <2>1 DEF Link, AttemptLink, Readied
  <2>8. CommitLink'
    <3>1. ~Has(to_client', The("SwitchOk", id))
      <4>1. \A n \in Elems(to_client) : n \in Of("SwitchOk") => n.id < id
        BY <2>1 DEF Link, AttemptLink
      <4> QED BY <1>2, <1>3, <1>10, <4>1 DEF Has, The, Of
    <3>2. ~Committed' /\ ~Committed
      BY <1>2, <1>4, <3>1 DEF Committed
    <3> QED BY <1>2, <1>4, <1>5, <1>7, <1>8, <1>9, <2>1, <3>2 DEF Link, CommitLink
  <2> QED BY <2>2, <2>3, <2>5, <2>6, <2>7, <2>8 DEF Link
<1> QED BY <1>13, <1>14, <1>15, <1>16, <1>17, <1>19, <1>20, <1>21, <1>22, <1>23, <1>24 DEF Inv

LEMMA SwitchToUdpKeepsInv ==
    ASSUME Inv, handle_switch_to_udp
    PROVE  Inv'
<1> DEFINE id == Head(to_client).id
           accepted == /\ client.upgrade = "Upgrading" /\ client.upgrade_id = id
                       /\ client.probe_acked /\ client.ready_sent
<1>1. /\ to_client # <<>> /\ Head(to_client).type = "SwitchToUdp"
      /\ client' = IF accepted
                   THEN [WithoutAttempt(client, "AwaitingSwitchOk") EXCEPT !.upgrade_id = id]
                   ELSE client
      /\ to_server' = IF accepted THEN Written(to_server, Msg("SwitchAck", id)) ELSE to_server
      /\ to_client' = Tail(to_client) /\ UNCHANGED <<server, tcp_up, datagrams, used>>
  BY DEF handle_switch_to_udp, ClientReads
<1>2. CASE accepted
  BY <1>1, <1>2, SwitchAcknowledgedKeepsInv DEF Upgrading
<1>3. CASE ~accepted
  <2>1. Skips
    BY <1>1 DEF Skips, Requests, Of, The
  <2> QED BY <1>1, <1>3, <2>1, ClientIgnoresKeepsInv
<1> QED BY <1>2, <1>3

\* SWITCH_OK of the attempt in progress: the client prefers UDP-QSP.
LEMMA SwitchConfirmedKeepsInv ==
    ASSUME Inv, to_client # <<>>, Head(to_client).type = "SwitchOk",
           Awaiting, Head(to_client).id = client.upgrade_id,
           client' = [WithoutAttempt(client, "Idle") EXCEPT
                         !.active_transport = "UdpQsp", !.pending_tcp_fallback = None],
           to_client' = Tail(to_client), UNCHANGED <<server, tcp_up, to_server, datagrams, used>>
    PROVE  Inv'
<1> DEFINE id == client.upgrade_id
           h == Head(to_client)
<1>1. /\ TypeOK /\ ClientInv /\ ServerInv /\ DrawnInv /\ DatagramInv /\ client \in ClientRecord
      /\ to_client \in Seq(Messages)
  BY DEF Inv, TypeOK
<1>2. /\ client.udp_state = "Active" /\ client.active_transport = "Tcp" /\ id # None
      /\ ~Upgrading /\ client.authenticated /\ client.registration = None
      /\ client.upgrade # "Disabled"
  BY <1>1 DEF ClientInv, AttemptHasTransport, Upgrading, Awaiting
<1>3. /\ client' \in ClientRecord
      /\ client'.run = client.run /\ client'.tcp_alive = client.tcp_alive
      /\ client'.require_udp = client.require_udp /\ client'.cipher_policy_auto = client.cipher_policy_auto
      /\ client'.active_transport = "UdpQsp" /\ client'.udp_state = client.udp_state
      /\ client'.cid = client.cid /\ client'.registration = client.registration
      /\ client'.transport = client.transport /\ client'.retained = client.retained
      /\ client'.upgrade = "Idle" /\ client'.upgrade_id = None /\ client'.pending_tcp_fallback = None
      /\ client'.authenticated = client.authenticated /\ ~client'.probe_acked
      /\ ~client'.ready_sent /\ client'.discovery_task = client.discovery_task
  <2> DEFINE w == WithoutAttempt(client, "Idle")
             b == [w EXCEPT !.active_transport = "UdpQsp"]
  <2>1. /\ w \in ClientRecord /\ SameRest(w, client)
        /\ w.active_transport = client.active_transport /\ w.udp_state = client.udp_state
        /\ w.discovery_task = client.discovery_task /\ w.cid = client.cid
        /\ w.registration = client.registration /\ w.transport = client.transport
        /\ w.retained = client.retained /\ w.authenticated = client.authenticated
        /\ w.upgrade = "Idle" /\ w.upgrade_id = None /\ ~w.probe_acked /\ ~w.ready_sent
    BY <1>1, WithoutAttemptFields
  <2>2. client' = [b EXCEPT !.pending_tcp_fallback = None]
    OBVIOUS
  <2> HIDE DEF w
  <2>3. client' \in ClientRecord
    <3>1. b \in ClientRecord
      BY <2>1, SetClient
    <3> HIDE DEF b
    <3>2. \A v \in FallbackId \cup {None} : [b EXCEPT !.pending_tcp_fallback = v] \in ClientRecord
      BY <3>1, SetClient
    <3> QED BY <2>2, <3>2
  <2>4. /\ client'.run = w.run /\ client'.tcp_alive = w.tcp_alive
        /\ client'.require_udp = w.require_udp /\ client'.cipher_policy_auto = w.cipher_policy_auto
    BY <2>1, <2>2 DEF ClientRecord
  <2>5. /\ client'.active_transport = "UdpQsp" /\ client'.udp_state = w.udp_state
        /\ client'.cid = w.cid /\ client'.registration = w.registration
        /\ client'.transport = w.transport /\ client'.retained = w.retained
        /\ client'.upgrade = w.upgrade /\ client'.upgrade_id = w.upgrade_id
        /\ client'.pending_tcp_fallback = None
    BY ZenonT(120), <2>1, <2>2 DEF ClientRecord
  <2>6. /\ client'.authenticated = w.authenticated /\ client'.probe_acked = w.probe_acked
        /\ client'.ready_sent = w.ready_sent /\ client'.discovery_task = w.discovery_task
    BY <2>1, <2>2 DEF ClientRecord
  <2> QED BY <2>1, <2>3, <2>4, <2>5, <2>6 DEF SameRest
<1>4. ~Upgrading' /\ ~Awaiting'
  BY <1>3 DEF Upgrading, Awaiting
<1>5. /\ h \in Messages /\ to_client' \in Seq(Messages) /\ Elems(to_client) = {h} \cup Elems(to_client')
      /\ \A a, b : Before(to_client', a, b) => Before(to_client, a, b)
  BY <1>1, ReadFacts
<1>6. /\ h \in The("SwitchOk", id) /\ h \in Of("SwitchOk") /\ h \notin Requests
      /\ \A x : h \notin The("FallbackOk", x) /\ h \notin The("FallbackToTcp", x) /\ h \notin The("SwitchToUdp", x)
                /\ h \notin OkFor(x)
  BY <1>5 DEF OkFor, Of, Requests, The
<1>7. /\ \A X : Has(to_client', X) => Has(to_client, X)
      /\ \A X : h \notin X /\ Has(to_client, X) => Has(to_client', X)
  BY <1>5 DEF Has
<1> HIDE DEF h
<1>8. TypeOK'
  BY <1>1, <1>3, <1>5 DEF TypeOK
<1>9. ClientInv'
  BY ZenonT(120), <1>1, <1>2, <1>3, <1>4 DEF ClientInv, AttemptHasTransport, Upgrading, Awaiting
<1>10. ServerInv'
  BY <1>1 DEF ServerInv, StaleAttemptStaysStale, IsStale, Probed, Traffic
<1>11. DatagramInv'
  BY <1>1, <1>3 DEF DatagramInv, Probed
<1>12. DrawnInv'
  <2>1. used.fallback \in Nat
    BY <1>1, Numbers
  <2>2. client'.pending_tcp_fallback <= used.fallback
    BY <1>3, <2>1 DEF None
  <2> QED BY <1>1, <1>5, <2>2 DEF DrawnInv, Drawn
<1>13. ArrivalInv' /\ SwitchInv'
  BY DEF Inv, ArrivalInv, SwitchInv, AtMostOne
<1>14. ReadyInv'
  BY DEF Inv, ReadyInv, LiveReady, Probed, Readied, Matching, IsStale
<1>15. TrafficInv'
  BY <1>2, <1>3 DEF Inv, TrafficInv, Traffic
<1>16. CountInv'
  <2>1. Charged \in Nat /\ Charged' \in Nat /\ Charged' <= Charged
    BY <1>1, <1>3, <1>4, NoCharge
  <2> QED BY <1>1, <1>3, <2>1, CountKept DEF Inv
<1>17. ASSUME tcp_up' PROVE Link'
  <2>1. Link /\ tcp_up
    BY <1>17 DEF Inv
  <2>2. BothConnected'
    BY <1>3, <2>1 DEF Link, BothConnected
  <2>3. RegisterLink'
    BY <1>2, <1>3, <2>1 DEF Link, RegisterLink, RegisterFailCodes
  <2>4. client.pending_tcp_fallback = None
    BY <2>1 DEF Link, ClientFallbackLink
  <2>5. ClientFallbackLink'
    BY <1>3, <1>4, <2>1, <2>4 DEF Link, ClientFallbackLink
  <2>6. ServerFallbackLink'
    BY <1>2, <1>3, <1>5, <1>6, <1>7, <2>1 DEF Link, ServerFallbackLink, AtMostOne
  <2>7. AttemptLink'
    BY <1>4, <1>5, <2>1 DEF Link, AttemptLink, Readied
  <2>8. CommitLink'
    <3>1. Committed /\ Committed'
      BY <1>3, <1>5, <1>6 DEF Committed, Has
    <3>2. ~Readied(id)
      BY <1>5, <1>6, <2>1 DEF Link, AttemptLink, The
    <3>3. server.switch_to_udp_sent => server.upgrade_id # id
      BY <1>1, <3>2 DEF ServerInv, Readied
    <3> QED BY <1>4, <2>1, <3>1, <3>3 DEF Link, CommitLink
  <2> QED BY <2>2, <2>3, <2>5, <2>6, <2>7, <2>8 DEF Link
<1> QED BY <1>8, <1>9, <1>10, <1>11, <1>12, <1>13, <1>14, <1>15, <1>16, <1>17 DEF Inv

LEMMA SwitchOkKeepsInv ==
    ASSUME Inv, handle_switch_ok
    PROVE  Inv'
<1>1. to_client # <<>> /\ Head(to_client).type = "SwitchOk" /\ to_client' = Tail(to_client)
      /\ UNCHANGED <<server, tcp_up, to_server, datagrams, used>>
  BY DEF handle_switch_ok, ClientReads
<1>2. CASE Awaiting /\ client.upgrade_id = Head(to_client).id
  BY <1>1, <1>2, SwitchConfirmedKeepsInv DEF handle_switch_ok, Awaiting
<1>3. CASE ~(Awaiting /\ client.upgrade_id = Head(to_client).id)
  <2>1. client' = client
    BY <1>3 DEF handle_switch_ok, Awaiting
  <2>2. Skips
    BY <1>1, <1>3 DEF Skips, Requests, Of, The
  <2> QED BY <1>1, <2>1, <2>2, ClientIgnoresKeepsInv
<1> QED BY <1>2, <1>3

-----------------------------------------------------------------------------
(* The client: fallback                                                    *)

\* The answer to the client's own request.
LEMMA FallbackConfirmedKeepsInv ==
    ASSUME Inv, to_client # <<>>, Head(to_client).type = "FallbackOk",
           client.pending_tcp_fallback = Head(to_client).id,
           client' = [client EXCEPT !.pending_tcp_fallback = None],
           to_client' = Tail(to_client), UNCHANGED <<server, tcp_up, to_server, datagrams, used>>
    PROVE  Inv'
<1> DEFINE id == client.pending_tcp_fallback
           h == Head(to_client)
<1>1. /\ TypeOK /\ ClientInv /\ DrawnInv /\ DatagramInv /\ client \in ClientRecord
      /\ to_client \in Seq(Messages)
  BY DEF Inv, TypeOK
<1>2. client' \in ClientRecord
  <2>1. \A v \in FallbackId \cup {None} : [client EXCEPT !.pending_tcp_fallback = v] \in ClientRecord
    BY <1>1, SetClient
  <2> QED BY <2>1
<1>3. /\ client'.run = client.run /\ client'.tcp_alive = client.tcp_alive
      /\ client'.require_udp = client.require_udp /\ client'.cipher_policy_auto = client.cipher_policy_auto
      /\ client'.active_transport = client.active_transport /\ client'.udp_state = client.udp_state
      /\ client'.cid = client.cid /\ client'.registration = client.registration
      /\ client'.transport = client.transport /\ client'.retained = client.retained
      /\ client'.upgrade = client.upgrade /\ client'.upgrade_id = client.upgrade_id
      /\ client'.pending_tcp_fallback = None
  BY <1>1 DEF ClientRecord
<1>4. /\ client'.authenticated = client.authenticated /\ client'.probe_acked = client.probe_acked
      /\ client'.ready_sent = client.ready_sent /\ client'.discovery_task = client.discovery_task
  BY <1>1 DEF ClientRecord
<1>5. /\ h \in Messages /\ to_client' \in Seq(Messages) /\ Elems(to_client) = {h} \cup Elems(to_client')
      /\ \A a, b : Before(to_client', a, b) => Before(to_client, a, b)
  BY <1>1, ReadFacts
<1>6. /\ h \in The("FallbackOk", id) /\ id # None /\ h \notin Requests
      /\ \A x : h \notin The("FallbackToTcp", x) /\ h \notin The("SwitchToUdp", x) /\ h \notin The("SwitchOk", x)
                /\ h \notin OkFor(x)
  BY <1>5, MessageTypes DEF OkFor, Of, Requests, The
<1>7. /\ \A X : Has(to_client', X) => Has(to_client, X)
      /\ \A X : h \notin X /\ Has(to_client, X) => Has(to_client', X)
  BY <1>5 DEF Has
<1> HIDE DEF h
<1>8. TypeOK'
  BY <1>1, <1>2, <1>5 DEF TypeOK
<1>9. ClientInv'
  BY <1>1, <1>3, <1>4 DEF ClientInv, AttemptHasTransport, Upgrading, Awaiting
<1>10. ServerInv'
  BY DEF Inv, ServerInv, StaleAttemptStaysStale, IsStale, Probed, Traffic
<1>11. DatagramInv'
  BY <1>1, <1>3 DEF DatagramInv, Probed
<1>12. DrawnInv'
  <2>1. used.fallback \in Nat
    BY <1>1, Numbers
  <2>2. client'.pending_tcp_fallback <= used.fallback
    BY <1>3, <2>1 DEF None
  <2> QED BY <1>1, <1>5, <2>2 DEF DrawnInv, Drawn
<1>13. ArrivalInv' /\ SwitchInv'
  BY DEF Inv, ArrivalInv, SwitchInv, AtMostOne
<1>14. ReadyInv'
  BY DEF Inv, ReadyInv, LiveReady, Probed, Readied, Matching, IsStale
<1>15. TrafficInv'
  BY <1>3, <1>7 DEF Inv, TrafficInv, Traffic
<1>16. CountInv'
  <2>1. Charged \in Nat /\ Charged' \in Nat /\ Charged' <= Charged
    BY <1>1, <1>3, NoCharge DEF Upgrading, Awaiting
  <2> QED BY <1>1, <1>3, <2>1, CountKept DEF Inv
<1>17. ASSUME tcp_up' PROVE Link'
  <2>1. Link /\ tcp_up
    BY <1>17 DEF Inv
  <2>2. BothConnected'
    BY <1>3, <2>1 DEF Link, BothConnected
  <2>3. RegisterLink'
    BY <1>3, <1>6, <1>7, <2>1 DEF Link, RegisterLink, RegisterFailCodes
  <2>4. ~Has(to_server, Requests)
    BY <1>5, <1>6, <2>1 DEF Link, ClientFallbackLink, Has
  <2>5. ClientFallbackLink'
    BY <1>3, <2>1, <2>4 DEF Link, ClientFallbackLink, Has, Upgrading, Awaiting, Ordered
  <2>6. ServerFallbackLink'
    BY <1>3, <1>5, <1>6, <1>7, <2>1 DEF Link, ServerFallbackLink, Ordered, AtMostOne
  <2>7. AttemptLink'
    BY <1>3, <1>4, <1>5, <1>7, <2>1 DEF Link, AttemptLink, Upgrading, Readied, IsStale
  <2>8. CommitLink'
    BY <1>3, <1>6, <1>7, <2>1 DEF Link, CommitLink, Committed, Awaiting
  <2> QED BY <2>2, <2>3, <2>5, <2>6, <2>7, <2>8 DEF Link
<1> QED BY <1>8, <1>9, <1>10, <1>11, <1>12, <1>13, <1>14, <1>15, <1>16, <1>17 DEF Inv

LEMMA ClientFallbackOkKeepsInv ==
    ASSUME Inv, handle_fallback_ok
    PROVE  Inv'
<1>1. to_client # <<>> /\ Head(to_client).type = "FallbackOk" /\ to_client' = Tail(to_client)
      /\ UNCHANGED <<server, tcp_up, to_server, datagrams, used>>
  BY DEF handle_fallback_ok, ClientReads
<1>2. CASE client.pending_tcp_fallback = Head(to_client).id
  BY <1>1, <1>2, FallbackConfirmedKeepsInv DEF handle_fallback_ok
<1>3. CASE client.pending_tcp_fallback # Head(to_client).id
  <2>1. client' = client
    BY <1>3 DEF handle_fallback_ok
  <2>2. Skips
    BY <1>1, <1>3 DEF Skips, Requests, Of, The
  <2> QED BY <1>1, <2>1, <2>2, ClientIgnoresKeepsInv
<1> QED BY <1>2, <1>3

\* The server's request is answered; the client has calmed down, if it had to.
LEMMA RequestAnsweredKeepsInv ==
    ASSUME Inv, to_client # <<>>, Head(to_client).type = "FallbackToTcp",
           client' \in ClientRecord, ClientInv', Calmer,
           client'.active_transport = "UdpQsp" => client.active_transport = "UdpQsp",
           to_server' = Written(to_server, Msg("FallbackOk", Head(to_client).id)),
           to_client' = Tail(to_client), UNCHANGED <<server, tcp_up, datagrams, used>>
    PROVE  Inv'
<1> DEFINE h == Head(to_client)
           id == h.id
<1>1. /\ TypeOK /\ ClientInv /\ ServerInv /\ DrawnInv /\ DatagramInv /\ ReadyInv /\ ArrivalInv
      /\ to_server \in Seq(Messages) /\ to_client \in Seq(Messages) /\ tcp_up \in BOOLEAN
  BY DEF Inv, TypeOK
<1>2. /\ h \in Messages /\ to_client' \in Seq(Messages) /\ Elems(to_client) = {h} \cup Elems(to_client')
      /\ \A a, b : Before(to_client', a, b) => Before(to_client, a, b)
      /\ \A b \in Elems(to_client') : Before(to_client, h, b)
      /\ \A Y, Z : Preceded(to_client, Y, Z) /\ h \notin Z => Preceded(to_client', Y, Z)
  BY <1>1, ReadFacts
<1>3. id \in FallbackId /\ id # None
  BY <1>2, MessageTypes
<1>4. /\ h \in Requests /\ h \in The("FallbackToTcp", id)
      /\ \A x : h \notin The("FallbackOk", x) /\ h \notin The("SwitchToUdp", x) /\ h \notin The("SwitchOk", x)
                /\ h \notin OkFor(x)
  BY <1>2 DEF OkFor, Of, Requests, The
<1>5. PICK m \in Messages : m = Msg("FallbackOk", id) /\ m.type = "FallbackOk" /\ m.id = id
  BY <1>3, NewMessages
<1>6. /\ to_server' \in Seq(Messages)
      /\ Elems(to_server) \subseteq Elems(to_server') /\ Elems(to_server') \subseteq Elems(to_server) \cup {m}
      /\ tcp_up => m \in Elems(to_server')
      /\ \A a, b : Before(to_server', a, b) => Before(to_server, a, b) \/ (a \in Elems(to_server) /\ b = m)
      /\ \A Y, Z : Preceded(to_server, Y, Z) /\ m \notin Y => Preceded(to_server', Y, Z)
      /\ \A X, Z : m \notin X /\ Followed(to_server, X, Z) => Followed(to_server', X, Z)
      /\ \A X, Y, Z : Between(to_server, X, Y, Z) /\ m \notin Y => Between(to_server', X, Y, Z)
  <2>1. to_server' = Written(to_server, m)
    BY <1>5
  <2>2. to_server \in Seq(Messages) /\ tcp_up \in BOOLEAN
    BY <1>1
  <2> QED BY <2>1, <2>2, WrittenFacts
<1>7. /\ m \in The("FallbackOk", id) /\ m \notin Regs /\ m \notin Requests /\ m \notin Of("UdpReady")
      /\ m \notin Of("SwitchAck") /\ m \notin LiveReady
      /\ \A x : m \notin RegOf(x) /\ m \notin The("UdpReady", x) /\ m \notin The("SwitchAck", x)
                /\ m \notin The("FallbackToTcp", x)
  BY <1>5 DEF Regs, RegOf, Of, Requests, The, LiveReady
<1>8. /\ \A X : m \notin X => (Has(to_server', X) <=> Has(to_server, X))
      /\ \A X : Has(to_client', X) => Has(to_client, X)
      /\ \A X : h \notin X /\ Has(to_client, X) => Has(to_client', X)
  BY <1>2, <1>6 DEF Has
<1> HIDE DEF h
<1>9. TypeOK'
  BY <1>1, <1>2, <1>6 DEF TypeOK
<1>10. ServerInv'
  BY <1>1 DEF ServerInv, StaleAttemptStaysStale, IsStale, Probed, Traffic
<1>11. DatagramInv'
  <2>1. client'.upgrade_id = None \/ client'.upgrade_id = client.upgrade_id
    BY DEF Calmer, ClientInv, Upgrading, Awaiting
  <2> QED BY <1>1, <2>1 DEF DatagramInv, Probed
<1>12. DrawnInv'
  <2>1. Drawn(m)
    BY <1>1, <1>2, <1>4, <1>5 DEF DrawnInv, Drawn, The
  <2> QED BY <1>1, <1>2, <1>6, <2>1 DEF DrawnInv, Drawn, Calmer
<1>13. ArrivalInv' /\ SwitchInv'
  BY <1>6, <1>7 DEF Inv, ArrivalInv, SwitchInv, AtMostOne
<1>14. ReadyInv'
  <2>1. LiveReady' = LiveReady
    BY <1>7, <1>8 DEF LiveReady, Probed
  <2>2. \A n \in Elems(to_server') : n \in Of("UdpReady") \/ n \in Of("SwitchAck") => n \in Elems(to_server)
    BY <1>6, <1>7
  <2> HIDE DEF LiveReady
  <2> QED BY <1>1, <1>6, <1>7, <2>1, <2>2 DEF ReadyInv, Probed, Readied, Matching, IsStale
<1>15. \A n \in Elems(to_server') : n \in Regs => n \in Elems(to_server)
  BY <1>6, <1>7
<1>16. TrafficInv'
  BY <1>7, <1>8, <1>15 DEF Inv, TrafficInv, Traffic, Calmer
<1>17. CountInv'
  <2>1. Charged \in Nat /\ Charged' \in Nat /\ Charged' <= Charged
    BY <1>1, NoCharge DEF Calmer, Upgrading, Awaiting
  <2> QED BY <1>1, <1>15, <2>1, CountKept DEF Inv, Calmer
<1>18. ASSUME tcp_up' PROVE Link'
  <2>1. Link /\ tcp_up
    BY <1>18 DEF Inv
  <2>2. BothConnected'
    BY <2>1 DEF Link, BothConnected, Calmer
  <2>3. RegisterLink'
    BY <1>7, <1>8, <1>15, <2>1 DEF Link, RegisterLink, Calmer, RegisterFailCodes, ClientInv, RegOf
  <2>4. ClientFallbackLink'
    BY <1>2, <1>4, <1>6, <1>7, <1>8, <2>1 DEF Link, ClientFallbackLink, Calmer, Upgrading, Awaiting, Readied, Ordered
  <2>5. server.pending_tcp_fallback = id /\ \A n \in Elems(to_client') : n \notin Requests
    BY <1>2, <1>4, <2>1 DEF Link, ServerFallbackLink, AtMostOne, The
  <2>6. ServerFallbackLink'
    <3>1. \A a, b : Before(to_client', a, b) => b \in Elems(to_client')
      BY BeforeElems
    <3>2. AtMostOne(to_client', Requests) /\ \A Y : Ordered(to_client', Requests, Y)
      BY <2>5, <3>1 DEF AtMostOne, Ordered
    <3>3. Has(to_server', The("FallbackOk", id)) /\ ~Has(to_client', Requests)
      BY <1>6, <1>7, <2>1, <2>5 DEF Has
    <3> QED BY <2>5, <3>2, <3>3 DEF ServerFallbackLink
  <2>7. AttemptLink'
    BY <1>2, <1>6, <1>7, <1>8, <2>1 DEF Link, AttemptLink, Calmer, Upgrading, Readied, IsStale
  <2>8. CommitLink'
    <3>1. server.active_transport # "UdpQsp" /\ ~server.switch_to_udp_sent
      BY <1>1, <1>3, <2>5 DEF ServerInv
    <3>2. Committed' => Committed
      BY <1>8 DEF Committed, Calmer, Awaiting
    <3> QED BY <1>7, <1>8, <2>1, <3>1, <3>2 DEF Link, CommitLink
  <2> QED BY <2>2, <2>3, <2>4, <2>6, <2>7, <2>8 DEF Link
<1> QED BY <1>9, <1>10, <1>11, <1>12, <1>13, <1>14, <1>16, <1>17, <1>18 DEF Inv

LEMMA ClientFallbackToTcpKeepsInv ==
    ASSUME Inv, handle_fallback_to_tcp
    PROVE  Inv'
<1> DEFINE id == Head(to_client).id
           c == [client EXCEPT !.active_transport = "Tcp"]
           e == schedule_discovery(c, TRUE)
<1>1. /\ client \in ClientRecord /\ ClientInv /\ TypeOK
      /\ to_client # <<>> /\ Head(to_client).type = "FallbackToTcp"
      /\ client' = IF client.last_peer_fallback_id = id THEN client ELSE [e EXCEPT !.last_peer_fallback_id = id]
      /\ to_server' = Written(to_server, Msg("FallbackOk", id))
      /\ to_client' = Tail(to_client) /\ UNCHANGED <<server, tcp_up, datagrams, used>>
  BY DEF Inv, TypeOK, handle_fallback_to_tcp, ClientReads
<1>2. CASE client.last_peer_fallback_id = id
  <2>1. client' = client
    BY <1>1, <1>2
  <2>2. ClientInv' /\ Calmer
    BY <1>1, <2>1 DEF ClientInv, Calmer, AttemptHasTransport, Upgrading, Awaiting
  <2> QED BY <1>1, <2>1, <2>2, RequestAnsweredKeepsInv
<1>3. CASE client.last_peer_fallback_id # id
  <2>1. c \in ClientRecord
    BY <1>1, SetClient
  <2>2. /\ c.active_transport = "Tcp" /\ SameRest(c, client) /\ c.udp_state = client.udp_state
    BY <1>1 DEF SameRest, ClientRecord
  <2>3. c.discovery_task = client.discovery_task
    BY <1>1 DEF ClientRecord
  <2> HIDE DEF c
  <2>4. /\ e \in ClientRecord /\ SameRest(e, c)
        /\ e.active_transport = c.active_transport
        /\ e.udp_state = IF EnableUpgrade \/ c.require_udp THEN "NeedDiscovery" ELSE "Disabled"
        /\ e.discovery_task = c.discovery_task
        /\ e.registration = None /\ e.transport = None
        /\ e.retained = IF EnableUpgrade \/ c.require_udp THEN Retained(c, TRUE) ELSE None
        /\ e.upgrade = IF EnableUpgrade \/ c.require_udp THEN "Idle" ELSE "Disabled"
        /\ e.upgrade_id = None /\ ~e.probe_acked /\ ~e.ready_sent
    BY <2>1, ScheduleDiscoveryFields
  <2> HIDE DEF e, id
  <2>5. client' = [e EXCEPT !.last_peer_fallback_id = id]
    BY <1>1, <1>3
  <2>6. id \in FallbackId
    <3>1. Head(to_client) \in Messages
      BY <1>1, ReadFacts DEF TypeOK
    <3> QED BY <1>1, <3>1, MessageTypes DEF id
  <2>7. client' \in ClientRecord
    BY <2>4, <2>5, <2>6, SetClient
  <2>8. /\ client'.run = e.run /\ client'.tcp_alive = e.tcp_alive
        /\ client'.require_udp = e.require_udp /\ client'.cipher_policy_auto = e.cipher_policy_auto
        /\ client'.pending_tcp_fallback = e.pending_tcp_fallback
    BY <2>4, <2>5 DEF ClientRecord
  <2>9. /\ client'.active_transport = e.active_transport /\ client'.udp_state = e.udp_state
        /\ client'.registration = e.registration
        /\ client'.transport = e.transport /\ client'.retained = e.retained
        /\ client'.upgrade = e.upgrade /\ client'.upgrade_id = e.upgrade_id
    BY <2>4, <2>5 DEF ClientRecord
  <2>10. /\ client'.probe_acked = e.probe_acked
         /\ client'.ready_sent = e.ready_sent /\ client'.discovery_task = e.discovery_task
    BY <2>4, <2>5 DEF ClientRecord
  <2>11. client.discovery_task => EnableUpgrade \/ client.require_udp
    BY <1>1 DEF ClientInv
  <2>12. ClientInv'
    BY ZenonT(120), <1>1, <2>2, <2>3, <2>4, <2>8, <2>9, <2>10, <2>11
       DEF ClientInv, AttemptHasTransport, Upgrading, Awaiting, SameRest
  <2>13. Calmer
    BY <2>2, <2>4, <2>8, <2>9 DEF Calmer, SameRest, Upgrading
  <2>14. client'.active_transport # "UdpQsp"
    BY <2>2, <2>4, <2>9
  <2> QED BY <1>1, <2>7, <2>12, <2>13, <2>14, RequestAnsweredKeepsInv DEF id
<1> QED BY <1>2, <1>3

-----------------------------------------------------------------------------
(* The server: registration                                                *)

\* What stays in flight to the server when it reads a message.
LEMMA ServerTail ==
    ASSUME Inv, to_server # <<>>, to_server' = Tail(to_server)
    PROVE  LET h == Head(to_server) IN
           /\ h \in Messages /\ h \in Elems(to_server) /\ to_server' \in Seq(Messages)
           /\ Elems(to_server) = {h} \cup Elems(to_server')
           /\ \A a, b : Before(to_server', a, b) => Before(to_server, a, b)
           /\ \A b \in Elems(to_server') : Before(to_server, h, b) /\ b \in Messages
           /\ \A X : Has(to_server', X) => Has(to_server, X)
           /\ \A X : h \notin X /\ Has(to_server, X) => Has(to_server', X)
           /\ \A Y, Z : Preceded(to_server, Y, Z) =>
                 h \notin Y /\ (h \notin Z => Preceded(to_server', Y, Z))
           /\ \A X, Z : Followed(to_server, X, Z) =>
                 Followed(to_server', X, Z) /\ (h \in X => Has(to_server', Z))
           /\ \A X, Y, Z : Between(to_server, X, Y, Z) =>
                 Between(to_server', X, Y, Z) /\ (h \in X => Preceded(to_server', Y, Z))
<1>1. TypeOK /\ to_server \in Seq(Messages)
  BY DEF Inv, TypeOK
<1>2. /\ Head(to_server) \in Messages /\ Tail(to_server) \in Seq(Messages)
      /\ Elems(to_server) = {Head(to_server)} \cup Elems(to_server')
      /\ \A a, b : Before(to_server', a, b) => Before(to_server, a, b)
      /\ \A b \in Elems(to_server') : Before(to_server, Head(to_server), b)
      /\ \A Y, Z : Preceded(to_server, Y, Z) =>
            Head(to_server) \notin Y /\ (Head(to_server) \notin Z => Preceded(to_server', Y, Z))
      /\ \A X, Z : Followed(to_server, X, Z) =>
            Followed(to_server', X, Z) /\ (Head(to_server) \in X => Has(to_server', Z))
      /\ \A X, Y, Z : Between(to_server, X, Y, Z) =>
            Between(to_server', X, Y, Z) /\ (Head(to_server) \in X => Preceded(to_server', Y, Z))
  BY <1>1, ReadFacts
<1>3. /\ \A b \in Elems(to_server') : b \in Messages
      /\ \A X : Has(to_server', X) => Has(to_server, X)
      /\ \A X : Head(to_server) \notin X /\ Has(to_server, X) => Has(to_server', X)
  BY <1>1, <1>2, InFlightTypes DEF Has
<1> QED BY <1>2, <1>3

\* What is in flight to the client when the server has written a message.
LEMMA ServerWrites ==
    ASSUME Inv, NEW m \in Messages, to_client' = Written(to_client, m)
    PROVE  /\ to_client' \in Seq(Messages)
           /\ Elems(to_client) \subseteq Elems(to_client') /\ Elems(to_client') \subseteq Elems(to_client) \cup {m}
           /\ tcp_up => m \in Elems(to_client')
           /\ \A a, b : Before(to_client', a, b) => Before(to_client, a, b) \/ (a \in Elems(to_client) /\ b = m)
           /\ \A X : Has(to_client, X) => Has(to_client', X)
           /\ \A X : m \notin X /\ Has(to_client', X) => Has(to_client, X)
           /\ \A Y, Z : Preceded(to_client, Y, Z) /\ (m \in Y => Has(to_client, Z)) => Preceded(to_client', Y, Z)
<1>1. to_client \in Seq(Messages) /\ tcp_up \in BOOLEAN
  BY DEF Inv, TypeOK
<1>2. /\ to_client' \in Seq(Messages)
      /\ Elems(to_client) \subseteq Elems(to_client') /\ Elems(to_client') \subseteq Elems(to_client) \cup {m}
      /\ tcp_up => m \in Elems(to_client')
      /\ \A a, b : Before(to_client', a, b) => Before(to_client, a, b) \/ (a \in Elems(to_client) /\ b = m)
      /\ \A Y, Z : Preceded(to_client, Y, Z) /\ (m \in Y => Has(to_client, Z)) => Preceded(to_client', Y, Z)
  BY <1>1, WrittenFacts
<1> QED BY <1>2 DEF Has

\* The client has not moved.
LEMMA ClientStays ==
    ASSUME Inv, UNCHANGED <<client, used>>
    PROVE  /\ ClientInv' /\ (Upgrading' <=> Upgrading) /\ (Awaiting' <=> Awaiting)
           /\ \A m : Drawn(m)' <=> Drawn(m)
BY DEF Inv, ClientInv, AttemptHasTransport, Upgrading, Awaiting, Drawn

\* A registration with the keys of the client is the last one in flight.
LEMMA LastRegistration ==
    ASSUME Inv, to_server # <<>>, to_server' = Tail(to_server), Head(to_server) \in Regs
    PROVE  /\ \A n \in Elems(to_server') : n \in Regs =>
                 /\ Head(to_server).key < n.key /\ Head(to_server).cid <= n.cid
                 /\ n.key \in Nat /\ n.key <= used.key /\ n.cid \in Nat /\ n.cid <= used.cid
           /\ Head(to_server).key \in Nat /\ Head(to_server).key <= used.key
           /\ Head(to_server).cid \in Nat /\ Head(to_server).cid <= used.cid
           /\ Has(to_server', Regs) => Head(to_server).key # used.key
<1> DEFINE h == Head(to_server)
<1>1. /\ h \in Messages /\ h \in Elems(to_server) /\ Elems(to_server) = {h} \cup Elems(to_server')
      /\ \A b \in Elems(to_server') : Before(to_server, h, b) /\ b \in Messages
  BY ServerTail
<1> HIDE DEF h
<1>2. h \in Regs
  BY DEF h
<1>3. \A n \in Elems(to_server') : n \in Regs => h.key < n.key /\ h.cid <= n.cid
  BY <1>1, <1>2 DEF Inv, ArrivalInv
<1>4. \A n \in Elems(to_server) : n \in Regs =>
          n.key \in Nat /\ n.key <= used.key /\ n.cid \in Nat /\ n.cid <= used.cid
  BY <1>1, MessageTypes DEF Inv, DrawnInv, Drawn, Regs, Of
<1>5. used.key \in Nat
  BY Numbers DEF Inv
<1>6. Has(to_server', Regs) => h.key # used.key
  BY <1>1, <1>2, <1>3, <1>4, <1>5 DEF Has
<1> QED BY <1>1, <1>2, <1>3, <1>4, <1>6 DEF h

LEMMA RegisterRefusedKeepsInv ==
    ASSUME Inv, to_server # <<>>, Head(to_server).type = "RegisterCid",
           NEW code \in RegisterFailCodes(Head(to_server)),
           to_client' = Written(to_client, [type |-> "RegisterFail", code |-> code]),
           to_server' = Tail(to_server), UNCHANGED <<client, server, tcp_up, datagrams, used>>
    PROVE  Inv'
<1> DEFINE h == Head(to_server)
<1>1. /\ TypeOK /\ ClientInv /\ ServerInv /\ DrawnInv /\ DatagramInv /\ ReadyInv /\ ArrivalInv /\ SwitchInv
  BY DEF Inv
<1>2. /\ h \in Messages /\ h \in Elems(to_server) /\ to_server' \in Seq(Messages)
      /\ Elems(to_server) = {h} \cup Elems(to_server')
      /\ \A a, b : Before(to_server', a, b) => Before(to_server, a, b)
      /\ \A X : Has(to_server', X) => Has(to_server, X)
      /\ \A X : h \notin X /\ Has(to_server, X) => Has(to_server', X)
      /\ \A Y, Z : Preceded(to_server, Y, Z) =>
            h \notin Y /\ (h \notin Z => Preceded(to_server', Y, Z))
      /\ \A X, Z : Followed(to_server, X, Z) => Followed(to_server', X, Z)
      /\ \A X, Y, Z : Between(to_server, X, Y, Z) => Between(to_server', X, Y, Z)
  BY ServerTail
<1>3. /\ h \in Regs /\ h \notin Requests /\ \A x : (h \in RegOf(x) <=> x = h.key)
      /\ \A x : h \notin The("FallbackToTcp", x) /\ h \notin The("FallbackOk", x)
                /\ h \notin The("UdpReady", x) /\ h \notin The("SwitchAck", x)
      /\ h \notin Of("UdpReady") /\ h \notin Of("SwitchAck")
  BY <1>2 DEF Regs, RegOf, Of, Requests, The
<1>4. Has(to_server', Regs) => h.key # used.key
  BY <1>3, LastRegistration
<1>5. RegisterFailCodes(h) # {}
  OBVIOUS
<1> HIDE DEF h
<1>6. PICK m \in Messages : m = [type |-> "RegisterFail", code |-> code] /\ m.type = "RegisterFail"
  <2>1. code \in {"InvalidCid", "InvalidCipher"}
    BY DEF RegisterFailCodes
  <2> QED BY <2>1, NewMessages
<1>7. /\ to_client' \in Seq(Messages)
      /\ Elems(to_client) \subseteq Elems(to_client') /\ Elems(to_client') \subseteq Elems(to_client) \cup {m}
      /\ \A a, b : Before(to_client', a, b) => Before(to_client, a, b) \/ (a \in Elems(to_client) /\ b = m)
      /\ \A X : Has(to_client, X) => Has(to_client', X)
      /\ \A X : m \notin X /\ Has(to_client', X) => Has(to_client, X)
      /\ \A Y, Z : Preceded(to_client, Y, Z) /\ m \notin Y => Preceded(to_client', Y, Z)
  BY <1>6, ServerWrites
<1>8. /\ m \notin Requests /\ m \notin Of("SwitchToUdp") /\ m \notin Of("SwitchOk")
      /\ \A x : m \notin OkFor(x) /\ m \notin The("FallbackOk", x) /\ m \notin The("FallbackToTcp", x)
                /\ m \notin The("SwitchToUdp", x) /\ m \notin The("SwitchOk", x)
  BY <1>6 DEF Requests, Of, OkFor, The
<1>9. ClientInv' /\ (Upgrading' <=> Upgrading) /\ (Awaiting' <=> Awaiting) /\ \A n : Drawn(n)' <=> Drawn(n)
  BY ClientStays
<1>10. TypeOK'
  BY <1>1, <1>2, <1>7 DEF TypeOK
<1>11. ServerInv'
  BY <1>1 DEF ServerInv, StaleAttemptStaysStale, IsStale, Probed, Traffic
<1>12. DatagramInv'
  BY <1>1 DEF DatagramInv, Probed
<1>13. DrawnInv'
  <2>1. Drawn(m)
    BY <1>6 DEF Drawn
  <2> QED BY <1>1, <1>2, <1>7, <1>9, <2>1 DEF DrawnInv
<1>14. ArrivalInv'
  BY <1>1, <1>2 DEF ArrivalInv, AtMostOne
<1>15. SwitchInv'
  BY <1>1, <1>2, <1>3 DEF SwitchInv
<1>16. ReadyInv'
  <2>1. \A n \in Elems(to_server') : n \in LiveReady' => n \in LiveReady
    BY <1>2 DEF LiveReady, Probed
  <2>2. server.pending_tcp_fallback # None =>
           Preceded(to_server', LiveReady, The("FallbackOk", server.pending_tcp_fallback))
    BY <1>1, <1>2, <1>3 DEF ReadyInv
  <2>3. server.pending_tcp_fallback # None =>
           Preceded(to_server', LiveReady', The("FallbackOk", server.pending_tcp_fallback))
    BY <2>1, <2>2, PrecededFewer
  <2> QED BY <1>1, <1>2, <2>3 DEF ReadyInv, Probed, Readied, Matching, IsStale
<1>17. TrafficInv'
  BY <1>2, <1>7, <1>8 DEF Inv, TrafficInv, Traffic
<1>18. CountInv'
  <2>1. Charged \in Nat /\ Charged' \in Nat /\ Charged' <= Charged
    BY <1>1, <1>9, NoCharge
  <2> QED BY <1>1, <1>2, <2>1, CountKept DEF Inv
<1>19. ASSUME tcp_up' PROVE Link'
  <2>1. Link /\ tcp_up
    BY <1>19 DEF Inv
  <2>2. BothConnected'
    BY <2>1 DEF Link, BothConnected
  <2>3. RegisterLink'
    <3>1. Has(to_server', Regs) => Has(to_server', RegOf(used.key))
      BY <1>2, <1>3, <1>4, <2>1 DEF Link, RegisterLink
    <3>2. client.registration # None /\ Has(to_client, OkFor(client.cid)) => h.key # used.key
      <4>1. client.registration # None => client.udp_state = "Pending"
        BY <1>1 DEF ClientInv
      <4> QED BY <1>2, <1>3, <1>5, <2>1, <4>1 DEF Link, RegisterLink, RegisterFailCodes
    <3>3. client.udp_state = "Active" => h.key # used.key
      BY <1>2, <1>3, <1>5, <2>1 DEF Link, RegisterLink
    <3>4. Has(to_server, RegOf(used.key)) /\ h.key # used.key => Has(to_server', RegOf(used.key))
      BY <1>2, <1>3
    <3>5. Has(to_client', OkFor(client.cid)) <=> Has(to_client, OkFor(client.cid))
      BY <1>7, <1>8
    <3> QED BY <1>2, <2>1, <3>1, <3>2, <3>3, <3>4, <3>5 DEF Link, RegisterLink, RegisterFailCodes
  <2>4. ClientFallbackLink'
    BY <1>2, <1>3, <1>7, <1>8, <1>9, <2>1 DEF Link, ClientFallbackLink, Readied, Ordered
  <2>5. ServerFallbackLink'
    BY <1>2, <1>3, <1>7, <1>8, <2>1 DEF Link, ServerFallbackLink, Ordered, AtMostOne
  <2>6. AttemptLink'
    BY <1>2, <1>7, <1>8, <1>9, <2>1 DEF Link, AttemptLink, Readied, IsStale
  <2>7. CommitLink'
    BY <1>2, <1>3, <1>7, <1>8, <1>9, <2>1 DEF Link, CommitLink, Committed
  <2> QED BY <2>2, <2>3, <2>4, <2>5, <2>6, <2>7 DEF Link
<1> QED BY <1>9, <1>10, <1>11, <1>12, <1>13, <1>14, <1>15, <1>16, <1>17, <1>18, <1>19 DEF Inv

LEMMA RegisterAcceptedKeepsInv ==
    ASSUME Inv, to_server # <<>>, Head(to_server).type = "RegisterCid",
           RegisterFailCodes(Head(to_server)) = {}, server.active_transport # "UdpQsp",
           server' = Registering(server, Head(to_server).key),
           to_client' = Written(to_client, [type |-> "RegisterOk", cid |-> Head(to_server).cid]),
           to_server' = Tail(to_server), UNCHANGED <<client, tcp_up, datagrams, used>>
    PROVE  Inv'
<1> DEFINE h == Head(to_server)
<1>1. /\ TypeOK /\ ClientInv /\ ServerInv /\ DrawnInv /\ DatagramInv /\ ReadyInv /\ ArrivalInv /\ TrafficInv
      /\ CountInv /\ server \in ServerRecord
  BY DEF Inv, TypeOK
<1>2. /\ h \in Messages /\ h \in Elems(to_server) /\ to_server' \in Seq(Messages)
      /\ Elems(to_server) = {h} \cup Elems(to_server')
      /\ \A a, b : Before(to_server', a, b) => Before(to_server, a, b)
      /\ \A X : Has(to_server', X) => Has(to_server, X)
      /\ \A X : h \notin X /\ Has(to_server, X) => Has(to_server', X)
      /\ \A Y, Z : Preceded(to_server, Y, Z) =>
            h \notin Y /\ (h \notin Z => Preceded(to_server', Y, Z))
  BY ServerTail
<1>3. /\ h \in Regs /\ h \notin Requests /\ \A x : (h \in RegOf(x) <=> x = h.key)
      /\ \A x : h \notin The("FallbackToTcp", x) /\ h \notin The("FallbackOk", x)
                /\ h \notin The("UdpReady", x) /\ h \notin The("SwitchAck", x)
      /\ h \notin Of("UdpReady") /\ h \notin Of("SwitchAck")
  BY <1>2 DEF Regs, RegOf, Of, Requests, The
<1>4. h.key \in Key /\ h.cid \in Cid /\ h.key # None
  BY <1>2, MessageTypes
<1>5. /\ \A n \in Elems(to_server') : n \in Regs =>
            /\ h.key < n.key /\ h.cid <= n.cid
            /\ n.key \in Nat /\ n.key <= used.key /\ n.cid \in Nat /\ n.cid <= used.cid
      /\ h.key \in Nat /\ h.key <= used.key /\ h.cid \in Nat /\ h.cid <= used.cid
      /\ Has(to_server', Regs) => h.key # used.key
  BY <1>3, LastRegistration
<1>6. /\ RegisterFailCodes(h) = {} /\ server' = Registering(server, h.key)
      /\ to_client' = Written(to_client, [type |-> "RegisterOk", cid |-> h.cid])
  OBVIOUS
<1> HIDE DEF h
<1>7. /\ server' \in ServerRecord /\ SameServer(server', server)
      /\ server'.active_transport = server.active_transport /\ server'.udp_session = h.key
      /\ server'.upgrade_id = None /\ ~server'.probe_seen /\ ~server'.ready_seen /\ ~server'.switch_to_udp_sent
      /\ server'.stale_upgrade_ids = <<>>
  BY <1>1, <1>4, <1>6, RegisteringFields
<1>8. PICK m \in Messages : m = [type |-> "RegisterOk", cid |-> h.cid] /\ m.type = "RegisterOk" /\ m.cid = h.cid
  BY <1>4, NewMessages
<1>9. /\ to_client' \in Seq(Messages)
      /\ Elems(to_client) \subseteq Elems(to_client') /\ Elems(to_client') \subseteq Elems(to_client) \cup {m}
      /\ \A a, b : Before(to_client', a, b) => Before(to_client, a, b) \/ (a \in Elems(to_client) /\ b = m)
      /\ \A X : Has(to_client, X) => Has(to_client', X)
      /\ \A X : m \notin X /\ Has(to_client', X) => Has(to_client, X)
      /\ \A Y, Z : Preceded(to_client, Y, Z) /\ m \notin Y => Preceded(to_client', Y, Z)
  BY <1>6, <1>8, ServerWrites
<1>10. /\ m \notin Requests /\ m \notin Of("SwitchToUdp") /\ m \notin Of("SwitchOk")
       /\ \A x : (m \in OkFor(x) => x = h.cid) /\ m \notin The("FallbackOk", x) /\ m \notin The("FallbackToTcp", x)
                 /\ m \notin The("SwitchToUdp", x) /\ m \notin The("SwitchOk", x)
  BY <1>8 DEF Requests, Of, OkFor, The
<1>11. ClientInv' /\ (Upgrading' <=> Upgrading) /\ (Awaiting' <=> Awaiting) /\ \A n : Drawn(n)' <=> Drawn(n)
  BY ClientStays
<1>12. \A id : ~IsStale(server', id) /\ ~Readied(id)' /\ ~Matching(id)'
  BY <1>7, NoStaleIds DEF IsStale, Readied, Matching
<1>13. \A k : Traffic(k)' <=> Traffic(k)
  BY DEF Traffic
<1>14. TypeOK'
  <2>1. Len(server'.stale_upgrade_ids) <= MAX_STALE_UPGRADE_IDS
    BY <1>7, NoStaleIds, SwitchAssumption
  <2> QED BY <1>1, <1>2, <1>7, <1>9, <2>1 DEF TypeOK
<1>15. ServerInv'
  BY <1>1, <1>7 DEF ServerInv, StaleAttemptStaysStale, SameServer
<1>16. DatagramInv'
  BY <1>1 DEF DatagramInv, Probed
<1>17. DrawnInv'
  <2>1. Drawn(m)
    BY <1>5, <1>8 DEF Drawn
  <2>2. used.upgrade \in Nat
    BY <1>1, Numbers
  <2>3. server'.upgrade_id <= used.upgrade
    BY <1>7, <2>2 DEF None
  <2> QED BY <1>1, <1>2, <1>5, <1>7, <1>9, <1>11, <2>1, <2>3, NoStaleIds DEF DrawnInv, SameServer
<1>18. ArrivalInv'
  BY <1>1, <1>2, <1>5, <1>7 DEF ArrivalInv, AtMostOne, SameServer
<1>19. SwitchInv'
  BY <1>7 DEF SwitchInv
<1>20. ReadyInv'
  <2>1. \A n \in Elems(to_server') : n \in LiveReady' => n \in LiveReady
    <3>1. Has(to_server, RegOf(h.key))
      BY <1>2, <1>3 DEF Has
    <3> QED BY <1>2, <1>7, <3>1 DEF LiveReady, Probed
  <2>2. server.pending_tcp_fallback # None =>
           Preceded(to_server', LiveReady, The("FallbackOk", server.pending_tcp_fallback))
    BY <1>1, <1>2, <1>3 DEF ReadyInv
  <2>3. server.pending_tcp_fallback # None =>
           Preceded(to_server', LiveReady', The("FallbackOk", server.pending_tcp_fallback))
    BY <2>1, <2>2, PrecededFewer
  <2>4. server'.pending_tcp_fallback = server.pending_tcp_fallback
    BY <1>7 DEF SameServer
  <2>5. \A n \in Elems(to_server') : n \in Of("UdpReady") =>
            /\ \E k \in Key : Probed(k, n.id)'
            /\ \A a \in Elems(to_server') : a \in Of("SwitchAck") => a.id < n.id
    BY <1>1, <1>2 DEF ReadyInv, Probed
  <2> QED BY <1>7, <1>12, <2>3, <2>4, <2>5 DEF ReadyInv
<1>21. TrafficInv'
  <2>1. \A n \in Elems(to_server') : n \in Regs /\ Traffic(n.key) =>
            /\ ~Traffic(h.key)
            /\ \A l \in Elems(to_server') : l \in Regs /\ l.key < n.key => ~Traffic(l.key)
    BY <1>1, <1>2, <1>3, <1>5 DEF TrafficInv
  <2>2. client.udp_state = "Pending" =>
            \A n \in Elems(to_server') : n \in Regs /\ n.cid = client.cid => ~Traffic(n.key)
    BY <1>1, <1>2 DEF TrafficInv
  <2>3. ASSUME client.udp_state = "Pending", Has(to_client', OkFor(client.cid))
        PROVE  ~Traffic(h.key) /\ \A n \in Elems(to_server') : n \in Regs => ~Traffic(n.key)
    <3>1. CASE Has(to_client, OkFor(client.cid))
      BY <1>1, <1>2, <1>3, <2>3, <3>1 DEF TrafficInv
    <3>2. CASE ~Has(to_client, OkFor(client.cid))
      <4>1. h.cid = client.cid
        BY <1>9, <1>10, <2>3, <3>2
      <4>2. client.cid = used.cid
        BY <1>1, <2>3 DEF ClientInv
      <4>3. \A n \in Elems(to_server') : n \in Regs => n.cid = client.cid
        BY <1>5, <4>1, <4>2
      <4> QED BY <1>1, <1>2, <1>3, <2>3, <4>1, <4>3 DEF TrafficInv
    <3> QED BY <3>1, <3>2
  <2>4. ASSUME client.udp_state = "Active", Has(to_server', RegOf(used.key))
        PROVE  ~Traffic(h.key) /\ \A n \in Elems(to_server') : n \in Regs /\ n.key # used.key => ~Traffic(n.key)
    <3>1. Has(to_server, RegOf(used.key)) /\ Has(to_server', Regs)
      BY <1>2, <2>4 DEF Has, RegOf
    <3>2. h.key # used.key
      BY <1>5, <3>1
    <3> QED BY <1>1, <1>2, <1>3, <2>4, <3>1, <3>2 DEF TrafficInv
  <2> QED BY <1>7, <1>13, <2>1, <2>2, <2>3, <2>4 DEF TrafficInv
<1>22. CountInv'
  <2>1. /\ \A b : One(b) \in Nat
        /\ used.key \in Nat /\ used.retry \in Nat /\ used.upgrade \in Nat /\ used.fallback \in Nat
    BY <1>1, Numbers, OneIsNat
  <2>2. /\ One((Upgrading \/ Awaiting)') = One(Upgrading \/ Awaiting)
        /\ One((server.udp_session # None)') <= One(server.udp_session # None) + 1
    BY <1>11, <2>1 DEF One
  <2>3. Charged' <= Charged + 1 /\ Charged \in Nat /\ Charged' \in Nat
    <3> DEFINE f == used.fallback
               a == One(client.udp_state = "Active")
               b == One(Upgrading \/ Awaiting)
               r == One(client.registration # None)
               s == One(server.udp_session # None)
               t == One((server.udp_session # None)')
    <3>1. Charged = f + a + b + 2 * r + s /\ Charged' = f + a + b + 2 * r + t
      BY <2>2 DEF Charged
    <3>2. /\ f \in Nat /\ a \in Nat /\ b \in Nat /\ r \in Nat /\ s \in Nat /\ t \in Nat /\ t <= s + 1
      BY <2>1, <2>2
    <3> HIDE DEF f, a, b, r, s, t
    <3> QED BY <3>1, <3>2
  <2>4. Charged + (used.key - h.key + 1) <= 3 * used.key + used.retry
    BY <1>1, <1>2, <1>3 DEF CountInv
  <2>5. Charged' <= 3 * used.key + used.retry
    BY SMTT(60), <1>5, <2>1, <2>3, <2>4
  <2>6. ASSUME NEW n \in Elems(to_server'), n \in Regs
        PROVE  Charged' + (used.key - n.key + 1) <= 3 * used.key + used.retry
    <3> DEFINE c == Charged
               e == Charged'
               p == h.key
               q == n.key
               k == used.key
               l == used.retry
    <3>1. p < q /\ p \in Nat /\ q \in Nat /\ k \in Nat /\ l \in Nat
      BY <1>5, <2>1, <2>6
    <3>2. c \in Nat /\ e \in Nat /\ e <= c + 1 /\ c + (k - p + 1) <= 3 * k + l
      BY <2>3, <2>4
    <3> HIDE DEF c, e, p, q, k, l
    <3>3. e + (k - q + 1) <= 3 * k + l
      BY <3>1, <3>2
    <3> QED BY <3>3 DEF c, e, q, k, l
  <2> QED BY <1>1, <2>5, <2>6 DEF CountInv
<1>23. ASSUME tcp_up' PROVE Link'
  <2>1. Link /\ tcp_up
    BY <1>23 DEF Inv
  <2>2. BothConnected'
    BY <1>7, <2>1 DEF Link, BothConnected, SameServer
  <2>3. RegisterLink'
    <3>1. Has(to_server', Regs) => Has(to_server', RegOf(used.key))
      BY <1>2, <1>3, <1>5, <2>1 DEF Link, RegisterLink
    <3>2. Has(to_server', RegOf(used.key)) \/ h.key = used.key
      <4>1. Has(to_server, Regs)
        BY <1>2, <1>3 DEF Has
      <4> QED BY <1>2, <1>3, <2>1, <4>1 DEF Link, RegisterLink
    <3>3. client.udp_state = "Pending" /\ Has(to_client', OkFor(client.cid)) =>
             /\ client.cid \notin CollidingCids
             /\ server'.rejects_auto_cipher => ~client.cipher_policy_auto
      <4>1. Has(to_client', OkFor(client.cid)) => Has(to_client, OkFor(client.cid)) \/ h.cid = client.cid
        BY <1>9, <1>10
      <4>2. h.cid \notin CollidingCids /\ (server.rejects_auto_cipher => ~h.auto)
        BY <1>6 DEF RegisterFailCodes
      <4>3. client.cipher_policy_auto => h.auto
        BY <1>2, <1>3, <2>1 DEF Link, RegisterLink
      <4>4. server'.rejects_auto_cipher = server.rejects_auto_cipher
        BY <1>7 DEF SameServer
      <4> QED BY <2>1, <4>1, <4>2, <4>3, <4>4 DEF Link, RegisterLink
    <3>4. \A n : RegisterFailCodes(n)' = RegisterFailCodes(n)
      BY <1>7 DEF RegisterFailCodes, SameServer
    <3> QED BY <1>2, <1>7, <2>1, <3>1, <3>2, <3>3, <3>4 DEF Link, RegisterLink
  <2>4. ClientFallbackLink'
    BY <1>2, <1>3, <1>9, <1>10, <1>11, <1>12, <2>1 DEF Link, ClientFallbackLink, Ordered
  <2>5. ServerFallbackLink'
    <3>1. server'.pending_tcp_fallback = server.pending_tcp_fallback
      BY <1>7 DEF SameServer
    <3>2. Has(to_client', Requests) /\ client.udp_state = "Active" =>
             server'.udp_session # used.key /\ ~Has(to_server', RegOf(used.key))
      <4>1. h.key = used.key => Has(to_server, RegOf(used.key))
        BY <1>2, <1>3 DEF Has
      <4> QED BY <1>2, <1>7, <1>9, <1>10, <2>1, <4>1 DEF Link, ServerFallbackLink
    <3>3. client.udp_state = "Pending" => Ordered(to_client', Requests, OkFor(client.cid))
      BY <1>9, <1>10, <2>1 DEF Link, ServerFallbackLink, Ordered
    <3> QED BY <1>2, <1>3, <1>9, <1>10, <2>1, <3>1, <3>2, <3>3 DEF Link, ServerFallbackLink, AtMostOne
  <2>6. AttemptLink'
    BY <1>2, <1>9, <1>10, <1>11, <1>12, <2>1 DEF Link, AttemptLink
  <2>7. CommitLink'
    <3>1. ~Committed
      BY <1>2, <1>3, <2>1 DEF Link, CommitLink, Has
    <3>2. ~Committed'
      BY <1>9, <1>10, <1>11, <3>1 DEF Committed
    <3> QED BY <1>7, <3>2 DEF CommitLink
  <2> QED BY <2>2, <2>3, <2>4, <2>5, <2>6, <2>7 DEF Link
<1> QED BY <1>11, <1>14, <1>15, <1>16, <1>17, <1>18, <1>19, <1>20, <1>21, <1>22, <1>23 DEF Inv

LEMMA RegisterCidKeepsInv ==
    ASSUME Inv, handle_register_cid
    PROVE  Inv'
<1> DEFINE h == Head(to_server)
<1>1. to_server # <<>> /\ h.type = "RegisterCid"
  BY DEF handle_register_cid, ServerReads
<1>2. server.active_transport # "UdpQsp"
  <2>1. h \in Regs
    <3>1. h \in Messages
      BY <1>1, ReadFacts DEF Inv, TypeOK
    <3> QED BY <1>1, <3>1 DEF Regs, Of
  <2>2. to_server \in Seq(Messages)
    BY DEF Inv, TypeOK
  <2> QED BY <1>1, <2>1, <2>2, ReadFacts DEF Inv, SwitchInv
<1>3. /\ to_server' = Tail(to_server) /\ UNCHANGED <<client, tcp_up, datagrams, used>>
      /\ \/ /\ \E code \in RegisterFailCodes(h) :
                   to_client' = Written(to_client, [type |-> "RegisterFail", code |-> code])
            /\ UNCHANGED server
         \/ /\ RegisterFailCodes(h) = {}
            /\ server' = Registering(server, h.key)
            /\ to_client' = Written(to_client, [type |-> "RegisterOk", cid |-> h.cid])
  BY <1>2 DEF handle_register_cid
<1>4. CASE UNCHANGED server /\ \E code \in RegisterFailCodes(h) :
               to_client' = Written(to_client, [type |-> "RegisterFail", code |-> code])
  BY <1>1, <1>3, <1>4, RegisterRefusedKeepsInv
<1>5. CASE /\ RegisterFailCodes(h) = {} /\ server' = Registering(server, h.key)
           /\ to_client' = Written(to_client, [type |-> "RegisterOk", cid |-> h.cid])
  BY <1>1, <1>2, <1>3, <1>5, RegisterAcceptedKeepsInv
<1> QED BY <1>3, <1>4, <1>5

-----------------------------------------------------------------------------
(* The server: the upgrade handshake over TCP                              *)

\* The server reads a message and leaves it at that.
LEMMA ServerIgnoresKeepsInv ==
    ASSUME Inv, to_server # <<>>, Head(to_server) \notin Regs, Head(to_server) \notin Requests,
           Head(to_server) \notin The("FallbackOk", server.pending_tcp_fallback),
           to_server' = Tail(to_server), UNCHANGED <<client, server, tcp_up, to_client, datagrams, used>>
    PROVE  Inv'
<1> DEFINE h == Head(to_server)
<1>1. /\ TypeOK /\ ClientInv /\ ServerInv /\ DrawnInv /\ DatagramInv /\ ReadyInv /\ ArrivalInv /\ SwitchInv
  BY DEF Inv
<1>2. /\ h \in Messages /\ h \in Elems(to_server) /\ to_server' \in Seq(Messages)
      /\ Elems(to_server) = {h} \cup Elems(to_server')
      /\ \A a, b : Before(to_server', a, b) => Before(to_server, a, b)
      /\ \A X : Has(to_server', X) => Has(to_server, X)
      /\ \A X : h \notin X /\ Has(to_server, X) => Has(to_server', X)
      /\ \A Y, Z : Preceded(to_server, Y, Z) =>
            h \notin Y /\ (h \notin Z => Preceded(to_server', Y, Z))
      /\ \A X, Z : Followed(to_server, X, Z) => Followed(to_server', X, Z)
      /\ \A X, Y, Z : Between(to_server, X, Y, Z) => Between(to_server', X, Y, Z)
  BY ServerTail
<1>3. /\ h \notin Regs /\ h \notin Requests /\ h \notin The("FallbackOk", server.pending_tcp_fallback)
      /\ \A x : h \notin RegOf(x) /\ h \notin The("FallbackToTcp", x)
  BY DEF Regs, RegOf, Of, Requests, The
<1> HIDE DEF h
<1>4. ClientInv' /\ (Upgrading' <=> Upgrading) /\ (Awaiting' <=> Awaiting) /\ \A n : Drawn(n)' <=> Drawn(n)
  BY ClientStays
<1>5. TypeOK'
  BY <1>1, <1>2 DEF TypeOK
<1>6. ServerInv'
  BY <1>1 DEF ServerInv, StaleAttemptStaysStale, IsStale, Probed, Traffic
<1>7. DatagramInv'
  BY <1>1 DEF DatagramInv, Probed
<1>8. DrawnInv'
  BY <1>1, <1>2, <1>4 DEF DrawnInv
<1>9. ArrivalInv'
  BY <1>1, <1>2 DEF ArrivalInv, AtMostOne
<1>10. SwitchInv'
  BY <1>1, <1>2, <1>3 DEF SwitchInv
<1>11. ReadyInv'
  <2>1. \A n \in Elems(to_server') : n \in LiveReady' => n \in LiveReady
    BY <1>2 DEF LiveReady, Probed
  <2>2. server.pending_tcp_fallback # None =>
           Preceded(to_server', LiveReady, The("FallbackOk", server.pending_tcp_fallback))
    BY <1>1, <1>2, <1>3 DEF ReadyInv
  <2>3. server.pending_tcp_fallback # None =>
           Preceded(to_server', LiveReady', The("FallbackOk", server.pending_tcp_fallback))
    BY <2>1, <2>2, PrecededFewer
  <2> QED BY <1>1, <1>2, <2>3 DEF ReadyInv, Probed, Readied, Matching, IsStale
<1>12. TrafficInv'
  BY <1>2 DEF Inv, TrafficInv, Traffic
<1>13. CountInv'
  <2>1. Charged \in Nat /\ Charged' \in Nat /\ Charged' <= Charged
    BY <1>1, <1>4, NoCharge
  <2> QED BY <1>1, <1>2, <2>1, CountKept DEF Inv
<1>14. ASSUME tcp_up' PROVE Link'
  <2>1. Link /\ tcp_up
    BY <1>14 DEF Inv
  <2>2. BothConnected'
    BY <2>1 DEF Link, BothConnected
  <2>3. RegisterLink'
    BY <1>2, <1>3, <2>1 DEF Link, RegisterLink, RegisterFailCodes
  <2>4. ClientFallbackLink'
    BY <1>2, <1>3, <1>4, <2>1 DEF Link, ClientFallbackLink, Readied, Ordered
  <2>5. ServerFallbackLink'
    BY <1>2, <1>3, <2>1 DEF Link, ServerFallbackLink, Ordered, AtMostOne
  <2>6. AttemptLink'
    BY <1>2, <1>4, <2>1 DEF Link, AttemptLink, Readied, IsStale
  <2>7. CommitLink'
    BY <1>2, <1>3, <1>4, <2>1 DEF Link, CommitLink, Committed
  <2> QED BY <2>2, <2>3, <2>4, <2>5, <2>6, <2>7 DEF Link
<1> QED BY <1>4, <1>5, <1>6, <1>7, <1>8, <1>9, <1>10, <1>11, <1>12, <1>13, <1>14 DEF Inv

\* What is in flight to the client when the server has written a message, or not.
LEMMA ServerMayWrite ==
    ASSUME Inv, NEW m \in Messages, to_client' = Written(to_client, m) \/ to_client' = to_client
    PROVE  /\ to_client' \in Seq(Messages)
           /\ Elems(to_client) \subseteq Elems(to_client') /\ Elems(to_client') \subseteq Elems(to_client) \cup {m}
           /\ \A a, b : Before(to_client', a, b) => Before(to_client, a, b) \/ (a \in Elems(to_client) /\ b = m)
           /\ \A X : Has(to_client, X) => Has(to_client', X)
           /\ \A X : m \notin X /\ Has(to_client', X) => Has(to_client, X)
           /\ \A Y, Z : Preceded(to_client, Y, Z) /\ (m \in Y => Has(to_client, Z)) => Preceded(to_client', Y, Z)
<1>1. CASE to_client' = to_client
  BY <1>1 DEF Inv, TypeOK
<1>2. CASE to_client' = Written(to_client, m)
  BY <1>2, ServerWrites
<1> QED BY <1>1, <1>2

\* UDP_READY of the attempt in progress, or of a new one.
LEMMA UdpReadyAcceptedKeepsInv ==
    ASSUME Inv, to_server # <<>>, Head(to_server).type = "UdpReady",
           server.upgrade_id \in {None, Head(to_server).id},
           maybe_send_switch_to_udp([server EXCEPT !.upgrade_id = Head(to_server).id, !.ready_seen = TRUE]),
           to_server' = Tail(to_server), UNCHANGED <<client, tcp_up, datagrams, used>>
    PROVE  Inv'
<1> DEFINE h == Head(to_server)
           id == h.id
<1>1. /\ TypeOK /\ ClientInv /\ ServerInv /\ DrawnInv /\ DatagramInv /\ ReadyInv /\ ArrivalInv /\ SwitchInv
      /\ TrafficInv /\ server \in ServerRecord
  BY DEF Inv, TypeOK
<1>2. /\ h \in Messages /\ h \in Elems(to_server) /\ to_server' \in Seq(Messages)
      /\ Elems(to_server) = {h} \cup Elems(to_server')
      /\ \A a, b : Before(to_server', a, b) => Before(to_server, a, b)
      /\ \A b \in Elems(to_server') : Before(to_server, h, b) /\ b \in Messages
      /\ \A X : Has(to_server', X) => Has(to_server, X)
      /\ \A X : h \notin X /\ Has(to_server, X) => Has(to_server', X)
      /\ \A Y, Z : Preceded(to_server, Y, Z) =>
            h \notin Y /\ (h \notin Z => Preceded(to_server', Y, Z))
  BY ServerTail
<1>3. /\ h \notin Regs /\ h \notin Requests /\ h \in The("UdpReady", id) /\ h \in Of("UdpReady")
      /\ \A x : h \notin RegOf(x) /\ h \notin The("FallbackToTcp", x) /\ h \notin The("FallbackOk", x)
  BY <1>2 DEF Regs, RegOf, Of, Requests, The
<1>4. id \in UpgradeId /\ id \in Nat /\ id # None /\ id <= used.upgrade
  BY <1>1, <1>2, MessageTypes DEF DrawnInv, Drawn
<1>5. ~server.ready_seen /\ ~server.switch_to_udp_sent
  <2>1. server.ready_seen => server.upgrade_id < id
    BY <1>1, <1>2, <1>3 DEF ReadyInv
  <2>2. ~(id < id)
    BY <1>4
  <2> QED BY <1>1, <2>1, <2>2 DEF ServerInv
<1>6. server.probe_seen => server.upgrade_id = id
  BY <1>1 DEF ServerInv
<1> HIDE DEF h, id
<1>7. /\ server' \in ServerRecord
      /\ SameServer(server', server) /\ server'.active_transport = server.active_transport
      /\ server'.udp_session = server.udp_session /\ server'.peer_known = server.peer_known
      /\ server'.authenticated = server.authenticated /\ server'.stale_upgrade_ids = server.stale_upgrade_ids
      /\ server'.upgrade_id = id /\ server'.probe_seen = server.probe_seen /\ server'.ready_seen
      /\ server'.switch_to_udp_sent = server.probe_seen
      /\ to_client' = IF server.probe_seen THEN Written(to_client, Msg("SwitchToUdp", id)) ELSE to_client
  <2> DEFINE b == [server EXCEPT !.upgrade_id = id]
             t == [b EXCEPT !.ready_seen = TRUE]
  <2>1. b \in ServerRecord
    BY <1>1, <1>4, SetServer
  <2>2. /\ SameServer(b, server) /\ b.active_transport = server.active_transport
        /\ b.udp_session = server.udp_session /\ b.peer_known = server.peer_known
        /\ b.authenticated = server.authenticated /\ b.stale_upgrade_ids = server.stale_upgrade_ids
        /\ b.upgrade_id = id /\ b.probe_seen = server.probe_seen
        /\ b.switch_to_udp_sent = server.switch_to_udp_sent
    BY <1>1 DEF ServerRecord, SameServer
  <2>3. maybe_send_switch_to_udp(t)
    BY DEF id, h
  <2> HIDE DEF b
  <2>4. t \in ServerRecord
    BY <2>1, SetServer
  <2>5. /\ SameServer(t, b) /\ t.active_transport = b.active_transport
        /\ t.udp_session = b.udp_session /\ t.peer_known = b.peer_known
        /\ t.authenticated = b.authenticated /\ t.stale_upgrade_ids = b.stale_upgrade_ids
        /\ t.upgrade_id = b.upgrade_id /\ t.probe_seen = b.probe_seen /\ t.ready_seen
        /\ t.switch_to_udp_sent = b.switch_to_udp_sent
    BY <2>1 DEF ServerRecord, SameServer
  <2> HIDE DEF t
  <2>6. SwitchDue(t) <=> server.probe_seen
    BY <1>4, <1>5, <2>2, <2>5 DEF SwitchDue
  <2>7. server.probe_seen \in BOOLEAN /\ server.switch_to_udp_sent \in BOOLEAN
    BY <1>1 DEF ServerRecord
  <2>8. CASE server.probe_seen
    <3>1. server' = [t EXCEPT !.switch_to_udp_sent = TRUE]
      BY <2>3, <2>6, <2>8 DEF maybe_send_switch_to_udp
    <3>2. to_client' = Written(to_client, Msg("SwitchToUdp", id))
      BY <2>2, <2>3, <2>5, <2>6, <2>8 DEF maybe_send_switch_to_udp
    <3>3. server' \in ServerRecord
      BY <2>4, <3>1, SetServer
    <3>4. /\ SameServer(server', t) /\ server'.active_transport = t.active_transport
          /\ server'.udp_session = t.udp_session /\ server'.peer_known = t.peer_known
          /\ server'.authenticated = t.authenticated /\ server'.stale_upgrade_ids = t.stale_upgrade_ids
          /\ server'.upgrade_id = t.upgrade_id /\ server'.probe_seen = t.probe_seen
          /\ server'.ready_seen = t.ready_seen /\ server'.switch_to_udp_sent = TRUE
      BY <2>4, <3>1 DEF ServerRecord, SameServer
    <3> QED BY <2>2, <2>5, <2>7, <2>8, <3>2, <3>3, <3>4 DEF SameServer
  <2>9. CASE ~server.probe_seen
    <3>1. server' = t /\ to_client' = to_client
      BY <2>3, <2>6, <2>9 DEF maybe_send_switch_to_udp
    <3> QED BY <1>5, <2>2, <2>4, <2>5, <2>7, <2>9, <3>1 DEF SameServer
  <2> QED BY <2>8, <2>9
<1>8. PICK m \in Messages : m = Msg("SwitchToUdp", id) /\ m.type = "SwitchToUdp" /\ m.id = id
  BY <1>4, NewMessages
<1>9. /\ to_client' \in Seq(Messages)
      /\ Elems(to_client) \subseteq Elems(to_client') /\ Elems(to_client') \subseteq Elems(to_client) \cup {m}
      /\ \A a, b : Before(to_client', a, b) => Before(to_client, a, b) \/ (a \in Elems(to_client) /\ b = m)
      /\ \A X : Has(to_client, X) => Has(to_client', X)
      /\ \A X : m \notin X /\ Has(to_client', X) => Has(to_client, X)
      /\ \A Y, Z : Preceded(to_client, Y, Z) /\ (m \in Y => Has(to_client, Z)) => Preceded(to_client', Y, Z)
  BY <1>7, <1>8, ServerMayWrite
<1>10. /\ m \notin Requests /\ m \notin Of("SwitchOk")
       /\ \A x : m \notin OkFor(x) /\ m \notin The("FallbackOk", x) /\ m \notin The("FallbackToTcp", x)
                 /\ m \notin The("SwitchOk", x) /\ (m \in The("SwitchToUdp", x) => x = id)
  BY <1>8 DEF Requests, Of, OkFor, The
<1>11. m \in Elems(to_client') => m \in Elems(to_client) \/ server.probe_seen
  BY <1>7
<1>12. ClientInv' /\ (Upgrading' <=> Upgrading) /\ (Awaiting' <=> Awaiting) /\ \A n : Drawn(n)' <=> Drawn(n)
  BY ClientStays
<1>13. /\ \A x : IsStale(server', x) <=> IsStale(server, x)
       /\ \A x : Readied(x)' <=> x = id
       /\ \A x : Matching(x)' => x = id
  BY <1>7 DEF IsStale, Readied, Matching
<1>14. /\ \A k : Traffic(k)' <=> Traffic(k)
       /\ \A k, x : Probed(k, x)' <=> Probed(k, x)
  BY DEF Traffic, Probed
<1>15. /\ \A n \in Elems(to_server') : n \in Of("UdpReady") => id < n.id
       /\ \A n \in Elems(to_server) : n \in Of("SwitchAck") => n.id # id
  <2>1. \A n \in Elems(to_server) : n \in Of("SwitchAck") => n.id < id
    BY <1>1, <1>2, <1>3 DEF ReadyInv, id
  <2>2. \A n \in Elems(to_server') : n \in Of("UdpReady") => id < n.id
    BY <1>1, <1>2, <1>3 DEF ArrivalInv, id
  <2>3. ~(id < id)
    BY <1>4
  <2> QED BY <2>1, <2>2, <2>3
<1>16. ~Has(to_server', The("SwitchAck", id))
  BY <1>2, <1>15 DEF Has, The, Of
<1>17. TypeOK'
  BY <1>1, <1>2, <1>7, <1>9 DEF TypeOK
<1>18. ServerInv'
  <2>1. ~IsStale(server, id)
    <3>1. CASE server.upgrade_id = None
      BY <1>1, <1>2, <1>3, <3>1 DEF ReadyInv, id
    <3>2. CASE server.upgrade_id = id
      BY <1>1, <1>4, <3>2 DEF ServerInv, StaleAttemptStaysStale
    <3> QED BY <3>1, <3>2 DEF id, h
  <2>2. \E k \in Key : Probed(k, id)
    BY <1>1, <1>2, <1>3 DEF ReadyInv, id
  <2>3. Probed(server.udp_session, id) => server.pending_tcp_fallback = None
    <3>1. Probed(server.udp_session, id) => h \in LiveReady
      <4>1. Probed(server.udp_session, id) => server.udp_session \in Key
        BY <1>1, InFlightTypes DEF Probed
      <4> QED BY <1>3, <4>1 DEF LiveReady, id
    <3> QED BY <1>1, <1>2, <3>1 DEF ReadyInv
  <2>4. StaleAttemptStaysStale'
    BY <1>7, <1>13, <2>1 DEF StaleAttemptStaysStale
  <2> QED BY <1>1, <1>4, <1>6, <1>7, <1>14, <2>2, <2>3, <2>4 DEF ServerInv, SameServer
<1>19. DatagramInv'
  BY <1>1 DEF DatagramInv, Probed
<1>20. DrawnInv'
  <2>1. Drawn(m)
    BY <1>4, <1>8 DEF Drawn
  <2> QED BY <1>1, <1>2, <1>4, <1>7, <1>9, <1>12, <2>1 DEF DrawnInv, SameServer
<1>21. ArrivalInv'
  BY <1>1, <1>2, <1>7 DEF ArrivalInv, AtMostOne, SameServer
<1>22. SwitchInv'
  BY <1>1, <1>2, <1>3, <1>7, <1>16, AbsentIsOrdered DEF SwitchInv
<1>23. ReadyInv'
  <2>1. \A n \in Elems(to_server') : n \in LiveReady' => n \in LiveReady
    BY <1>2, <1>7 DEF LiveReady, Probed
  <2>2. server.pending_tcp_fallback # None =>
           Preceded(to_server', LiveReady, The("FallbackOk", server.pending_tcp_fallback))
    BY <1>1, <1>2, <1>3 DEF ReadyInv
  <2>3. server.pending_tcp_fallback # None =>
           Preceded(to_server', LiveReady', The("FallbackOk", server.pending_tcp_fallback))
    BY <2>1, <2>2, PrecededFewer
  <2>4. server'.pending_tcp_fallback = server.pending_tcp_fallback
    BY <1>7 DEF SameServer
  <2>5. \A n \in Elems(to_server') : n \in Of("UdpReady") =>
            /\ \E k \in Key : Probed(k, n.id)'
            /\ \A a \in Elems(to_server') : a \in Of("SwitchAck") => a.id < n.id
    BY <1>1, <1>2, <1>14 DEF ReadyInv
  <2>6. \A n \in Elems(to_server') : n \in Of("SwitchAck") => ~Readied(n.id)' /\ ~Matching(n.id)'
    BY <1>2, <1>13, <1>15
  <2> QED BY <1>4, <1>7, <1>15, <2>3, <2>4, <2>5, <2>6 DEF ReadyInv
<1>24. TrafficInv'
  BY <1>1, <1>2, <1>7, <1>9, <1>10, <1>14 DEF TrafficInv
<1>25. CountInv'
  <2>1. Charged \in Nat /\ Charged' \in Nat /\ Charged' <= Charged
    BY <1>1, <1>7, <1>12, NoCharge
  <2> QED BY <1>1, <1>2, <2>1, CountKept DEF Inv
<1>26. ASSUME tcp_up' PROVE Link'
  <2>1. Link /\ tcp_up
    BY <1>26 DEF Inv
  <2>2. BothConnected'
    BY <1>7, <2>1 DEF Link, BothConnected, SameServer
  <2>3. RegisterLink'
    <3>1. \A n : RegisterFailCodes(n)' = RegisterFailCodes(n)
      BY <1>7 DEF RegisterFailCodes, SameServer
    <3>2. server'.rejects_auto_cipher = server.rejects_auto_cipher
      BY <1>7 DEF SameServer
    <3> QED BY <1>2, <1>3, <1>7, <1>9, <1>10, <2>1, <3>1, <3>2 DEF Link, RegisterLink
  <2>4. ClientFallbackLink'
    <3>1. Upgrading /\ client.upgrade_id = id => ~Has(to_server', Requests)
      <4>1. Upgrading /\ client.upgrade_id = id => \A b \in Requests : ~Before(to_server, h, b)
        BY <1>3, <2>1 DEF Link, ClientFallbackLink, Ordered
      <4> QED BY <1>2, <4>1 DEF Has
    <3>2. Upgrading /\ client.upgrade_id = id /\ client.pending_tcp_fallback # None =>
             Has(to_client, The("FallbackOk", client.pending_tcp_fallback))
      <4>1. Has(to_server, The("FallbackToTcp", client.pending_tcp_fallback)) => Has(to_server', Requests)
        BY <1>2, <1>3 DEF Has, The, Requests, Of
      <4> QED BY <2>1, <3>1, <4>1 DEF Link, ClientFallbackLink
    <3>3. Upgrading /\ client.pending_tcp_fallback # None =>
             Preceded(to_client', The("SwitchToUdp", client.upgrade_id), The("FallbackOk", client.pending_tcp_fallback))
      BY <1>9, <1>10, <2>1, <3>2 DEF Link, ClientFallbackLink
    <3> QED BY <1>2, <1>3, <1>9, <1>10, <1>12, <1>13, <2>1, <3>1, <3>3 DEF Link, ClientFallbackLink, Ordered
  <2>5. ServerFallbackLink'
    <3>1. server'.pending_tcp_fallback = server.pending_tcp_fallback
      BY <1>7 DEF SameServer
    <3> QED BY <1>2, <1>3, <1>7, <1>9, <1>10, <2>1, <3>1 DEF Link, ServerFallbackLink, Ordered, AtMostOne
  <2>6. AttemptLink'
    <3>1. Upgrading /\ ~client.ready_sent => client.upgrade_id # id
      BY <1>2, <1>3, <2>1 DEF Link, AttemptLink, Has
    <3>2. \A n \in Elems(to_client) : n \in Of("SwitchToUdp") => n.id # id
      <4>1. \A n \in Elems(to_client) : n \in Of("SwitchToUdp") => n.id < id
        BY <1>2, <1>3, <2>1 DEF Link, AttemptLink, id
      <4>2. ~(id < id)
        BY <1>4
      <4> QED BY <4>1, <4>2
    <3>3. \A n \in Elems(to_client) : n \in Of("SwitchOk") => n.id # id
      BY <1>2, <1>3, <2>1 DEF Link, AttemptLink, Has
    <3>4. \A n \in Elems(to_client') : n \in Of("SwitchToUdp") =>
             /\ \A l \in Elems(to_server') : l \in Of("UdpReady") => n.id < l.id
             /\ Readied(n.id)' => server'.switch_to_udp_sent
      <4>1. m \in Of("SwitchToUdp")
        BY <1>8 DEF Of
      <4> QED BY <1>2, <1>7, <1>8, <1>9, <1>11, <1>13, <1>15, <2>1, <3>2, <4>1 DEF Link, AttemptLink
    <3>5. server'.upgrade_id # None
      BY <1>4, <1>7
    <3> QED BY <1>2, <1>9, <1>10, <1>12, <1>13, <2>1, <3>1, <3>3, <3>4, <3>5 DEF Link, AttemptLink
  <2>7. CommitLink'
    <3>1. Committed' <=> Committed
      BY <1>9, <1>10, <1>12 DEF Committed
    <3>2. Followed(to_server', The("SwitchAck", server'.upgrade_id), Requests)
      BY <1>7, <1>16, AbsentIsOrdered
    <3> QED BY <1>2, <1>3, <1>7, <2>1, <3>1, <3>2 DEF Link, CommitLink
  <2> QED BY <2>2, <2>3, <2>4, <2>5, <2>6, <2>7 DEF Link
<1> QED BY <1>12, <1>17, <1>18, <1>19, <1>20, <1>21, <1>22, <1>23, <1>24, <1>25, <1>26 DEF Inv

LEMMA UdpReadyKeepsInv ==
    ASSUME Inv, handle_udp_ready
    PROVE  Inv'
<1> DEFINE h == Head(to_server)
<1>1. /\ to_server # <<>> /\ h.type = "UdpReady" /\ to_server' = Tail(to_server)
      /\ UNCHANGED <<client, tcp_up, datagrams, used>>
  BY DEF handle_udp_ready, ServerReads
<1>2. CASE server.upgrade_id \in {None, h.id}
  BY <1>1, <1>2, UdpReadyAcceptedKeepsInv DEF handle_udp_ready
<1>3. CASE server.upgrade_id \notin {None, h.id}
  <2>1. UNCHANGED <<server, to_client>>
    BY <1>3 DEF handle_udp_ready
  <2>2. /\ h \notin Regs /\ h \notin Requests /\ h \notin The("FallbackOk", server.pending_tcp_fallback)
    BY <1>1 DEF Regs, Requests, Of, The
  <2> QED BY <1>1, <2>1, <2>2, ServerIgnoresKeepsInv
<1> QED BY <1>2, <1>3

\* SWITCH_ACK of the attempt in progress: the server prefers UDP-QSP.
LEMMA SwitchAckAcceptedKeepsInv ==
    ASSUME Inv, to_server # <<>>, Head(to_server).type = "SwitchAck",
           server.upgrade_id = Head(to_server).id, server.switch_to_udp_sent,
           server' = reset_udp_upgrade_attempt_preserving_history(
                         remember_stale_upgrade_id(
                             [server EXCEPT !.active_transport = "UdpQsp"], Head(to_server).id)),
           to_client' = Written(to_client, Msg("SwitchOk", Head(to_server).id)),
           to_server' = Tail(to_server), UNCHANGED <<client, tcp_up, datagrams, used>>
    PROVE  Inv'
<1> DEFINE h == Head(to_server)
           id == h.id
<1>1. /\ TypeOK /\ ClientInv /\ ServerInv /\ DrawnInv /\ DatagramInv /\ ReadyInv /\ ArrivalInv /\ SwitchInv
      /\ TrafficInv /\ server \in ServerRecord
  BY DEF Inv, TypeOK
<1>2. /\ h \in Messages /\ h \in Elems(to_server) /\ to_server' \in Seq(Messages)
      /\ Elems(to_server) = {h} \cup Elems(to_server')
      /\ \A a, b : Before(to_server', a, b) => Before(to_server, a, b)
      /\ \A X : Has(to_server', X) => Has(to_server, X)
      /\ \A X : h \notin X /\ Has(to_server, X) => Has(to_server', X)
      /\ \A X, Z : Followed(to_server, X, Z) => (h \in X => Has(to_server', Z))
      /\ \A X, Y, Z : Between(to_server, X, Y, Z) => (h \in X => Preceded(to_server', Y, Z))
  BY ServerTail
<1>3. /\ h \notin Regs /\ h \notin Requests /\ h \in The("SwitchAck", id) /\ h \in Of("SwitchAck")
      /\ \A x : h \notin RegOf(x) /\ h \notin The("FallbackToTcp", x) /\ h \notin The("FallbackOk", x)
  BY <1>2 DEF Regs, RegOf, Of, Requests, The
<1>4. id \in UpgradeId /\ id \in Nat /\ id # None /\ id <= used.upgrade
  BY <1>1, <1>2, MessageTypes DEF DrawnInv, Drawn
<1>5. server.upgrade_id = id /\ server.switch_to_udp_sent
  OBVIOUS
<1> HIDE DEF h
<1>6. /\ server.udp_session # None /\ server.peer_known /\ server.authenticated
      /\ Traffic(server.udp_session) /\ server.pending_tcp_fallback = None
  <2>1. /\ server.ready_seen /\ server.udp_session # None /\ server.peer_known /\ server.authenticated
        /\ Probed(server.udp_session, server.upgrade_id)
    BY <1>1, <1>5 DEF ServerInv
  <2> QED BY <1>1, <2>1 DEF ServerInv, Probed, Traffic
<1>7. /\ server' \in ServerRecord /\ SameServer(server', server)
      /\ server'.active_transport = "UdpQsp" /\ server'.udp_session = server.udp_session
      /\ server'.peer_known = server.peer_known /\ server'.authenticated = server.authenticated
      /\ server'.upgrade_id = None /\ ~server'.probe_seen /\ ~server'.ready_seen /\ ~server'.switch_to_udp_sent
      /\ Len(server'.stale_upgrade_ids) <= MAX_STALE_UPGRADE_IDS
      /\ \A i \in DOMAIN server'.stale_upgrade_ids :
            server'.stale_upgrade_ids[i] = id \/ IsStale(server, server'.stale_upgrade_ids[i])
  <2> DEFINE b == [server EXCEPT !.active_transport = "UdpQsp"]
             t == remember_stale_upgrade_id(b, id)
  <2>1. b \in ServerRecord
    BY <1>1, SetServer
  <2>2. /\ SameServer(b, server) /\ b.active_transport = "UdpQsp"
        /\ b.udp_session = server.udp_session /\ b.peer_known = server.peer_known
        /\ b.authenticated = server.authenticated /\ b.stale_upgrade_ids = server.stale_upgrade_ids
    BY <1>1 DEF ServerRecord, SameServer
  <2>3. server' = reset_udp_upgrade_attempt_preserving_history(t)
    BY DEF h
  <2>4. Len(b.stale_upgrade_ids) <= MAX_STALE_UPGRADE_IDS
    BY <1>1, <2>2 DEF TypeOK
  <2> HIDE DEF b, id
  <2>5. /\ t \in ServerRecord /\ SameServer(t, b)
        /\ t.active_transport = b.active_transport /\ t.udp_session = b.udp_session
        /\ t.peer_known = b.peer_known /\ t.authenticated = b.authenticated
        /\ Len(t.stale_upgrade_ids) <= MAX_STALE_UPGRADE_IDS
        /\ \A i \in DOMAIN t.stale_upgrade_ids :
              t.stale_upgrade_ids[i] = id \/ IsStale(b, t.stale_upgrade_ids[i])
    BY <1>4, <2>1, <2>4, RememberFields
  <2> HIDE DEF t
  <2>6. /\ server' \in ServerRecord /\ SameServer(server', t)
        /\ server'.active_transport = t.active_transport /\ server'.udp_session = t.udp_session
        /\ server'.peer_known = t.peer_known /\ server'.authenticated = t.authenticated
        /\ server'.upgrade_id = None /\ ~server'.probe_seen /\ ~server'.ready_seen /\ ~server'.switch_to_udp_sent
        /\ server'.stale_upgrade_ids = t.stale_upgrade_ids
    BY <2>3, <2>5, ResetFields
  <2>7. \A x : IsStale(b, x) <=> IsStale(server, x)
    BY <2>2 DEF IsStale
  <2> QED BY <2>2, <2>5, <2>6, <2>7 DEF SameServer
<1> HIDE DEF id
<1>8. PICK m \in Messages : m = Msg("SwitchOk", id) /\ m.type = "SwitchOk" /\ m.id = id
  BY <1>4, NewMessages
<1>9. /\ to_client' \in Seq(Messages)
      /\ Elems(to_client) \subseteq Elems(to_client') /\ Elems(to_client') \subseteq Elems(to_client) \cup {m}
      /\ tcp_up => m \in Elems(to_client')
      /\ \A a, b : Before(to_client', a, b) => Before(to_client, a, b) \/ (a \in Elems(to_client) /\ b = m)
      /\ \A X : Has(to_client, X) => Has(to_client', X)
      /\ \A X : m \notin X /\ Has(to_client', X) => Has(to_client, X)
      /\ \A Y, Z : Preceded(to_client, Y, Z) /\ m \notin Y => Preceded(to_client', Y, Z)
  <2>1. to_client' = Written(to_client, m)
    BY <1>8 DEF id, h
  <2> QED BY <2>1, ServerWrites
<1>10. /\ m \notin Requests /\ m \notin Of("SwitchToUdp") /\ m \in The("SwitchOk", id)
       /\ \A x : m \notin OkFor(x) /\ m \notin The("FallbackOk", x) /\ m \notin The("FallbackToTcp", x)
                 /\ m \notin The("SwitchToUdp", x)
  BY <1>8 DEF Requests, Of, OkFor, The
<1>11. ClientInv' /\ (Upgrading' <=> Upgrading) /\ (Awaiting' <=> Awaiting) /\ \A n : Drawn(n)' <=> Drawn(n)
  BY ClientStays
<1>12. \A x : ~Readied(x)' /\ (x # None => ~Matching(x)')
  BY <1>7 DEF Readied, Matching
<1>13. \A k : Traffic(k)' <=> Traffic(k)
  BY DEF Traffic
<1>14. /\ \A x : IsStale(server', x) => x \in Nat /\ x <= id /\ x <= used.upgrade
  <2>1. \A n \in DOMAIN server.stale_upgrade_ids :
           /\ server.stale_upgrade_ids[n] \in Nat
           /\ server.stale_upgrade_ids[n] <= id /\ server.stale_upgrade_ids[n] <= used.upgrade
    <3>1. \A n \in DOMAIN server.stale_upgrade_ids : server.stale_upgrade_ids[n] \in UpgradeId
      BY <1>1, InFlightTypes
    <3>2. UpgradeId \subseteq Nat
      BY SwitchAssumption DEF UpgradeId
    <3>3. Matching(id)
      BY <1>5 DEF Matching
    <3>4. \A n \in DOMAIN server.stale_upgrade_ids : server.stale_upgrade_ids[n] <= id
      BY <1>1, <1>2, <1>3, <3>3 DEF ReadyInv, id
    <3> QED BY <1>1, <3>1, <3>2, <3>4 DEF DrawnInv
  <2>2. \A x : IsStale(server, x) => x \in Nat /\ x <= id /\ x <= used.upgrade
    BY <2>1 DEF IsStale
  <2>3. id <= id
    BY <1>4
  <2> QED BY SMTT(60), <1>4, <1>7, <2>2, <2>3 DEF IsStale
<1>15. \A n \in Elems(to_server') : n \in Of("UdpReady") => id < n.id /\ n.id \in Nat
  <2>1. \A n \in Elems(to_server') : n \in Of("UdpReady") => id < n.id
    BY <1>1, <1>2, <1>3 DEF ReadyInv, id
  <2> QED BY <1>1, <1>2, <2>1, InFlightTypes, MessageTypes DEF Of
<1>16. \A x \in Nat : id < x => ~IsStale(server', x)
  <2> SUFFICES ASSUME NEW x \in Nat, id < x, IsStale(server', x) PROVE FALSE
    OBVIOUS
  <2>1. x <= id
    BY <1>14
  <2> QED BY <1>4, <2>1
<1>17. TypeOK'
  BY <1>1, <1>2, <1>7, <1>9 DEF TypeOK
<1>18. ServerInv'
  BY <1>1, <1>6, <1>7, <1>13 DEF ServerInv, StaleAttemptStaysStale, SameServer
<1>19. DatagramInv'
  BY <1>1 DEF DatagramInv, Probed
<1>20. DrawnInv'
  <2>1. Drawn(m)
    BY <1>4, <1>8 DEF Drawn
  <2>2. \A i \in DOMAIN server'.stale_upgrade_ids : server'.stale_upgrade_ids[i] <= used.upgrade
    BY <1>14 DEF IsStale
  <2>3. server'.upgrade_id <= used.upgrade
    <3>1. used.upgrade \in Nat
      BY <1>1, Numbers
    <3> QED BY <1>7, <3>1 DEF None
  <2> QED BY SMTT(60), <1>1, <1>2, <1>7, <1>9, <1>11, <2>1, <2>2, <2>3 DEF DrawnInv, SameServer
<1>21. ArrivalInv'
  BY <1>1, <1>2, <1>7 DEF ArrivalInv, AtMostOne, SameServer
<1>22. Preceded(to_server', Regs, Requests)
  BY <1>1, <1>2, <1>3, <1>5 DEF SwitchInv
<1>23. SwitchInv'
  BY <1>7, <1>22 DEF SwitchInv
<1>24. ReadyInv'
  <2>1. \A n \in Elems(to_server') : n \in Of("UdpReady") =>
            /\ \E k \in Key : Probed(k, n.id)'
            /\ \A a \in Elems(to_server') : a \in Of("SwitchAck") => a.id < n.id
    BY <1>1, <1>2 DEF ReadyInv, Probed
  <2>2. \A n \in Elems(to_server') : n \in Of("SwitchAck") => n.id # None
    BY <1>1, <1>2, InFlightTypes, MessageTypes DEF Of
  <2>3. server'.pending_tcp_fallback = None
    BY <1>6, <1>7 DEF SameServer
  <2> QED BY <1>7, <1>12, <1>15, <1>16, <2>1, <2>2, <2>3 DEF ReadyInv
<1>25. TrafficInv'
  BY <1>1, <1>2, <1>7, <1>9, <1>10, <1>13 DEF TrafficInv
<1>26. CountInv'
  <2>1. Charged \in Nat /\ Charged' \in Nat /\ Charged' <= Charged
    BY <1>1, <1>7, <1>11, NoCharge
  <2> QED BY <1>1, <1>2, <2>1, CountKept DEF Inv
<1>27. ASSUME tcp_up' PROVE Link'
  <2>1. Link /\ tcp_up
    BY <1>27 DEF Inv
  <2>2. BothConnected'
    BY <1>7, <2>1 DEF Link, BothConnected, SameServer
  <2>3. RegisterLink'
    <3>1. \A n : RegisterFailCodes(n)' = RegisterFailCodes(n)
      BY <1>7 DEF RegisterFailCodes, SameServer
    <3>2. server'.rejects_auto_cipher = server.rejects_auto_cipher
      BY <1>7 DEF SameServer
    <3> QED BY <1>2, <1>3, <1>7, <1>9, <1>10, <2>1, <3>1, <3>2 DEF Link, RegisterLink
  <2>4. ClientFallbackLink'
    BY <1>2, <1>3, <1>9, <1>10, <1>11, <1>12, <2>1 DEF Link, ClientFallbackLink, Ordered
  <2>5. ServerFallbackLink'
    <3>1. server'.pending_tcp_fallback = server.pending_tcp_fallback
      BY <1>7 DEF SameServer
    <3> QED BY <1>2, <1>3, <1>7, <1>9, <1>10, <2>1, <3>1 DEF Link, ServerFallbackLink, Ordered, AtMostOne
  <2>6. AttemptLink'
    <3>1. Upgrading => id < client.upgrade_id /\ client.upgrade_id \in Nat
      <4>1. Upgrading => client.upgrade_id # id
        BY <1>2, <1>3, <2>1 DEF Link, AttemptLink, Has
      <4>2. Upgrading => client.upgrade_id = used.upgrade
        BY <1>1 DEF ClientInv
      <4>3. used.upgrade \in Nat
        BY <1>1, Numbers
      <4> QED BY <1>4, <4>1, <4>2, <4>3
    <3>2. ~Has(to_server', The("UdpReady", id))
      <4>1. ~(id < id)
        BY <1>4
      <4> QED BY <1>15, <4>1 DEF Has, The, Of
    <3>3. Upgrading => ~IsStale(server', client.upgrade_id)
      BY <1>16, <3>1
    <3>4. \A n \in Elems(to_client') : n \in Of("SwitchOk") =>
             /\ Upgrading => n.id < client.upgrade_id
             /\ ~Has(to_server', The("UdpReady", n.id))
      BY <1>2, <1>8, <1>9, <2>1, <3>1, <3>2 DEF Link, AttemptLink
    <3> QED BY <1>2, <1>9, <1>10, <1>11, <1>12, <2>1, <3>3, <3>4 DEF Link, AttemptLink
  <2>7. CommitLink'
    <3>1. Has(to_server', Requests) \/ Committed'
      <4>1. CASE Awaiting /\ client.upgrade_id = id
        <5>1. Has(to_client', The("SwitchOk", id))
          BY <1>9, <1>10, <2>1 DEF Has
        <5> QED BY <1>11, <4>1, <5>1 DEF Committed
      <4>2. CASE Followed(to_server, The("SwitchAck", id), Requests)
        BY <1>2, <1>3, <4>2
      <4> QED BY <1>5, <2>1, <4>1, <4>2 DEF Link, CommitLink
    <3>2. Committed' => ~Has(to_server', Regs)
      <4>1. Committed' => client.pending_tcp_fallback = None
        BY <1>1, <1>11, <2>1 DEF Committed, ClientInv, Link, ClientFallbackLink
      <4>2. client.pending_tcp_fallback = None => ~Has(to_server', Requests)
        <5>1. \A n \in Elems(to_server') : n \in Requests => n.id # None
          BY <1>1, <1>2, InFlightTypes, MessageTypes DEF Requests, Of
        <5> QED BY <1>2, <2>1, <5>1 DEF Link, ClientFallbackLink, Has
      <4>3. ~Has(to_server', Requests) => ~Has(to_server', Regs)
        BY <1>22 DEF Preceded, Has, Elems
      <4> QED BY <4>1, <4>2, <4>3
    <3> QED BY <1>7, <3>1, <3>2 DEF CommitLink
  <2> QED BY <2>2, <2>3, <2>4, <2>5, <2>6, <2>7 DEF Link
<1> QED BY <1>11, <1>17, <1>18, <1>19, <1>20, <1>21, <1>23, <1>24, <1>25, <1>26, <1>27 DEF Inv

LEMMA SwitchAckKeepsInv ==
    ASSUME Inv, handle_switch_ack
    PROVE  Inv'
<1> DEFINE h == Head(to_server)
<1>1. /\ to_server # <<>> /\ h.type = "SwitchAck" /\ to_server' = Tail(to_server)
      /\ UNCHANGED <<client, tcp_up, datagrams, used>>
  BY DEF handle_switch_ack, ServerReads
<1>2. CASE server.upgrade_id = h.id /\ server.switch_to_udp_sent
  BY <1>1, <1>2, SwitchAckAcceptedKeepsInv DEF handle_switch_ack
<1>3. CASE ~(server.upgrade_id = h.id /\ server.switch_to_udp_sent)
  <2>1. UNCHANGED <<server, to_client>>
    BY <1>3 DEF handle_switch_ack
  <2>2. /\ h \notin Regs /\ h \notin Requests /\ h \notin The("FallbackOk", server.pending_tcp_fallback)
    BY <1>1 DEF Regs, Requests, Of, The
  <2> QED BY <1>1, <2>1, <2>2, ServerIgnoresKeepsInv
<1> QED BY <1>2, <1>3

-----------------------------------------------------------------------------
(* The server: fallback                                                    *)

LEMMA ServerFallbackToTcpKeepsInv ==
    ASSUME Inv, ServerHandlesFallbackToTcp
    PROVE  Inv'
<1> DEFINE h == Head(to_server)
           id == h.id
<1>1. /\ TypeOK /\ ClientInv /\ ServerInv /\ DrawnInv /\ DatagramInv /\ ReadyInv /\ ArrivalInv /\ SwitchInv
      /\ TrafficInv /\ server \in ServerRecord
  BY DEF Inv, TypeOK
<1>2. /\ to_server # <<>> /\ h.type = "FallbackToTcp" /\ to_server' = Tail(to_server)
      /\ server' = IF server.last_peer_fallback_id = id THEN server
                   ELSE [reset_udp_upgrade_state(server) EXCEPT
                            !.active_transport = "Tcp", !.last_peer_fallback_id = id]
      /\ to_client' = Written(to_client, Msg("FallbackOk", id))
      /\ UNCHANGED <<client, tcp_up, datagrams, used>>
  BY DEF ServerHandlesFallbackToTcp, ServerReads
<1>3. /\ h \in Messages /\ h \in Elems(to_server) /\ to_server' \in Seq(Messages)
      /\ Elems(to_server) = {h} \cup Elems(to_server')
      /\ \A a, b : Before(to_server', a, b) => Before(to_server, a, b)
      /\ \A b \in Elems(to_server') : Before(to_server, h, b) /\ b \in Messages
      /\ \A X : Has(to_server', X) => Has(to_server, X)
      /\ \A X : h \notin X /\ Has(to_server, X) => Has(to_server', X)
      /\ \A Y, Z : Preceded(to_server, Y, Z) =>
            h \notin Y /\ (h \notin Z => Preceded(to_server', Y, Z))
  BY <1>2, ServerTail
<1>4. /\ h \notin Regs /\ h \in Requests /\ h \notin Of("UdpReady")
      /\ \A x : h \notin RegOf(x) /\ h \notin The("FallbackOk", x)
  BY <1>2, <1>3 DEF Regs, RegOf, Of, Requests, The
<1>5. id \in FallbackId /\ id \in Nat /\ id # None /\ id <= used.fallback
  BY <1>1, <1>2, <1>3, MessageTypes DEF DrawnInv, Drawn
<1>6. server.last_peer_fallback_id # id
  <2>1. server.last_peer_fallback_id < id
    BY <1>1, <1>3, <1>4 DEF ArrivalInv
  <2>2. ~(id < id)
    BY <1>5
  <2> QED BY <2>1, <2>2
<1>7. ~Has(to_server', Requests)
  BY <1>1, <1>3, <1>4 DEF ArrivalInv, AtMostOne, Has
<1> HIDE DEF id
<1>8. /\ server' \in ServerRecord
      /\ server'.rejects_auto_cipher = server.rejects_auto_cipher
      /\ server'.run = server.run /\ server'.tcp_alive = server.tcp_alive
      /\ server'.pending_tcp_fallback = server.pending_tcp_fallback
      /\ server'.last_peer_fallback_id = id
      /\ server'.active_transport = "Tcp" /\ server'.udp_session = server.udp_session
      /\ server'.peer_known = server.peer_known /\ server'.authenticated = server.authenticated
      /\ server'.upgrade_id = None /\ ~server'.probe_seen /\ ~server'.ready_seen /\ ~server'.switch_to_udp_sent
      /\ server'.stale_upgrade_ids = <<>>
  <2> DEFINE t == reset_udp_upgrade_state(server)
             b == [t EXCEPT !.active_transport = "Tcp"]
  <2>1. /\ t \in ServerRecord /\ SameServer(t, server)
        /\ t.active_transport = server.active_transport /\ t.udp_session = server.udp_session
        /\ t.peer_known = server.peer_known /\ t.authenticated = server.authenticated
        /\ t.upgrade_id = None /\ ~t.probe_seen /\ ~t.ready_seen /\ ~t.switch_to_udp_sent
        /\ t.stale_upgrade_ids = <<>>
    BY <1>1, ResetStateFields
  <2>2. server' = [b EXCEPT !.last_peer_fallback_id = id]
    BY <1>2, <1>6
  <2> HIDE DEF t
  <2>3. b \in ServerRecord
    BY <2>1, SetServer
  <2>4. /\ SameServer(b, t) /\ b.active_transport = "Tcp" /\ b.udp_session = t.udp_session
        /\ b.peer_known = t.peer_known /\ b.authenticated = t.authenticated
        /\ b.upgrade_id = t.upgrade_id /\ b.probe_seen = t.probe_seen /\ b.ready_seen = t.ready_seen
        /\ b.switch_to_udp_sent = t.switch_to_udp_sent /\ b.stale_upgrade_ids = t.stale_upgrade_ids
    BY <2>1 DEF ServerRecord, SameServer
  <2> HIDE DEF b
  <2>5. server' \in ServerRecord
    BY <1>5, <2>2, <2>3, SetServer
  <2>6. /\ server'.rejects_auto_cipher = b.rejects_auto_cipher
        /\ server'.run = b.run /\ server'.tcp_alive = b.tcp_alive
        /\ server'.pending_tcp_fallback = b.pending_tcp_fallback
        /\ server'.last_peer_fallback_id = id
        /\ server'.active_transport = b.active_transport /\ server'.udp_session = b.udp_session
        /\ server'.peer_known = b.peer_known /\ server'.authenticated = b.authenticated
    BY <2>2, <2>3 DEF ServerRecord
  <2>7. /\ server'.upgrade_id = b.upgrade_id /\ server'.probe_seen = b.probe_seen
        /\ server'.ready_seen = b.ready_seen /\ server'.switch_to_udp_sent = b.switch_to_udp_sent
        /\ server'.stale_upgrade_ids = b.stale_upgrade_ids
    BY <2>2, <2>3 DEF ServerRecord
  <2> QED BY <2>1, <2>4, <2>5, <2>6, <2>7 DEF SameServer
<1> HIDE DEF h
<1>9. PICK m \in Messages : m = Msg("FallbackOk", id) /\ m.type = "FallbackOk" /\ m.id = id
  BY <1>5, NewMessages
<1>10. /\ to_client' \in Seq(Messages)
       /\ Elems(to_client) \subseteq Elems(to_client') /\ Elems(to_client') \subseteq Elems(to_client) \cup {m}
       /\ tcp_up => m \in Elems(to_client')
       /\ \A a, b : Before(to_client', a, b) => Before(to_client, a, b) \/ (a \in Elems(to_client) /\ b = m)
       /\ \A X : Has(to_client, X) => Has(to_client', X)
       /\ \A X : m \notin X /\ Has(to_client', X) => Has(to_client, X)
       /\ \A Y, Z : Preceded(to_client, Y, Z) /\ m \notin Y => Preceded(to_client', Y, Z)
  BY <1>2, <1>9, ServerWrites
<1>11. /\ m \notin Requests /\ m \notin Of("SwitchToUdp") /\ m \notin Of("SwitchOk") /\ m \in The("FallbackOk", id)
       /\ \A x : m \notin OkFor(x) /\ m \notin The("FallbackToTcp", x)
                 /\ m \notin The("SwitchToUdp", x) /\ m \notin The("SwitchOk", x)
  BY <1>9 DEF Requests, Of, OkFor, The
<1>12. ClientInv' /\ (Upgrading' <=> Upgrading) /\ (Awaiting' <=> Awaiting) /\ \A n : Drawn(n)' <=> Drawn(n)
  BY <1>2, ClientStays
<1>13. \A x : ~IsStale(server', x) /\ ~Readied(x)' /\ ~Matching(x)'
  BY <1>8, NoStaleIds DEF IsStale, Readied, Matching
<1>14. \A k : Traffic(k)' <=> Traffic(k)
  BY <1>2 DEF Traffic
<1>15. TypeOK'
  <2>1. Len(server'.stale_upgrade_ids) <= MAX_STALE_UPGRADE_IDS
    BY <1>8, NoStaleIds, SwitchAssumption
  <2> QED BY <1>1, <1>2, <1>3, <1>8, <1>10, <2>1 DEF TypeOK
<1>16. ServerInv'
  BY <1>1, <1>8, <1>14 DEF ServerInv, StaleAttemptStaysStale
<1>17. DatagramInv'
  BY <1>1, <1>2 DEF DatagramInv, Probed
<1>18. DrawnInv'
  <2>1. Drawn(m)
    BY <1>5, <1>9 DEF Drawn
  <2>2. server'.upgrade_id <= used.upgrade
    <3>1. used.upgrade \in Nat
      BY <1>1, Numbers
    <3> QED BY <1>8, <3>1 DEF None
  <2> QED BY <1>1, <1>2, <1>3, <1>5, <1>8, <1>10, <1>12, <2>1, <2>2, NoStaleIds DEF DrawnInv
<1>19. ArrivalInv'
  BY <1>1, <1>3, <1>7, <1>8 DEF ArrivalInv, AtMostOne, Has
<1>20. SwitchInv'
  BY <1>8 DEF SwitchInv
<1>21. ReadyInv'
  <2>1. \A n \in Elems(to_server') : n \in LiveReady' => n \in LiveReady
    BY <1>2, <1>3, <1>8 DEF LiveReady, Probed
  <2>2. server.pending_tcp_fallback # None =>
           Preceded(to_server', LiveReady, The("FallbackOk", server.pending_tcp_fallback))
    BY <1>1, <1>3, <1>4 DEF ReadyInv
  <2>3. server.pending_tcp_fallback # None =>
           Preceded(to_server', LiveReady', The("FallbackOk", server.pending_tcp_fallback))
    BY <2>1, <2>2, PrecededFewer
  <2>5. \A n \in Elems(to_server') : n \in Of("UdpReady") =>
            /\ \E k \in Key : Probed(k, n.id)'
            /\ \A a \in Elems(to_server') : a \in Of("SwitchAck") => a.id < n.id
    BY <1>1, <1>2, <1>3 DEF ReadyInv, Probed
  <2> QED BY <1>8, <1>13, <2>3, <2>5 DEF ReadyInv
<1>22. TrafficInv'
  BY <1>1, <1>2, <1>3, <1>8, <1>10, <1>11, <1>14 DEF TrafficInv
<1>23. CountInv'
  <2>1. Charged \in Nat /\ Charged' \in Nat /\ Charged' <= Charged
    BY <1>1, <1>2, <1>8, <1>12, NoCharge
  <2> QED BY <1>1, <1>2, <1>3, <2>1, CountKept DEF Inv
<1>24. ASSUME tcp_up' PROVE Link'
  <2>1. Link /\ tcp_up
    BY <1>2, <1>24 DEF Inv
  <2>2. BothConnected'
    BY <1>2, <1>8, <2>1 DEF Link, BothConnected
  <2>3. client.pending_tcp_fallback = id
    BY <1>3, <1>4, <2>1 DEF Link, ClientFallbackLink, id
  <2>4. RegisterLink'
    <3>1. \A n : RegisterFailCodes(n)' = RegisterFailCodes(n)
      BY <1>8 DEF RegisterFailCodes
    <3> QED BY <1>2, <1>3, <1>4, <1>8, <1>10, <1>11, <2>1, <3>1 DEF Link, RegisterLink
  <2>5. ClientFallbackLink'
    <3>1. Has(to_client', The("FallbackOk", id))
      BY <1>10, <1>11, <2>1 DEF Has
    <3>2. \A n \in Elems(to_server') : n \notin Requests
      BY <1>7 DEF Has
    <3>3. Upgrading => Preceded(to_client', The("SwitchToUdp", client.upgrade_id), The("FallbackOk", id))
      BY <1>5, <1>10, <1>11, <2>1, <2>3 DEF Link, ClientFallbackLink
    <3>4. Upgrading => Ordered(to_server', Requests, The("UdpReady", client.upgrade_id))
      BY <1>3, <2>1 DEF Link, ClientFallbackLink, Ordered
    <3>5. ~Awaiting
      BY <1>5, <2>1, <2>3 DEF Link, ClientFallbackLink
    <3> QED BY <1>2, <1>7, <1>12, <2>3, <3>1, <3>2, <3>3, <3>4, <3>5 DEF ClientFallbackLink
  <2>6. ServerFallbackLink'
    BY <1>2, <1>3, <1>4, <1>8, <1>10, <1>11, <2>1 DEF Link, ServerFallbackLink, Ordered, AtMostOne
  <2>7. AttemptLink'
    BY <1>2, <1>3, <1>10, <1>11, <1>12, <1>13, <2>1 DEF Link, AttemptLink
  <2>8. CommitLink'
    <3>1. ~Awaiting /\ client.active_transport # "UdpQsp"
      BY <1>1, <1>5, <2>1, <2>3 DEF Link, ClientFallbackLink, ClientInv
    <3>2. ~Committed'
      BY <1>2, <1>12, <3>1 DEF Committed
    <3> QED BY <1>8, <3>2 DEF CommitLink
  <2> QED BY <2>2, <2>4, <2>5, <2>6, <2>7, <2>8 DEF Link
<1> QED BY <1>12, <1>15, <1>16, <1>17, <1>18, <1>19, <1>20, <1>21, <1>22, <1>23, <1>24 DEF Inv

\* FALLBACK_OK for the request that is unanswered.
LEMMA ServerFallbackAnsweredKeepsInv ==
    ASSUME Inv, to_server # <<>>, Head(to_server).type = "FallbackOk",
           server.pending_tcp_fallback = Head(to_server).id,
           server' = [server EXCEPT !.pending_tcp_fallback = None],
           to_server' = Tail(to_server), UNCHANGED <<client, tcp_up, to_client, datagrams, used>>
    PROVE  Inv'
<1> DEFINE h == Head(to_server)
<1>1. /\ TypeOK /\ ClientInv /\ ServerInv /\ DrawnInv /\ DatagramInv /\ ReadyInv /\ ArrivalInv /\ SwitchInv
      /\ TrafficInv /\ server \in ServerRecord
  BY DEF Inv, TypeOK
<1>2. /\ h \in Messages /\ h \in Elems(to_server) /\ to_server' \in Seq(Messages)
      /\ Elems(to_server) = {h} \cup Elems(to_server')
      /\ \A a, b : Before(to_server', a, b) => Before(to_server, a, b)
      /\ \A X : Has(to_server', X) => Has(to_server, X)
      /\ \A X : h \notin X /\ Has(to_server, X) => Has(to_server', X)
      /\ \A Y, Z : Preceded(to_server, Y, Z) =>
            h \notin Y /\ (h \notin Z => Preceded(to_server', Y, Z))
      /\ \A X, Z : Followed(to_server, X, Z) => Followed(to_server', X, Z)
      /\ \A X, Y, Z : Between(to_server, X, Y, Z) => Between(to_server', X, Y, Z)
  BY ServerTail
<1>3. /\ h \notin Regs /\ h \notin Requests /\ h \in The("FallbackOk", server.pending_tcp_fallback)
      /\ \A x : h \notin RegOf(x) /\ h \notin The("FallbackToTcp", x)
  BY <1>2 DEF Regs, RegOf, Of, Requests, The
<1>4. h.id # None /\ server.pending_tcp_fallback = h.id
  BY <1>2, MessageTypes
<1> HIDE DEF h
<1>5. server' \in ServerRecord
  <2>1. \A v \in FallbackId \cup {None} : [server EXCEPT !.pending_tcp_fallback = v] \in ServerRecord
    BY <1>1, SetServer
  <2> QED BY <2>1
<1>6. /\ server'.rejects_auto_cipher = server.rejects_auto_cipher
      /\ server'.run = server.run /\ server'.tcp_alive = server.tcp_alive
      /\ server'.pending_tcp_fallback = None
      /\ server'.last_peer_fallback_id = server.last_peer_fallback_id
      /\ server'.active_transport = server.active_transport /\ server'.udp_session = server.udp_session
      /\ server'.peer_known = server.peer_known /\ server'.authenticated = server.authenticated
  BY <1>1 DEF ServerRecord
<1>7. /\ server'.upgrade_id = server.upgrade_id /\ server'.probe_seen = server.probe_seen
      /\ server'.ready_seen = server.ready_seen /\ server'.switch_to_udp_sent = server.switch_to_udp_sent
      /\ server'.stale_upgrade_ids = server.stale_upgrade_ids
  BY <1>1 DEF ServerRecord
<1>8. ClientInv' /\ (Upgrading' <=> Upgrading) /\ (Awaiting' <=> Awaiting) /\ \A n : Drawn(n)' <=> Drawn(n)
  BY ClientStays
<1>9. \A x : (IsStale(server', x) <=> IsStale(server, x)) /\ (Readied(x)' <=> Readied(x)) /\ (Matching(x)' <=> Matching(x))
  BY <1>7 DEF IsStale, Readied, Matching
<1>10. /\ \A k : Traffic(k)' <=> Traffic(k)
       /\ \A k, x : Probed(k, x)' <=> Probed(k, x)
  BY DEF Traffic, Probed
<1>11. TypeOK'
  BY <1>1, <1>2, <1>5, <1>7 DEF TypeOK
<1>12. ServerInv'
  BY <1>1, <1>6, <1>7, <1>9, <1>10 DEF ServerInv, StaleAttemptStaysStale
<1>13. DatagramInv'
  BY <1>1 DEF DatagramInv, Probed
<1>14. DrawnInv'
  <2>1. server'.pending_tcp_fallback <= used.fallback
    <3>1. used.fallback \in Nat
      BY <1>1, Numbers
    <3> QED BY <1>6, <3>1 DEF None
  <2> QED BY <1>1, <1>2, <1>6, <1>7, <1>8, <2>1 DEF DrawnInv
<1>15. ArrivalInv'
  BY <1>1, <1>2, <1>6 DEF ArrivalInv, AtMostOne
<1>16. SwitchInv'
  BY <1>1, <1>2, <1>3, <1>6, <1>7 DEF SwitchInv
<1>17. ReadyInv'
  BY <1>1, <1>2, <1>6, <1>7, <1>9, <1>10 DEF ReadyInv
<1>18. TrafficInv'
  BY <1>1, <1>2, <1>6, <1>10 DEF TrafficInv
<1>19. CountInv'
  <2>1. Charged \in Nat /\ Charged' \in Nat /\ Charged' <= Charged
    BY <1>1, <1>6, <1>8, NoCharge
  <2> QED BY <1>1, <1>2, <2>1, CountKept DEF Inv
<1>20. ASSUME tcp_up' PROVE Link'
  <2>1. Link /\ tcp_up
    BY <1>20 DEF Inv
  <2>2. BothConnected'
    BY <1>6, <2>1 DEF Link, BothConnected
  <2>3. RegisterLink'
    <3>1. \A n : RegisterFailCodes(n)' = RegisterFailCodes(n)
      BY <1>6 DEF RegisterFailCodes
    <3> QED BY <1>2, <1>3, <1>6, <2>1, <3>1 DEF Link, RegisterLink
  <2>4. ClientFallbackLink'
    BY <1>2, <1>3, <1>8, <1>9, <2>1 DEF Link, ClientFallbackLink, Ordered
  <2>5. ServerFallbackLink'
    <3>1. ~Has(to_client, Requests)
      BY <1>2, <1>3, <1>4, <2>1 DEF Link, ServerFallbackLink, Has
    <3>2. \A n \in Elems(to_client) : n \notin Requests
      BY <3>1 DEF Has
    <3> QED BY <1>2, <1>6, <2>1, <3>1, <3>2 DEF Link, ServerFallbackLink
  <2>6. AttemptLink'
    BY <1>2, <1>7, <1>8, <1>9, <2>1 DEF Link, AttemptLink
  <2>7. CommitLink'
    BY <1>2, <1>3, <1>6, <1>7, <1>8, <2>1 DEF Link, CommitLink, Committed
  <2> QED BY <2>2, <2>3, <2>4, <2>5, <2>6, <2>7 DEF Link
<1> QED BY <1>8, <1>11, <1>12, <1>13, <1>14, <1>15, <1>16, <1>17, <1>18, <1>19, <1>20 DEF Inv

LEMMA ServerFallbackOkKeepsInv ==
    ASSUME Inv, ServerHandlesFallbackOk
    PROVE  Inv'
<1> DEFINE h == Head(to_server)
<1>1. /\ to_server # <<>> /\ h.type = "FallbackOk" /\ to_server' = Tail(to_server)
      /\ UNCHANGED <<client, tcp_up, to_client, datagrams, used>>
  BY DEF ServerHandlesFallbackOk, ServerReads
<1>2. CASE server.pending_tcp_fallback = h.id
  BY <1>1, <1>2, ServerFallbackAnsweredKeepsInv DEF ServerHandlesFallbackOk
<1>3. CASE server.pending_tcp_fallback # h.id
  <2>1. UNCHANGED server
    BY <1>3 DEF ServerHandlesFallbackOk
  <2>2. /\ h \notin Regs /\ h \notin Requests /\ h \notin The("FallbackOk", server.pending_tcp_fallback)
    BY <1>1, <1>3 DEF Regs, Requests, Of, The
  <2> QED BY <1>1, <2>1, <2>2, ServerIgnoresKeepsInv
<1> QED BY <1>2, <1>3

-----------------------------------------------------------------------------
(* The server: datagrams                                                   *)

\* The session has no transport any more, and prefers TCP.
Retired(t, s) ==
    /\ t \in ServerRecord /\ SameServer(t, s)
    /\ t.active_transport = "Tcp" /\ t.udp_session = None
    /\ t.upgrade_id = None /\ ~t.probe_seen /\ ~t.ready_seen /\ ~t.switch_to_udp_sent
    /\ t.stale_upgrade_ids = <<>>

\* Datagrams are sealed with keys; an upgraded client has some.
LEMMA KeysAreDrawn ==
    ASSUME Inv
    PROVE  /\ ~Traffic(None)
           /\ client.udp_state = "Active" => used.key # None
           /\ \A m \in Elems(to_server) : m \in Regs => None < m.key
<1>1. TypeOK /\ ClientInv
  BY DEF Inv
<1>2. None \notin Key
  BY SwitchAssumption DEF Key, None
<1>3. ~Traffic(None)
  BY <1>1, <1>2, InFlightTypes DEF Traffic
<1>4. client.udp_state = "Active" => used.key # None
  BY <1>1 DEF ClientInv
<1>5. ASSUME NEW m \in Elems(to_server), m \in Regs
      PROVE  None < m.key
  <2>1. m.key \in Nat /\ m.key # None
    BY <1>1, <1>5, InFlightTypes, MessageTypes DEF Regs, Of
  <2> QED BY <2>1 DEF None
<1> QED BY <1>3, <1>4, <1>5

\* The server gives its transport up without a word to the client.
LEMMA RetireKeepsInv ==
    ASSUME Inv, Retired(server', server),
           UNCHANGED <<client, tcp_up, to_server, to_client, datagrams, used>>
    PROVE  Inv'
<1>1. /\ TypeOK /\ ClientInv /\ ServerInv /\ DrawnInv /\ DatagramInv /\ ReadyInv /\ ArrivalInv
      /\ TrafficInv
  BY DEF Inv
<1>2. /\ server' \in ServerRecord /\ SameServer(server', server)
      /\ server'.active_transport = "Tcp" /\ server'.udp_session = None
      /\ server'.upgrade_id = None /\ ~server'.probe_seen /\ ~server'.ready_seen /\ ~server'.switch_to_udp_sent
      /\ server'.stale_upgrade_ids = <<>>
  BY DEF Retired
<1>3. /\ ~Traffic(None) /\ (client.udp_state = "Active" => used.key # None)
      /\ \A m \in Elems(to_server) : m \in Regs => None < m.key
  BY KeysAreDrawn
<1>4. ClientInv' /\ (Upgrading' <=> Upgrading) /\ (Awaiting' <=> Awaiting) /\ \A n : Drawn(n)' <=> Drawn(n)
  BY ClientStays
<1>5. \A x : ~IsStale(server', x) /\ ~Readied(x)' /\ ~Matching(x)'
  BY <1>2, NoStaleIds DEF IsStale, Readied, Matching
<1>6. /\ \A k : Traffic(k)' <=> Traffic(k)
      /\ \A k, x : Probed(k, x)' <=> Probed(k, x)
  BY DEF Traffic, Probed
<1>7. TypeOK'
  <2>1. Len(server'.stale_upgrade_ids) <= MAX_STALE_UPGRADE_IDS
    BY <1>2, NoStaleIds, SwitchAssumption
  <2> QED BY <1>1, <1>2, <2>1 DEF TypeOK
<1>8. ServerInv'
  BY <1>1, <1>2 DEF ServerInv, StaleAttemptStaysStale, SameServer
<1>9. DatagramInv'
  BY <1>1 DEF DatagramInv, Probed
<1>10. DrawnInv'
  <2>1. server'.upgrade_id <= used.upgrade /\ server'.udp_session <= used.key
    <3>1. used.upgrade \in Nat /\ used.key \in Nat
      BY <1>1, Numbers
    <3> QED BY <1>2, <3>1 DEF None
  <2> QED BY <1>1, <1>2, <1>4, <2>1, NoStaleIds DEF DrawnInv, SameServer
<1>11. ArrivalInv'
  BY <1>1, <1>2, <1>3 DEF ArrivalInv, AtMostOne, SameServer
<1>12. SwitchInv'
  BY <1>2 DEF SwitchInv
<1>13. ReadyInv'
  <2>1. \A n \in Elems(to_server) : n \in LiveReady' => n \in LiveReady
    <3>1. None \notin Key
      BY SwitchAssumption DEF Key, None
    <3> QED BY <1>2, <1>6, <3>1 DEF LiveReady
  <2>2. server.pending_tcp_fallback # None =>
           Preceded(to_server, LiveReady', The("FallbackOk", server.pending_tcp_fallback))
    BY <1>1, <2>1, PrecededFewer DEF ReadyInv
  <2>3. server'.pending_tcp_fallback = server.pending_tcp_fallback
    BY <1>2 DEF SameServer
  <2> QED BY <1>1, <1>2, <1>5, <1>6, <2>2, <2>3 DEF ReadyInv
<1>14. TrafficInv'
  BY <1>1, <1>2, <1>3, <1>6 DEF TrafficInv
<1>15. CountInv'
  <2>1. Charged \in Nat /\ Charged' \in Nat /\ Charged' <= Charged
    BY <1>1, <1>2, <1>4, NoCharge
  <2> QED BY <1>1, <2>1, CountKept DEF Inv
<1>16. ASSUME tcp_up' PROVE Link'
  <2>1. Link /\ tcp_up
    BY <1>16 DEF Inv
  <2>2. BothConnected'
    BY <1>2, <2>1 DEF Link, BothConnected, SameServer
  <2>3. RegisterLink'
    <3>1. \A n : RegisterFailCodes(n)' = RegisterFailCodes(n)
      BY <1>2 DEF RegisterFailCodes, SameServer
    <3>2. server'.rejects_auto_cipher = server.rejects_auto_cipher
      BY <1>2 DEF SameServer
    <3> QED BY <1>2, <2>1, <3>1, <3>2 DEF Link, RegisterLink
  <2>4. ClientFallbackLink'
    BY <1>4, <1>5, <2>1 DEF Link, ClientFallbackLink, Ordered
  <2>5. ServerFallbackLink'
    <3>1. server'.pending_tcp_fallback = server.pending_tcp_fallback
      BY <1>2 DEF SameServer
    <3> QED BY <1>2, <1>3, <2>1, <3>1 DEF Link, ServerFallbackLink, Ordered, AtMostOne
  <2>6. AttemptLink'
    BY <1>4, <1>5, <2>1 DEF Link, AttemptLink
  <2>7. CommitLink'
    <3>1. Committed' <=> Committed
      BY <1>4 DEF Committed
    <3> QED BY <1>2, <2>1, <3>1 DEF Link, CommitLink
  <2> QED BY <2>2, <2>3, <2>4, <2>5, <2>6, <2>7 DEF Link
<1> QED BY <1>4, <1>7, <1>8, <1>9, <1>10, <1>11, <1>12, <1>13, <1>14, <1>15, <1>16 DEF Inv

\* The server gives up a transport that was in use, and asks the client to fall back.
LEMMA ServerRequestKeepsInv ==
    ASSUME Inv, NEW left, Retired(left, server), send_tcp_fallback_request(left),
           Traffic(server.udp_session), server.pending_tcp_fallback = None,
           UNCHANGED <<client, tcp_up, to_server, datagrams>>
    PROVE  Inv'
<1> DEFINE id == used.fallback + 1
<1>1. /\ TypeOK /\ ClientInv /\ ServerInv /\ DrawnInv /\ DatagramInv /\ ReadyInv /\ ArrivalInv
      /\ TrafficInv /\ CountInv
  BY DEF Inv
<1>2. /\ left \in ServerRecord /\ SameServer(left, server)
      /\ left.active_transport = "Tcp" /\ left.udp_session = None
      /\ left.upgrade_id = None /\ ~left.probe_seen /\ ~left.ready_seen /\ ~left.switch_to_udp_sent
      /\ left.stale_upgrade_ids = <<>>
  BY DEF Retired
<1>3. /\ server' = [left EXCEPT !.pending_tcp_fallback = id]
      /\ to_client' = Written(to_client, Msg("FallbackToTcp", id))
      /\ used' = [used EXCEPT !.fallback = id]
  BY <1>2 DEF send_tcp_fallback_request, SameServer
<1>4. /\ ~Traffic(None) /\ (client.udp_state = "Active" => used.key # None)
      /\ \A m \in Elems(to_server) : m \in Regs => None < m.key
  BY KeysAreDrawn
<1>5. server.udp_session # None
  BY <1>4
<1>6. /\ used.fallback \in Nat /\ used.key \in Nat /\ used.upgrade \in Nat /\ used.retry \in Nat
      /\ used.key \in 0..MaxKeys /\ used.retry \in 0..MaxRetries
      /\ MaxKeys \in Nat /\ MaxRetries \in Nat
  BY <1>1, Numbers
<1>7. /\ used'.key = used.key /\ used'.cid = used.cid /\ used'.upgrade = used.upgrade
      /\ used'.retry = used.retry /\ used'.fallback = id
  BY <1>1, <1>3 DEF TypeOK
<1>8. id \in Nat /\ id # None /\ used.fallback <= id /\ used.fallback < id
  BY <1>6 DEF None
<1>9. used.fallback + 1 <= Charged /\ Charged \in Nat
  <2> DEFINE f == used.fallback
             a == One(client.udp_state = "Active")
             b == One(Upgrading \/ Awaiting)
             r == One(client.registration # None)
             s == One(server.udp_session # None)
  <2>1. Charged = f + a + b + 2 * r + s
    BY DEF Charged
  <2>2. f \in Nat /\ a \in Nat /\ b \in Nat /\ r \in Nat /\ s = 1
    BY <1>5, <1>6, OneIsNat DEF One
  <2> HIDE DEF f, a, b, r, s
  <2>3. f + 1 <= Charged /\ Charged \in Nat
    BY <2>1, <2>2
  <2> QED BY <2>3 DEF f
<1>10. id \in FallbackId
  <2>1. Charged <= 3 * used.key + used.retry
    BY <1>1 DEF CountInv
  <2>2. id <= 3 * MaxKeys + MaxRetries
    BY <1>6, <1>9, <2>1
  <2> QED BY <1>6, <1>8, <2>2 DEF FallbackId, None
<1>11. used' \in [cid : 0..MaxCids, key : 0..MaxKeys,
                  upgrade : 0..(MaxKeys + MaxRetries), retry : 0..MaxRetries,
                  fallback : 0..(3 * MaxKeys + MaxRetries)]
  <2>1. id \in 0..(3 * MaxKeys + MaxRetries)
    BY <1>6, <1>10 DEF FallbackId
  <2> HIDE DEF id
  <2> QED BY <1>1, <1>3, <2>1 DEF TypeOK
<1> HIDE DEF id
<1>12. /\ server' \in ServerRecord
       /\ server'.rejects_auto_cipher = server.rejects_auto_cipher
       /\ server'.run = server.run /\ server'.tcp_alive = server.tcp_alive
       /\ server'.pending_tcp_fallback = id
       /\ server'.last_peer_fallback_id = server.last_peer_fallback_id
       /\ server'.active_transport = "Tcp" /\ server'.udp_session = None
       /\ server'.upgrade_id = None /\ ~server'.probe_seen /\ ~server'.ready_seen /\ ~server'.switch_to_udp_sent
       /\ server'.stale_upgrade_ids = <<>>
  <2>1. server' \in ServerRecord
    BY <1>2, <1>3, <1>10, SetServer
  <2>2. /\ server'.rejects_auto_cipher = left.rejects_auto_cipher
        /\ server'.run = left.run /\ server'.tcp_alive = left.tcp_alive
        /\ server'.pending_tcp_fallback = id
        /\ server'.last_peer_fallback_id = left.last_peer_fallback_id
        /\ server'.active_transport = left.active_transport /\ server'.udp_session = left.udp_session
    BY <1>2, <1>3 DEF ServerRecord
  <2>3. /\ server'.upgrade_id = left.upgrade_id /\ server'.probe_seen = left.probe_seen
        /\ server'.ready_seen = left.ready_seen /\ server'.switch_to_udp_sent = left.switch_to_udp_sent
        /\ server'.stale_upgrade_ids = left.stale_upgrade_ids
    BY <1>2, <1>3 DEF ServerRecord
  <2> QED BY <1>2, <2>1, <2>2, <2>3 DEF SameServer
<1>13. PICK m \in Messages : m = Msg("FallbackToTcp", id) /\ m.type = "FallbackToTcp" /\ m.id = id
  BY <1>10, NewMessages
<1>14. /\ to_client' \in Seq(Messages)
       /\ Elems(to_client) \subseteq Elems(to_client') /\ Elems(to_client') \subseteq Elems(to_client) \cup {m}
       /\ tcp_up => m \in Elems(to_client')
       /\ \A a, b : Before(to_client', a, b) => Before(to_client, a, b) \/ (a \in Elems(to_client) /\ b = m)
       /\ \A X : Has(to_client, X) => Has(to_client', X)
       /\ \A X : m \notin X /\ Has(to_client', X) => Has(to_client, X)
       /\ \A Y, Z : Preceded(to_client, Y, Z) /\ m \notin Y => Preceded(to_client', Y, Z)
  BY <1>3, <1>13, ServerWrites
<1>15. /\ m \in Requests /\ m \notin Of("SwitchToUdp") /\ m \notin Of("SwitchOk") /\ m \in The("FallbackToTcp", id)
       /\ \A x : m \notin OkFor(x) /\ m \notin The("FallbackOk", x)
                 /\ m \notin The("SwitchToUdp", x) /\ m \notin The("SwitchOk", x)
  BY <1>13 DEF Requests, Of, OkFor, The
<1>16. (Upgrading' <=> Upgrading) /\ (Awaiting' <=> Awaiting)
  BY DEF Upgrading, Awaiting
<1>17. \A x : ~IsStale(server', x) /\ ~Readied(x)' /\ ~Matching(x)'
  BY <1>12, NoStaleIds DEF IsStale, Readied, Matching
<1>18. /\ \A k : Traffic(k)' <=> Traffic(k)
       /\ \A k, x : Probed(k, x)' <=> Probed(k, x)
  BY DEF Traffic, Probed
<1>19. TypeOK'
  <2>1. Len(server'.stale_upgrade_ids) <= MAX_STALE_UPGRADE_IDS
    BY <1>12, NoStaleIds, SwitchAssumption
  <2> QED BY <1>1, <1>11, <1>12, <1>14, <2>1 DEF TypeOK
<1>20. ClientInv'
  BY <1>1, <1>7, <1>16 DEF ClientInv, AttemptHasTransport
<1>21. ServerInv'
  BY <1>1, <1>12 DEF ServerInv, StaleAttemptStaysStale
<1>22. DatagramInv'
  BY <1>1, <1>7 DEF DatagramInv, Probed
<1>23. DrawnInv'
  <2>1. \A n \in Nat : n <= used.fallback => n <= id
    BY <1>6, <1>8
  <2>2. \A n \in Messages : Drawn(n) => Drawn(n)'
    <3>1. \A n \in Messages : n.type \in {"FallbackToTcp", "FallbackOk"} => n.id \in Nat
      BY MessageTypes
    <3> QED BY <1>7, <2>1, <3>1 DEF Drawn
  <2>3. Drawn(m)'
    <3>1. id <= id
      BY <1>8
    <3> QED BY <1>7, <1>13, <3>1 DEF Drawn
  <2>4. server'.upgrade_id <= used.upgrade /\ server'.udp_session <= used.key
    BY <1>6, <1>12 DEF None
  <2>5. server.last_peer_fallback_id \in Nat /\ client.pending_tcp_fallback \in Nat
    <3>1. FallbackId \cup {None} \subseteq Nat
      BY SwitchAssumption DEF FallbackId, None
    <3> QED BY <1>1, <3>1 DEF TypeOK, ServerRecord, ClientRecord
  <2>6. id <= id
    BY <1>8
  <2> QED BY <1>1, <1>7, <1>12, <1>14, <2>1, <2>2, <2>3, <2>4, <2>5, <2>6, NoStaleIds, InFlightTypes DEF DrawnInv
<1>24. ArrivalInv'
  BY <1>1, <1>4, <1>12 DEF ArrivalInv, AtMostOne
<1>25. SwitchInv'
  BY <1>12 DEF SwitchInv
<1>26. ReadyInv'
  <2>1. ~Has(to_server, LiveReady')
    <3>1. None \notin Key
      BY SwitchAssumption DEF Key, None
    <3>2. \A k : Has(to_server, RegOf(k)) => ~Traffic(k)
      BY <1>1 DEF TrafficInv, Has, RegOf
    <3>3. \A k, x : Probed(k, x) => Traffic(k)
      BY DEF Probed, Traffic
    <3> QED BY <1>12, <1>18, <3>1, <3>2, <3>3 DEF LiveReady, Has
  <2>2. Preceded(to_server, LiveReady', The("FallbackOk", id))
    BY <2>1, AbsentIsOrdered
  <2> QED BY <1>1, <1>12, <1>17, <1>18, <2>2 DEF ReadyInv
<1>27. TrafficInv'
  BY <1>1, <1>4, <1>7, <1>12, <1>14, <1>15, <1>18 DEF TrafficInv
<1>28. CountInv'
  <2>1. Charged' \in Nat /\ Charged' <= Charged
    <3> DEFINE f == used.fallback
               a == One(client.udp_state = "Active")
               b == One(Upgrading \/ Awaiting)
               r == One(client.registration # None)
    <3>1. One(server.udp_session # None) = 1 /\ One((server.udp_session # None)') = 0
      BY <1>5, <1>12 DEF One
    <3>2. One((Upgrading \/ Awaiting)') = One(Upgrading \/ Awaiting)
      BY <1>16 DEF One
    <3>3. Charged = f + a + b + 2 * r + 1 /\ Charged' = (f + 1) + a + b + 2 * r + 0
      BY <1>7, <3>1, <3>2 DEF Charged, id
    <3>4. f \in Nat /\ a \in Nat /\ b \in Nat /\ r \in Nat
      BY <1>6, OneIsNat
    <3> HIDE DEF f, a, b, r
    <3> QED BY <3>3, <3>4
  <2> QED BY <1>1, <1>7, <1>9, <2>1, CountKept
<1>29. ASSUME tcp_up' PROVE Link'
  <2>1. Link /\ tcp_up
    BY <1>29 DEF Inv
  <2>2. BothConnected'
    BY <1>12, <2>1 DEF Link, BothConnected
  <2>3. RegisterLink'
    <3>1. \A n : RegisterFailCodes(n)' = RegisterFailCodes(n)
      BY <1>12 DEF RegisterFailCodes
    <3> QED BY <1>7, <1>12, <1>14, <1>15, <2>1, <3>1 DEF Link, RegisterLink
  <2>4. ClientFallbackLink'
    BY <1>14, <1>15, <1>16, <1>17, <2>1 DEF Link, ClientFallbackLink, Ordered
  <2>5. ServerFallbackLink'
    <3>1. \A n \in Elems(to_client) : n \notin Requests
      <4>1. \A n \in Elems(to_client) : n \in Requests => n.id # None
        BY <1>1, InFlightTypes, MessageTypes DEF Requests, Of
      <4> QED BY <2>1, <4>1 DEF Link, ServerFallbackLink
    <3>2. \A n \in Elems(to_client') : n \in Requests => n.id = id
      BY <1>13, <1>14, <3>1
    <3>3. AtMostOne(to_client', Requests)
      BY <1>14, <3>1, BeforeElems DEF AtMostOne
    <3>4. Has(to_client', The("FallbackToTcp", id))
      BY <1>14, <1>15, <2>1 DEF Has
    <3>5. ~Has(to_server, The("FallbackOk", id))
      <4>1. \A n \in Elems(to_server) : n.type = "FallbackOk" => n.id <= used.fallback
        BY <1>1 DEF DrawnInv, Drawn
      <4>2. ~(id <= used.fallback)
        BY <1>6, <1>8
      <4> QED BY <4>1, <4>2 DEF Has, The
    <3>6. client.udp_state = "Active" => ~Has(to_server, RegOf(used.key))
      BY <1>1 DEF TrafficInv
    <3>7. client.udp_state = "Pending" => Ordered(to_client', Requests, OkFor(client.cid))
      <4>1. client.udp_state = "Pending" => ~Has(to_client, OkFor(client.cid))
        BY <1>1 DEF TrafficInv
      <4> QED BY <1>14, <1>15, <4>1, BeforeElems DEF Ordered, Has
    <3> QED BY <1>4, <1>7, <1>12, <3>2, <3>3, <3>4, <3>5, <3>6, <3>7 DEF ServerFallbackLink
  <2>6. AttemptLink'
    BY <1>14, <1>15, <1>16, <1>17, <2>1 DEF Link, AttemptLink
  <2>7. CommitLink'
    <3>1. Committed' <=> Committed
      BY <1>14, <1>15, <1>16 DEF Committed
    <3> QED BY <1>12, <2>1, <3>1 DEF Link, CommitLink
  <2> QED BY <2>2, <2>3, <2>4, <2>5, <2>6, <2>7 DEF Link
<1> QED BY <1>19, <1>20, <1>21, <1>22, <1>23, <1>24, <1>25, <1>26, <1>27, <1>28, <1>29 DEF Inv

LEMMA TransportLostKeepsInv ==
    ASSUME Inv, NEW left, Retired(left, server), send_tcp_fallback_request(left),
           Traffic(server.udp_session), UNCHANGED <<client, tcp_up, to_server, datagrams>>
    PROVE  Inv'
<1>1. CASE server.pending_tcp_fallback = None
  BY <1>1, ServerRequestKeepsInv
<1>2. CASE server.pending_tcp_fallback # None
  <2>1. left.pending_tcp_fallback # None
    BY <1>2 DEF Retired, SameServer
  <2>2. server' = left /\ UNCHANGED <<to_client, used>>
    BY <2>1 DEF send_tcp_fallback_request
  <2> QED BY <2>2, RetireKeepsInv
<1> QED BY <1>1, <1>2

LEMMA RetiredToTcpIsRetired ==
    ASSUME NEW s \in ServerRecord, NEW t, SameServer(s, t)
    PROVE  Retired(RetiredToTcp(s), t) /\ Retired(Heard(RetiredToTcp(s)), t)
<1> DEFINE r == RetiredToTcp(s)
<1>1. /\ r \in ServerRecord /\ SameServer(r, s)
      /\ r.active_transport = "Tcp" /\ r.udp_session = None
      /\ r.upgrade_id = None /\ ~r.probe_seen /\ ~r.ready_seen /\ ~r.switch_to_udp_sent
      /\ r.stale_upgrade_ids = <<>>
  BY RetiredFields
<1> HIDE DEF r
<1>2. Heard(r) \in ServerRecord
  BY <1>1, SetServer DEF Heard
<1>3. /\ SameServer(Heard(r), r)
      /\ Heard(r).active_transport = r.active_transport /\ Heard(r).udp_session = r.udp_session
      /\ Heard(r).upgrade_id = r.upgrade_id /\ Heard(r).probe_seen = r.probe_seen
      /\ Heard(r).ready_seen = r.ready_seen /\ Heard(r).switch_to_udp_sent = r.switch_to_udp_sent
      /\ Heard(r).stale_upgrade_ids = r.stale_upgrade_ids
  BY <1>1 DEF Heard, ServerRecord, SameServer
<1>4. Retired(r, t) /\ Retired(Heard(r), t)
  BY <1>1, <1>2, <1>3 DEF Retired, SameServer
<1> QED BY <1>4 DEF r

LEMMA ServerSendsUdpKeepsInv ==
    ASSUME Inv, ServerSendsUdp \/ handle_udp_liveness_timeout
    PROVE  Inv'
<1>1. /\ server.active_transport = "UdpQsp" /\ server \in ServerRecord /\ SameServer(server, server)
  BY DEF ServerSendsUdp, handle_udp_liveness_timeout, Inv, TypeOK, SameServer
<1>2. Traffic(server.udp_session) /\ Retired(RetiredToTcp(server), server)
  BY <1>1, RetiredToTcpIsRetired DEF Inv, ServerInv
<1>3. CASE /\ datagrams' = datagrams \cup {Datagram("client", "Ping", server.udp_session, None)}
           /\ UNCHANGED <<client, server, tcp_up, to_server, to_client, used>>
  BY <1>1, <1>3, ServerSendsPingKeepsInv
<1>4. CASE send_tcp_fallback_request(RetiredToTcp(server)) /\ UNCHANGED <<client, tcp_up, to_server, datagrams>>
  BY <1>2, <1>4, TransportLostKeepsInv
<1>5. CASE ServerEnds("Closed")
  BY <1>5, ServerEndsKeepsInv
<1> QED BY <1>3, <1>4, <1>5 DEF ServerSendsUdp, handle_udp_liveness_timeout, ServerUdpSendFails

\* A packet under the keys of the session: its peer is known and alive.
LEMMA HeardFields ==
    ASSUME server \in ServerRecord
    PROVE  LET s == [server EXCEPT !.peer_known = TRUE]
               t == Heard(s)
           IN  /\ s \in ServerRecord /\ SameServer(s, server) /\ s.peer_known
               /\ s.active_transport = server.active_transport /\ s.udp_session = server.udp_session
               /\ s.authenticated = server.authenticated /\ s.upgrade_id = server.upgrade_id
               /\ s.probe_seen = server.probe_seen /\ s.ready_seen = server.ready_seen
               /\ s.switch_to_udp_sent = server.switch_to_udp_sent
               /\ s.stale_upgrade_ids = server.stale_upgrade_ids
               /\ t \in ServerRecord /\ SameServer(t, server) /\ t.peer_known /\ t.authenticated
               /\ t.active_transport = server.active_transport /\ t.udp_session = server.udp_session
               /\ t.upgrade_id = server.upgrade_id
               /\ t.probe_seen = server.probe_seen /\ t.ready_seen = server.ready_seen
               /\ t.switch_to_udp_sent = server.switch_to_udp_sent
               /\ t.stale_upgrade_ids = server.stale_upgrade_ids
<1> DEFINE s == [server EXCEPT !.peer_known = TRUE]
<1>1. s \in ServerRecord
  BY SetServer
<1>2. /\ SameServer(s, server) /\ s.peer_known
      /\ s.active_transport = server.active_transport /\ s.udp_session = server.udp_session
      /\ s.authenticated = server.authenticated /\ s.upgrade_id = server.upgrade_id
      /\ s.probe_seen = server.probe_seen /\ s.ready_seen = server.ready_seen
      /\ s.switch_to_udp_sent = server.switch_to_udp_sent
      /\ s.stale_upgrade_ids = server.stale_upgrade_ids
  BY DEF ServerRecord, SameServer
<1> HIDE DEF s
<1>3. Heard(s) \in ServerRecord
  BY <1>1, SetServer DEF Heard
<1>4. /\ SameServer(Heard(s), s) /\ Heard(s).peer_known = s.peer_known /\ Heard(s).authenticated
      /\ Heard(s).active_transport = s.active_transport /\ Heard(s).udp_session = s.udp_session
      /\ Heard(s).upgrade_id = s.upgrade_id
      /\ Heard(s).probe_seen = s.probe_seen /\ Heard(s).ready_seen = s.ready_seen
      /\ Heard(s).switch_to_udp_sent = s.switch_to_udp_sent
      /\ Heard(s).stale_upgrade_ids = s.stale_upgrade_ids
  BY <1>1 DEF Heard, ServerRecord, SameServer
<1>5. SameServer(Heard(s), server)
  BY <1>2, <1>4 DEF SameServer
<1> QED BY <1>1, <1>2, <1>3, <1>4, <1>5 DEF s

LEMMA ServerHearsKeepsInv ==
    ASSUME Inv, server' = Heard([server EXCEPT !.peer_known = TRUE]),
           UNCHANGED <<client, tcp_up, to_server, to_client, datagrams, used>>
    PROVE  Inv'
<1>1. /\ TypeOK /\ ClientInv /\ ServerInv /\ DrawnInv /\ DatagramInv /\ ReadyInv /\ ArrivalInv /\ SwitchInv
      /\ TrafficInv /\ server \in ServerRecord
  BY DEF Inv, TypeOK
<1>2. /\ server' \in ServerRecord /\ SameServer(server', server) /\ server'.peer_known /\ server'.authenticated
      /\ server'.active_transport = server.active_transport /\ server'.udp_session = server.udp_session
      /\ server'.upgrade_id = server.upgrade_id
      /\ server'.probe_seen = server.probe_seen /\ server'.ready_seen = server.ready_seen
      /\ server'.switch_to_udp_sent = server.switch_to_udp_sent
      /\ server'.stale_upgrade_ids = server.stale_upgrade_ids
  BY <1>1, HeardFields
<1>3. /\ server'.rejects_auto_cipher = server.rejects_auto_cipher
      /\ server'.run = server.run /\ server'.tcp_alive = server.tcp_alive
      /\ server'.pending_tcp_fallback = server.pending_tcp_fallback
      /\ server'.last_peer_fallback_id = server.last_peer_fallback_id
  BY <1>2 DEF SameServer
<1>4. ClientInv' /\ (Upgrading' <=> Upgrading) /\ (Awaiting' <=> Awaiting) /\ \A n : Drawn(n)' <=> Drawn(n)
  BY ClientStays
<1>5. \A x : (IsStale(server', x) <=> IsStale(server, x)) /\ (Readied(x)' <=> Readied(x)) /\ (Matching(x)' <=> Matching(x))
  BY <1>2 DEF IsStale, Readied, Matching
<1>6. /\ \A k : Traffic(k)' <=> Traffic(k)
      /\ \A k, x : Probed(k, x)' <=> Probed(k, x)
  BY DEF Traffic, Probed
<1>7. TypeOK'
  BY <1>1, <1>2 DEF TypeOK
<1>8. ServerInv'
  BY <1>1, <1>2, <1>3, <1>5, <1>6 DEF ServerInv, StaleAttemptStaysStale
<1>9. DatagramInv'
  BY <1>1 DEF DatagramInv, Probed
<1>10. DrawnInv' /\ ArrivalInv' /\ SwitchInv'
  BY <1>1, <1>2, <1>3, <1>4 DEF DrawnInv, ArrivalInv, SwitchInv, AtMostOne
<1>11. ReadyInv'
  <2>1. LiveReady' = LiveReady
    BY <1>2, <1>6 DEF LiveReady
  <2> QED BY <1>1, <1>2, <1>3, <1>5, <1>6, <2>1 DEF ReadyInv
<1>12. TrafficInv'
  BY <1>1, <1>2, <1>6 DEF TrafficInv
<1>13. CountInv'
  <2>1. Charged \in Nat /\ Charged' \in Nat /\ Charged' <= Charged
    BY <1>1, <1>2, <1>4, NoCharge
  <2> QED BY <1>1, <2>1, CountKept DEF Inv
<1>14. ASSUME tcp_up' PROVE Link'
  <2>1. Link /\ tcp_up
    BY <1>14 DEF Inv
  <2>2. BothConnected'
    BY <1>3, <2>1 DEF Link, BothConnected
  <2>3. RegisterLink'
    <3>1. \A n : RegisterFailCodes(n)' = RegisterFailCodes(n)
      BY <1>3 DEF RegisterFailCodes
    <3> QED BY <1>2, <1>3, <2>1, <3>1 DEF Link, RegisterLink
  <2>4. ClientFallbackLink'
    BY <1>4, <1>5, <2>1 DEF Link, ClientFallbackLink, Ordered
  <2>5. ServerFallbackLink'
    BY <1>2, <1>3, <2>1 DEF Link, ServerFallbackLink, Ordered, AtMostOne
  <2>6. AttemptLink'
    BY <1>2, <1>4, <1>5, <2>1 DEF Link, AttemptLink
  <2>7. CommitLink'
    BY <1>2, <1>4, <2>1 DEF Link, CommitLink, Committed
  <2> QED BY <2>2, <2>3, <2>4, <2>5, <2>6, <2>7 DEF Link
<1> QED BY <1>4, <1>7, <1>8, <1>9, <1>10, <1>11, <1>12, <1>13, <1>14 DEF Inv

\* The attempt of a probe that is not stale: the one in progress, or one that supersedes it.
LEMMA ProbedFields ==
    ASSUME TypeOK, NEW id \in UpgradeId
    PROVE  LET s == [server EXCEPT !.peer_known = TRUE]
               p == [Superseded(s, id) EXCEPT !.probe_seen = TRUE]
           IN  /\ p \in ServerRecord /\ SameServer(p, server) /\ p.peer_known
               /\ p.active_transport = server.active_transport /\ p.udp_session = server.udp_session
               /\ p.upgrade_id = id /\ p.probe_seen
               /\ Len(p.stale_upgrade_ids) <= MAX_STALE_UPGRADE_IDS
               /\ server.upgrade_id \in {None, id} =>
                     /\ p.ready_seen = server.ready_seen /\ p.switch_to_udp_sent = server.switch_to_udp_sent
                     /\ p.stale_upgrade_ids = server.stale_upgrade_ids
               /\ server.upgrade_id \notin {None, id} =>
                     /\ ~p.ready_seen /\ ~p.switch_to_udp_sent
                     /\ \A i \in DOMAIN p.stale_upgrade_ids :
                           p.stale_upgrade_ids[i] = server.upgrade_id \/ IsStale(server, p.stale_upgrade_ids[i])
<1> DEFINE s == [server EXCEPT !.peer_known = TRUE]
           u == Superseded(s, id)
           p == [u EXCEPT !.probe_seen = TRUE]
<1>1. /\ s \in ServerRecord /\ SameServer(s, server) /\ s.peer_known
      /\ s.active_transport = server.active_transport /\ s.udp_session = server.udp_session
      /\ s.upgrade_id = server.upgrade_id
      /\ s.ready_seen = server.ready_seen
      /\ s.switch_to_udp_sent = server.switch_to_udp_sent
      /\ s.stale_upgrade_ids = server.stale_upgrade_ids
  BY HeardFields DEF TypeOK
<1>2. Len(s.stale_upgrade_ids) <= MAX_STALE_UPGRADE_IDS
  BY <1>1 DEF TypeOK
<1>3. \A x : IsStale(s, x) <=> IsStale(server, x)
  BY <1>1 DEF IsStale
<1> HIDE DEF s
<1>4. /\ u \in ServerRecord /\ SameServer(u, server) /\ u.peer_known
      /\ u.active_transport = server.active_transport /\ u.udp_session = server.udp_session
      /\ u.upgrade_id = id
      /\ Len(u.stale_upgrade_ids) <= MAX_STALE_UPGRADE_IDS
      /\ server.upgrade_id \in {None, id} =>
            /\ u.ready_seen = server.ready_seen /\ u.switch_to_udp_sent = server.switch_to_udp_sent
            /\ u.stale_upgrade_ids = server.stale_upgrade_ids
      /\ server.upgrade_id \notin {None, id} =>
            /\ ~u.ready_seen /\ ~u.switch_to_udp_sent
            /\ \A i \in DOMAIN u.stale_upgrade_ids :
                  u.stale_upgrade_ids[i] = server.upgrade_id \/ IsStale(server, u.stale_upgrade_ids[i])
  <2>1. CASE server.upgrade_id \in {None, id}
    <3>1. u = [s EXCEPT !.upgrade_id = id]
      BY <1>1, <2>1 DEF Superseded
    <3>2. u \in ServerRecord
      <4>1. [s EXCEPT !.upgrade_id = id] \in ServerRecord
        BY <1>1, SetServer
      <4> QED BY <3>1, <4>1
    <3>3. /\ SameServer(u, s) /\ u.peer_known = s.peer_known
          /\ u.active_transport = s.active_transport /\ u.udp_session = s.udp_session
          /\ u.upgrade_id = id /\ u.ready_seen = s.ready_seen /\ u.switch_to_udp_sent = s.switch_to_udp_sent
          /\ u.stale_upgrade_ids = s.stale_upgrade_ids
      BY <1>1, <3>1 DEF ServerRecord, SameServer
    <3> QED BY <1>1, <1>2, <2>1, <3>2, <3>3 DEF SameServer
  <2>2. CASE server.upgrade_id \notin {None, id}
    <3> DEFINE r == remember_stale_upgrade_id(s, s.upgrade_id)
               t == reset_udp_upgrade_attempt_preserving_history(r)
    <3>1. u = [t EXCEPT !.upgrade_id = id]
      BY <1>1, <2>2 DEF Superseded
    <3>2. s.upgrade_id \in UpgradeId
      BY <1>1, <2>2 DEF TypeOK, ServerRecord
    <3>3. /\ r \in ServerRecord /\ SameServer(r, s)
          /\ r.active_transport = s.active_transport /\ r.udp_session = s.udp_session
          /\ r.peer_known = s.peer_known
          /\ Len(r.stale_upgrade_ids) <= MAX_STALE_UPGRADE_IDS
          /\ \A i \in DOMAIN r.stale_upgrade_ids :
                r.stale_upgrade_ids[i] = s.upgrade_id \/ IsStale(s, r.stale_upgrade_ids[i])
      BY <1>1, <1>2, <3>2, RememberFields
    <3> HIDE DEF r
    <3>4. /\ t \in ServerRecord /\ SameServer(t, r)
          /\ t.active_transport = r.active_transport /\ t.udp_session = r.udp_session
          /\ t.peer_known = r.peer_known
          /\ ~t.ready_seen /\ ~t.switch_to_udp_sent
          /\ t.stale_upgrade_ids = r.stale_upgrade_ids
      BY <3>3, ResetFields
    <3> HIDE DEF t
    <3>5. u \in ServerRecord
      <4>1. [t EXCEPT !.upgrade_id = id] \in ServerRecord
        BY <3>4, SetServer
      <4> QED BY <3>1, <4>1
    <3>6. /\ SameServer(u, t) /\ u.peer_known = t.peer_known
          /\ u.active_transport = t.active_transport /\ u.udp_session = t.udp_session
          /\ u.upgrade_id = id /\ u.ready_seen = t.ready_seen /\ u.switch_to_udp_sent = t.switch_to_udp_sent
          /\ u.stale_upgrade_ids = t.stale_upgrade_ids
      BY <3>1, <3>4 DEF ServerRecord, SameServer
    <3> HIDE DEF u
    <3>7. SameServer(u, server)
      BY <1>1, <3>3, <3>4, <3>6 DEF SameServer
    <3> QED BY <1>1, <1>3, <2>2, <3>3, <3>4, <3>5, <3>6, <3>7
  <2> QED BY <2>1, <2>2
<1> HIDE DEF u
<1>5. p \in ServerRecord
  BY <1>4, SetServer
<1>6. /\ SameServer(p, u) /\ p.peer_known = u.peer_known
      /\ p.active_transport = u.active_transport /\ p.udp_session = u.udp_session
      /\ p.upgrade_id = u.upgrade_id /\ p.probe_seen
      /\ p.ready_seen = u.ready_seen /\ p.switch_to_udp_sent = u.switch_to_udp_sent
      /\ p.stale_upgrade_ids = u.stale_upgrade_ids
  BY <1>4 DEF ServerRecord, SameServer
<1>7. SameServer(p, server)
  BY <1>4, <1>6 DEF SameServer
<1> HIDE DEF p
<1>8. /\ p \in ServerRecord /\ SameServer(p, server) /\ p.peer_known
      /\ p.active_transport = server.active_transport /\ p.udp_session = server.udp_session
      /\ p.upgrade_id = id /\ p.probe_seen
      /\ Len(p.stale_upgrade_ids) <= MAX_STALE_UPGRADE_IDS
      /\ server.upgrade_id \in {None, id} =>
            /\ p.ready_seen = server.ready_seen /\ p.switch_to_udp_sent = server.switch_to_udp_sent
            /\ p.stale_upgrade_ids = server.stale_upgrade_ids
      /\ server.upgrade_id \notin {None, id} =>
            /\ ~p.ready_seen /\ ~p.switch_to_udp_sent
            /\ \A i \in DOMAIN p.stale_upgrade_ids :
                  p.stale_upgrade_ids[i] = server.upgrade_id \/ IsStale(server, p.stale_upgrade_ids[i])
  BY <1>4, <1>5, <1>6, <1>7
<1> QED BY <1>8 DEF p, u, s

\* A probe that is acknowledged.  Once the server has read the UDP_READY of the same
\* attempt, it offers the switch.
LEMMA ProbeAcceptedKeepsInv ==
    ASSUME Inv, NEW d \in datagrams, d.type = "UpgradeProbe", d.key = server.udp_session,
           ~IsStale(server, d.id),
           datagrams' = datagrams \cup {Datagram("client", "UpgradeProbeAck", d.key, d.id)},
           maybe_send_switch_to_udp(
               Heard([Superseded([server EXCEPT !.peer_known = TRUE], d.id) EXCEPT !.probe_seen = TRUE])),
           UNCHANGED <<client, tcp_up, to_server, used>>
    PROVE  Inv'
<1> DEFINE id == d.id
           u == [Superseded([server EXCEPT !.peer_known = TRUE], id) EXCEPT !.probe_seen = TRUE]
           p == Heard(u)
<1>1. /\ TypeOK /\ ClientInv /\ ServerInv /\ DrawnInv /\ DatagramInv /\ ReadyInv /\ ArrivalInv /\ SwitchInv
      /\ TrafficInv /\ server \in ServerRecord
  BY DEF Inv, TypeOK
<1>2. /\ d.key \in Key /\ id \in UpgradeId /\ id # None /\ id <= used.upgrade /\ d.key <= used.key
      /\ Probed(d.key, id) /\ Traffic(d.key)
  BY <1>1, InFlightTypes DEF DatagramInv, Probed, Traffic
<1>3. server.udp_session # None
  BY <1>2, SwitchAssumption DEF Key, None
<1>4. PICK e \in Datagrams : /\ datagrams' = datagrams \cup {e}
                             /\ e.type = "UpgradeProbeAck" /\ e.key = d.key /\ e.id = id
  <2>1. PICK e \in Datagrams : e = Datagram("client", "UpgradeProbeAck", d.key, id)
    BY <1>2 DEF Datagrams, Datagram
  <2>2. e.type = "UpgradeProbeAck" /\ e.key = d.key /\ e.id = id
    BY <2>1 DEF Datagram
  <2> QED BY <2>1, <2>2
<1>5. maybe_send_switch_to_udp(p) /\ ~IsStale(server, id) /\ d.key = server.udp_session
  OBVIOUS
<1> HIDE DEF id
<1>6. /\ u \in ServerRecord /\ SameServer(u, server) /\ u.peer_known
      /\ u.active_transport = server.active_transport /\ u.udp_session = server.udp_session
      /\ u.upgrade_id = id /\ u.probe_seen
      /\ Len(u.stale_upgrade_ids) <= MAX_STALE_UPGRADE_IDS
      /\ server.upgrade_id \in {None, id} =>
            /\ u.ready_seen = server.ready_seen /\ u.switch_to_udp_sent = server.switch_to_udp_sent
            /\ u.stale_upgrade_ids = server.stale_upgrade_ids
      /\ server.upgrade_id \notin {None, id} =>
            /\ ~u.ready_seen /\ ~u.switch_to_udp_sent
            /\ \A i \in DOMAIN u.stale_upgrade_ids :
                  u.stale_upgrade_ids[i] = server.upgrade_id \/ IsStale(server, u.stale_upgrade_ids[i])
  BY <1>1, <1>2, ProbedFields
<1> HIDE DEF u
<1>7. /\ p \in ServerRecord /\ SameServer(p, u) /\ p.peer_known = u.peer_known /\ p.authenticated
      /\ p.active_transport = u.active_transport /\ p.udp_session = u.udp_session
      /\ p.upgrade_id = u.upgrade_id /\ p.probe_seen = u.probe_seen
      /\ p.ready_seen = u.ready_seen /\ p.switch_to_udp_sent = u.switch_to_udp_sent
      /\ p.stale_upgrade_ids = u.stale_upgrade_ids
  <2>1. p \in ServerRecord
    BY <1>6, SetServer DEF Heard
  <2> QED BY <1>6, <2>1 DEF Heard, ServerRecord, SameServer
<1> HIDE DEF p
<1>8. /\ p.ready_seen <=> Readied(id)
      /\ p.switch_to_udp_sent <=> Matching(id)
      /\ p.switch_to_udp_sent => p.ready_seen
  <2>1. server.ready_seen \/ server.switch_to_udp_sent => server.upgrade_id # None
    BY <1>1 DEF ServerInv
  <2>2. server.switch_to_udp_sent => server.ready_seen
    BY <1>1 DEF ServerInv
  <2> QED BY <1>6, <1>7, <2>1, <2>2 DEF Readied, Matching
<1>9. SwitchDue(p) <=> Readied(id) /\ ~Matching(id)
  BY <1>2, <1>6, <1>7, <1>8 DEF SwitchDue
<1>10. /\ server' \in ServerRecord /\ SameServer(server', p) /\ server'.peer_known = p.peer_known
       /\ server'.authenticated = p.authenticated
       /\ server'.active_transport = p.active_transport /\ server'.udp_session = p.udp_session
       /\ server'.upgrade_id = p.upgrade_id /\ server'.probe_seen = p.probe_seen
       /\ server'.ready_seen = p.ready_seen
       /\ server'.switch_to_udp_sent <=> p.ready_seen
       /\ server'.stale_upgrade_ids = p.stale_upgrade_ids
  <2>1. CASE SwitchDue(p)
    <3>1. server' = [p EXCEPT !.switch_to_udp_sent = TRUE]
      BY <1>5, <2>1 DEF maybe_send_switch_to_udp
    <3>2. server' \in ServerRecord
      BY <1>7, <3>1, SetServer
    <3>3. /\ SameServer(server', p) /\ server'.peer_known = p.peer_known
          /\ server'.authenticated = p.authenticated
          /\ server'.active_transport = p.active_transport /\ server'.udp_session = p.udp_session
          /\ server'.upgrade_id = p.upgrade_id /\ server'.probe_seen = p.probe_seen
          /\ server'.ready_seen = p.ready_seen /\ server'.switch_to_udp_sent
          /\ server'.stale_upgrade_ids = p.stale_upgrade_ids
      BY <1>7, <3>1 DEF ServerRecord, SameServer
    <3> QED BY <1>8, <1>9, <2>1, <3>2, <3>3
  <2>2. CASE ~SwitchDue(p)
    <3>1. server' = p
      BY <1>5, <2>2 DEF maybe_send_switch_to_udp
    <3> QED BY <1>7, <1>8, <1>9, <2>2, <3>1 DEF SameServer
  <2> QED BY <2>1, <2>2
<1>11. /\ server'.rejects_auto_cipher = server.rejects_auto_cipher
       /\ server'.run = server.run /\ server'.tcp_alive = server.tcp_alive
       /\ server'.pending_tcp_fallback = server.pending_tcp_fallback
       /\ server'.last_peer_fallback_id = server.last_peer_fallback_id
       /\ server'.active_transport = server.active_transport /\ server'.udp_session = server.udp_session
       /\ server'.peer_known /\ server'.authenticated
       /\ server'.upgrade_id = id /\ server'.probe_seen
       /\ server'.ready_seen <=> Readied(id)
       /\ server'.switch_to_udp_sent <=> Readied(id)
       /\ Readied(id) => server'.stale_upgrade_ids = server.stale_upgrade_ids
       /\ Len(server'.stale_upgrade_ids) <= MAX_STALE_UPGRADE_IDS
  <2>1. Readied(id) => server'.stale_upgrade_ids = server.stale_upgrade_ids
    BY <1>6, <1>7, <1>10 DEF Readied
  <2> QED BY <1>6, <1>7, <1>8, <1>10, <2>1 DEF SameServer
<1>12. \A i \in DOMAIN server'.stale_upgrade_ids :
          IsStale(server, server'.stale_upgrade_ids[i])
             \/ (server'.stale_upgrade_ids[i] = server.upgrade_id /\ server.upgrade_id # id)
  <2>1. CASE server.upgrade_id \in {None, id}
    BY <1>6, <1>7, <1>10, <2>1 DEF IsStale
  <2>2. CASE server.upgrade_id \notin {None, id}
    BY <1>6, <1>7, <1>10, <2>2
  <2> QED BY <2>1, <2>2
<1>13. ~IsStale(server', id)
  BY <1>5, <1>12 DEF IsStale
<1>14. PICK m \in Messages : m = Msg("SwitchToUdp", id) /\ m.type = "SwitchToUdp" /\ m.id = id
  BY <1>2, NewMessages
<1>15. \/ to_client' = to_client
       \/ Readied(id) /\ to_client' = Written(to_client, m)
  BY <1>5, <1>6, <1>7, <1>9, <1>14 DEF maybe_send_switch_to_udp
<1>16. /\ to_client' \in Seq(Messages)
       /\ Elems(to_client) \subseteq Elems(to_client') /\ Elems(to_client') \subseteq Elems(to_client) \cup {m}
       /\ \A a, b : Before(to_client', a, b) => Before(to_client, a, b) \/ (a \in Elems(to_client) /\ b = m)
       /\ \A X : Has(to_client, X) => Has(to_client', X)
       /\ \A X : m \notin X /\ Has(to_client', X) => Has(to_client, X)
       /\ \A Y, Z : Preceded(to_client, Y, Z) /\ (m \in Y => Has(to_client, Z)) => Preceded(to_client', Y, Z)
  BY <1>15, ServerMayWrite
<1>17. /\ m \notin Requests /\ m \notin Of("SwitchOk")
       /\ \A x : m \notin OkFor(x) /\ m \notin The("FallbackOk", x) /\ m \notin The("FallbackToTcp", x)
                 /\ m \notin The("SwitchOk", x) /\ (m \in The("SwitchToUdp", x) => x = id)
  BY <1>14 DEF Requests, Of, OkFor, The
<1>18. ClientInv' /\ (Upgrading' <=> Upgrading) /\ (Awaiting' <=> Awaiting) /\ \A n : Drawn(n)' <=> Drawn(n)
  BY ClientStays
<1>19. \A x : Readied(x)' <=> x = id /\ Readied(id)
  BY <1>11 DEF Readied
<1>20. \A x : Matching(x)' => x = id /\ Readied(id)
  BY <1>11 DEF Matching
<1>21. /\ \A k : Traffic(k)' <=> Traffic(k)
       /\ \A k, x : Probed(k, x)' <=> Probed(k, x)
  BY <1>2, <1>4 DEF Traffic, Probed
\* A SWITCH_ACK of this attempt in flight answers an offer made before.
<1>22. Readied(id) /\ Has(to_server, The("SwitchAck", id)) => server.upgrade_id = id /\ server.switch_to_udp_sent
  <2>1. \A n \in Elems(to_server) : n \in The("SwitchAck", id) => n \in Of("SwitchAck") /\ n.id = id
    BY DEF The, Of
  <2> QED BY <1>1, <2>1 DEF ReadyInv, Has, Readied
<1>23. TypeOK'
  BY <1>1, <1>4, <1>10, <1>11, <1>16 DEF TypeOK
<1>24. ServerInv'
  <2>1. Readied(id) /\ Probed(server.udp_session, id) => server.pending_tcp_fallback = None
    BY <1>1 DEF ServerInv, Readied
  <2>2. StaleAttemptStaysStale'
    BY <1>11, <1>13 DEF StaleAttemptStaysStale
  <2>3. server'.active_transport = "UdpQsp" =>
           server'.pending_tcp_fallback = None /\ Traffic(server.udp_session)'
    BY <1>1, <1>11, <1>21 DEF ServerInv
  <2>4. Probed(server.udp_session, server.upgrade_id)' /\ server'.udp_session # None
        /\ \E k \in Key : Probed(k, server.upgrade_id)'
    BY <1>2, <1>3, <1>5, <1>11, <1>21
  <2>5. server'.run # "ProtocolError"
    BY <1>1, <1>11 DEF ServerInv
  <2>6. server'.ready_seen /\ Probed(server.udp_session, server.upgrade_id)' => server'.pending_tcp_fallback = None
    BY <1>11, <1>21, <2>1
  <2> QED BY <1>2, <1>11, <2>2, <2>3, <2>4, <2>5, <2>6 DEF ServerInv
<1>25. DatagramInv'
  <2>1. \A x \in datagrams' : x \in datagrams \/ (x.type = "UpgradeProbeAck" /\ x.key = d.key /\ x.id = id)
    BY <1>4
  <2>2. /\ \A x \in datagrams' : x.key <= used.key /\ x.id <= used.upgrade
        /\ \A x \in datagrams' : x.type # "Ping" => x.id # None
    BY <1>1, <1>2, <2>1 DEF DatagramInv
  <2>3. \A x \in datagrams' : x.type = "UpgradeProbe" => x \in datagrams
    BY <2>1
  <2>4. \A x \in datagrams' : x.type = "UpgradeProbeAck" => Probed(x.key, x.id)
    BY <1>1, <1>2, <2>1 DEF DatagramInv
  <2> QED BY <1>1, <1>21, <2>2, <2>3, <2>4 DEF DatagramInv
<1>26. DrawnInv'
  <2>1. Drawn(m)
    BY <1>2, <1>14 DEF Drawn
  <2>2. \A i \in DOMAIN server'.stale_upgrade_ids : server'.stale_upgrade_ids[i] <= used.upgrade
    BY <1>1, <1>12 DEF DrawnInv, IsStale
  <2> QED BY <1>1, <1>2, <1>11, <1>16, <1>18, <2>1, <2>2 DEF DrawnInv
<1>27. ArrivalInv'
  BY <1>1, <1>11 DEF ArrivalInv, AtMostOne
<1>28. SwitchInv'
  <2>1. Readied(id) => Between(to_server, The("SwitchAck", id), Regs, Requests)
    BY <1>1, <1>22, AbsentIsOrdered DEF SwitchInv
  <2> QED BY <1>1, <1>11, <2>1 DEF SwitchInv
<1>29. ReadyInv'
  <2>1. LiveReady' = LiveReady
    BY <1>11, <1>21 DEF LiveReady
  <2>2. \A n \in Elems(to_server) : n \in Of("UdpReady") =>
            /\ \E k \in Key : Probed(k, n.id)'
            /\ server'.ready_seen => server'.upgrade_id < n.id
            /\ \A a \in Elems(to_server) : a \in Of("SwitchAck") => a.id < n.id
    BY <1>1, <1>11, <1>21 DEF ReadyInv, Readied
  <2>3. \A n \in Elems(to_server) : n \in Of("SwitchAck") =>
            /\ Readied(n.id)' => server'.switch_to_udp_sent
            /\ Matching(n.id)' =>
                  \A i \in DOMAIN server'.stale_upgrade_ids : server'.stale_upgrade_ids[i] <= n.id
    <3>1. ASSUME NEW n \in Elems(to_server), n \in Of("SwitchAck"), Matching(n.id)'
          PROVE  \A i \in DOMAIN server'.stale_upgrade_ids : server'.stale_upgrade_ids[i] <= n.id
      <4>1. n.id = id /\ Readied(id)
        BY <1>20, <3>1
      <4>2. Matching(id)
        BY <1>1, <3>1, <4>1 DEF ReadyInv, Matching, Readied
      <4> QED BY <1>1, <1>11, <3>1, <4>1, <4>2 DEF ReadyInv
    <3> QED BY <1>11, <1>19, <3>1
  <2> QED BY <1>1, <1>2, <1>11, <2>1, <2>2, <2>3 DEF ReadyInv
<1>30. TrafficInv'
  BY <1>1, <1>11, <1>16, <1>17, <1>21 DEF TrafficInv
<1>31. CountInv'
  <2>1. Charged \in Nat /\ Charged' \in Nat /\ Charged' <= Charged
    BY <1>1, <1>11, <1>18, NoCharge
  <2> QED BY <1>1, <2>1, CountKept DEF Inv
<1>32. ASSUME tcp_up' PROVE Link'
  <2>1. Link /\ tcp_up
    BY <1>32 DEF Inv
  <2>2. BothConnected'
    BY <1>11, <2>1 DEF Link, BothConnected
  <2>3. RegisterLink'
    <3>1. \A n : RegisterFailCodes(n)' = RegisterFailCodes(n)
      BY <1>11 DEF RegisterFailCodes
    <3> QED BY <1>11, <1>16, <1>17, <2>1, <3>1 DEF Link, RegisterLink
  <2>4. ClientFallbackLink'
    <3>1. Upgrading /\ client.upgrade_id = id /\ Readied(id) /\ client.pending_tcp_fallback # None =>
             Has(to_client, The("FallbackOk", client.pending_tcp_fallback))
      <4>1. Has(to_server, The("FallbackToTcp", client.pending_tcp_fallback)) => Has(to_server, Requests)
        BY DEF Has, The, Requests, Of
      <4> QED BY <2>1, <4>1 DEF Link, ClientFallbackLink
    <3>2. Upgrading /\ client.pending_tcp_fallback # None =>
             Preceded(to_client', The("SwitchToUdp", client.upgrade_id), The("FallbackOk", client.pending_tcp_fallback))
      <4>1. CASE to_client' = to_client
        BY <2>1, <4>1 DEF Link, ClientFallbackLink
      <4>2. CASE Readied(id)
        BY <1>16, <1>17, <2>1, <3>1, <4>2 DEF Link, ClientFallbackLink
      <4> QED BY <1>15, <4>1, <4>2
    <3> QED BY <1>16, <1>17, <1>18, <1>19, <2>1, <3>2 DEF Link, ClientFallbackLink, Ordered
  <2>5. ServerFallbackLink'
    BY <1>11, <1>16, <1>17, <2>1 DEF Link, ServerFallbackLink, Ordered, AtMostOne
  <2>6. AttemptLink'
    <3>1. Upgrading /\ ~client.ready_sent => ~Has(to_client', The("SwitchToUdp", client.upgrade_id))
      <4>1. CASE to_client' = to_client
        BY <2>1, <4>1 DEF Link, AttemptLink
      <4>2. CASE Readied(id)
        BY <1>16, <1>17, <2>1, <4>2 DEF Link, AttemptLink
      <4> QED BY <1>15, <4>1, <4>2
    <3>2. \A n \in Elems(to_client') : n \in Of("SwitchToUdp") =>
             \A l \in Elems(to_server) : l \in Of("UdpReady") => n.id < l.id
      <4>1. CASE to_client' = to_client
        BY <2>1, <4>1 DEF Link, AttemptLink
      <4>2. CASE Readied(id)
        <5>1. \A l \in Elems(to_server) : l \in Of("UdpReady") => id < l.id
          BY <1>1, <4>2 DEF ReadyInv, Readied
        <5> QED BY <1>14, <1>16, <2>1, <5>1 DEF Link, AttemptLink
      <4> QED BY <1>15, <4>1, <4>2
    <3>3. \A x : Readied(x)' => Readied(x) /\ server'.switch_to_udp_sent
      BY <1>11, <1>19
    <3>4. server'.upgrade_id # None
      BY <1>2, <1>11
    <3> QED BY <1>16, <1>17, <1>18, <2>1, <3>1, <3>2, <3>3, <3>4 DEF Link, AttemptLink
  <2>7. CommitLink'
    <3>1. Committed' <=> Committed
      BY <1>16, <1>17, <1>18 DEF Committed
    <3>2. Readied(id) => \/ Awaiting /\ client.upgrade_id = id
                         \/ Followed(to_server, The("SwitchAck", id), Requests)
      BY <1>22, <2>1, AbsentIsOrdered DEF Link, CommitLink
    <3> QED BY <1>11, <1>18, <2>1, <3>1, <3>2 DEF Link, CommitLink
  <2> QED BY <2>2, <2>3, <2>4, <2>5, <2>6, <2>7 DEF Link
<1> QED BY <1>18, <1>23, <1>24, <1>25, <1>26, <1>27, <1>28, <1>29, <1>30, <1>31, <1>32 DEF Inv

LEMMA UdpClaimKeepsInv ==
    ASSUME Inv, NEW d \in datagrams, handle_udp_claim(d)
    PROVE  Inv'
<1> DEFINE s == [server EXCEPT !.peer_known = TRUE]
           probed == [Superseded(s, d.id) EXCEPT !.probe_seen = TRUE]
<1>1. /\ d.key = server.udp_session /\ TypeOK /\ server \in ServerRecord
      /\ Traffic(server.udp_session)
  BY DEF handle_udp_claim, Inv, TypeOK, Traffic
<1>2. /\ s \in ServerRecord /\ SameServer(s, server) /\ s.stale_upgrade_ids = server.stale_upgrade_ids
  BY <1>1, HeardFields
<1>3. CASE d.type = "UpgradeProbe" /\ handle_upgrade_probe(d)
  <2>1. d.id \in UpgradeId
    <3>1. d.id # None /\ d.id \in UpgradeId \cup {None}
      BY <1>1, <1>3, InFlightTypes DEF Inv, DatagramInv
    <3> QED BY <3>1
  <2>2. probed \in ServerRecord /\ SameServer(probed, server)
    BY <1>1, <2>1, ProbedFields
  <2>3. IsStale(s, d.id) <=> IsStale(server, d.id)
    BY <1>2 DEF IsStale
  <2>4. \/ /\ server' = Heard(s)
           /\ UNCHANGED <<client, tcp_up, to_server, to_client, datagrams, used>>
        \/ /\ ~IsStale(s, d.id)
           /\ datagrams' = datagrams \cup {Datagram("client", "UpgradeProbeAck", d.key, d.id)}
           /\ maybe_send_switch_to_udp(Heard(probed))
           /\ UNCHANGED <<client, tcp_up, to_server, used>>
        \/ /\ server' = Heard(RetiredToTcp(probed))
           /\ UNCHANGED <<client, tcp_up, to_server, to_client, datagrams, used>>
        \/ ServerEnds("Closed")
    BY <1>3 DEF handle_upgrade_probe
  <2>5. CASE /\ server' = Heard(s)
             /\ UNCHANGED <<client, tcp_up, to_server, to_client, datagrams, used>>
    BY <2>5, ServerHearsKeepsInv
  <2>6. CASE /\ ~IsStale(s, d.id)
             /\ datagrams' = datagrams \cup {Datagram("client", "UpgradeProbeAck", d.key, d.id)}
             /\ maybe_send_switch_to_udp(Heard(probed))
             /\ UNCHANGED <<client, tcp_up, to_server, used>>
    BY <1>1, <1>3, <2>3, <2>6, ProbeAcceptedKeepsInv
  <2>7. CASE /\ server' = Heard(RetiredToTcp(probed))
             /\ UNCHANGED <<client, tcp_up, to_server, to_client, datagrams, used>>
    <3> HIDE DEF probed
    <3>1. Retired(server', server)
      BY <2>2, <2>7, RetiredToTcpIsRetired
    <3> QED BY <2>7, <3>1, RetireKeepsInv
  <2>8. CASE ServerEnds("Closed")
    BY <2>8, ServerEndsKeepsInv
  <2> QED BY <2>4, <2>5, <2>6, <2>7, <2>8
<1>4. CASE ServerHandlesPing
  <2>1. CASE /\ server' = Heard(s)
             /\ UNCHANGED <<client, tcp_up, to_server, to_client, datagrams, used>>
    BY <2>1, ServerHearsKeepsInv
  <2>2. CASE /\ send_tcp_fallback_request(Heard(RetiredToTcp(s)))
             /\ UNCHANGED <<client, tcp_up, to_server, datagrams>>
    <3> HIDE DEF s
    <3>1. Retired(Heard(RetiredToTcp(s)), server)
      BY <1>2, RetiredToTcpIsRetired
    <3> QED BY <1>1, <2>2, <3>1, TransportLostKeepsInv
  <2>3. CASE ServerEnds("Closed")
    BY <2>3, ServerEndsKeepsInv
  <2> QED BY <1>4, <2>1, <2>2, <2>3 DEF ServerHandlesPing, ServerUdpSendFails
<1> QED BY <1>3, <1>4 DEF handle_udp_claim

-----------------------------------------------------------------------------
(* The invariant holds in every state                                      *)

LEMMA InitInv ==
    ASSUME Init
    PROVE  Inv
<1>1. PICK require_udp \in RequireUdp : client = NewClient(require_udp)
  BY DEF Init
<1>2. PICK rejects \in RejectsAutoCipher : server = NewServer(rejects)
  BY DEF Init
<1>3. require_udp \in BOOLEAN /\ rejects \in BOOLEAN
  BY <1>1, <1>2, SwitchAssumption
<1>4. /\ client \in ClientRecord /\ client.require_udp = require_udp /\ client.run = "Running" /\ client.tcp_alive
      /\ client.active_transport = "Tcp"
      /\ client.udp_state = IF EnableUpgrade \/ require_udp THEN "NeedDiscovery" ELSE "Disabled"
      /\ client.upgrade = IF EnableUpgrade \/ require_udp THEN "Idle" ELSE "Disabled"
      /\ client.registration = None /\ client.transport = None /\ client.retained = None /\ client.upgrade_id = None
      /\ client.pending_tcp_fallback = None
      /\ ~client.discovery_task /\ ~client.authenticated /\ ~client.probe_acked /\ ~client.ready_sent
  BY <1>1, <1>3, NewClientFields
<1>5. /\ server \in ServerRecord /\ server.run = "Running" /\ server.tcp_alive
      /\ server.active_transport = "Tcp" /\ server.udp_session = None /\ server.upgrade_id = None
      /\ ~server.probe_seen /\ ~server.ready_seen /\ ~server.switch_to_udp_sent
      /\ server.stale_upgrade_ids = <<>>
      /\ server.pending_tcp_fallback = None /\ server.last_peer_fallback_id = None
  BY <1>2, <1>3, NewServerFields
<1>6. /\ tcp_up = TRUE /\ to_server = <<>> /\ to_client = <<>> /\ datagrams = {}
      /\ used = [cid |-> 0, key |-> 0, upgrade |-> 0, retry |-> 0, fallback |-> 0]
  BY DEF Init
<1>7. used.cid = 0 /\ used.key = 0 /\ used.upgrade = 0 /\ used.retry = 0 /\ used.fallback = 0
  BY <1>6
<1>8. /\ to_server \in Seq(Messages) /\ to_client \in Seq(Messages)
      /\ Elems(to_server) = {} /\ Elems(to_client) = {}
      /\ \A a, b : ~Before(to_server, a, b) /\ ~Before(to_client, a, b)
      /\ \A X : ~Has(to_server, X) /\ ~Has(to_client, X)
      /\ \A Y, Z : Preceded(to_server, Y, Z) /\ Preceded(to_client, Y, Z)
  BY <1>6, EmptyQueue
<1>9. ~Upgrading /\ ~Awaiting
  BY <1>4 DEF Upgrading, Awaiting
<1>10. TypeOK
  <2>1. MaxCids \in Nat /\ MaxKeys \in Nat /\ MaxRetries \in Nat /\ MAX_STALE_UPGRADE_IDS \in Nat
    BY SwitchAssumption
  <2>2. used \in [cid : 0..MaxCids, key : 0..MaxKeys,
                  upgrade : 0..(MaxKeys + MaxRetries), retry : 0..MaxRetries,
                  fallback : 0..(3 * MaxKeys + MaxRetries)]
    <3>1. /\ 0 \in 0..MaxCids /\ 0 \in 0..MaxKeys /\ 0 \in 0..MaxRetries
          /\ 0 \in 0..(MaxKeys + MaxRetries) /\ 0 \in 0..(3 * MaxKeys + MaxRetries)
      BY <2>1
    <3> QED BY <1>6, <3>1
  <2>3. Len(server.stale_upgrade_ids) <= MAX_STALE_UPGRADE_IDS
    BY <1>5, <2>1, NoStaleIds
  <2> QED BY <1>4, <1>5, <1>6, <1>8, <2>2, <2>3 DEF TypeOK
<1>11. ClientInv
  BY <1>4, <1>9 DEF ClientInv, AttemptHasTransport
<1>12. ServerInv
  BY <1>5 DEF ServerInv, StaleAttemptStaysStale
<1>13. DatagramInv
  BY <1>6 DEF DatagramInv
<1>14. DrawnInv
  BY <1>4, <1>5, <1>7, <1>8, NoStaleIds DEF DrawnInv, None
<1>15. ArrivalInv /\ ReadyInv /\ SwitchInv
  BY <1>5, <1>8 DEF ArrivalInv, ReadyInv, SwitchInv, AtMostOne
<1>16. TrafficInv
  BY <1>4, <1>8 DEF TrafficInv
<1>17. CountInv
  <2>1. /\ One(client.registration # None) = 0 /\ One(client.udp_state = "Active") = 0
        /\ One(Upgrading \/ Awaiting) = 0 /\ One(server.udp_session # None) = 0
    BY <1>4, <1>5, <1>9 DEF One
  <2> QED BY <1>7, <1>8, <2>1 DEF CountInv, Charged
<1>18. Link
  <2>1. BothConnected
    BY <1>4, <1>5 DEF BothConnected
  <2>2. RegisterLink
    BY <1>4, <1>8 DEF RegisterLink
  <2>3. ClientFallbackLink
    BY <1>4, <1>8, <1>9 DEF ClientFallbackLink
  <2>4. ServerFallbackLink
    BY <1>4, <1>5, <1>8 DEF ServerFallbackLink, Ordered, AtMostOne
  <2>5. AttemptLink
    BY <1>8, <1>9 DEF AttemptLink
  <2>6. CommitLink
    BY <1>4, <1>5, <1>8 DEF CommitLink, Committed
  <2> QED BY <2>1, <2>2, <2>3, <2>4, <2>5, <2>6 DEF Link
<1> QED BY <1>10, <1>11, <1>12, <1>13, <1>14, <1>15, <1>16, <1>17, <1>18 DEF Inv

LEMMA StutterKeepsInv ==
    ASSUME Inv, UNCHANGED vars
    PROVE  Inv'
<1>1. UNCHANGED <<client, server, tcp_up, to_server, to_client, datagrams, used>>
  BY DEF vars
<1>2. TypeOK' /\ ClientInv' /\ DatagramInv'
  BY <1>1 DEF Inv, TypeOK, ClientInv, DatagramInv, AttemptHasTransport, Upgrading, Awaiting, Probed
<1>3. ServerInv'
  BY <1>1 DEF Inv, ServerInv, StaleAttemptStaysStale, IsStale, Probed, Traffic
<1>4. DrawnInv' /\ ArrivalInv' /\ SwitchInv'
  BY <1>1 DEF Inv, DrawnInv, Drawn, ArrivalInv, SwitchInv, AtMostOne
<1>5. ReadyInv'
  BY <1>1 DEF Inv, ReadyInv, LiveReady, Probed, Readied, Matching, IsStale
<1>6. TrafficInv' /\ CountInv'
  BY <1>1 DEF Inv, TrafficInv, Traffic, CountInv, Charged, Upgrading, Awaiting
<1>7. ASSUME tcp_up' PROVE Link'
  BY <1>1, <1>7 DEF Inv, Link, BothConnected, RegisterLink, ClientFallbackLink, ServerFallbackLink, AttemptLink,
        CommitLink, Committed, Upgrading, Awaiting, Readied, IsStale, RegisterFailCodes, Ordered, AtMostOne
<1> QED BY <1>2, <1>3, <1>4, <1>5, <1>6, <1>7 DEF Inv

LEMMA NextKeepsInv ==
    ASSUME Inv, Next
    PROVE  Inv'
<1>1. CASE ClientTcpHandler
  BY <1>1, RegisterOkKeepsInv, RegisterFailKeepsInv, SwitchToUdpKeepsInv, SwitchOkKeepsInv,
     ClientFallbackToTcpKeepsInv, ClientFallbackOkKeepsInv DEF ClientTcpHandler
<1>2. CASE ClientTimer
  BY <1>2, SpawnKeepsInv, AttemptRegistrationKeepsInv, RegistrationTimeoutKeepsInv, SendProbeKeepsInv,
     UpgradeTimeoutKeepsInv, RetryKeepsInv, LivenessTimeoutKeepsInv, ClientSendsUdpKeepsInv DEF ClientTimer
<1>3. CASE ServerTcpHandler
  BY <1>3, RegisterCidKeepsInv, UdpReadyKeepsInv, SwitchAckKeepsInv, ServerFallbackToTcpKeepsInv,
     ServerFallbackOkKeepsInv DEF ServerTcpHandler
<1>4. CASE DiscoverySucceeds \/ DiscoveryFails \/ handle_udp_error \/ handle_network_changed
  BY <1>4, DiscoverySucceedsKeepsInv, DiscoveryFailsKeepsInv, UdpErrorKeepsInv, NetworkChangedKeepsInv
<1>5. CASE TcpDies
  BY <1>5, DeadTcpKeepsInv DEF TcpDies
<1>6. CASE ClientTcpEof
  <2>1. CASE ClientEnds("Closed")
    BY <2>1, ClientEndsKeepsInv DEF Exit
  <2>2. CASE /\ client' = [client EXCEPT !.tcp_alive = FALSE] /\ to_client' = <<>>
             /\ UNCHANGED <<server, tcp_up, to_server, datagrams, used>>
    <3>1. ~tcp_up' /\ tcp_up' \in BOOLEAN
      BY <1>6, <2>2 DEF ClientTcpEof, Inv, TypeOK
    <3> QED BY <2>2, <3>1, DeadTcpKeepsInv
  <2> QED BY <1>6, <2>1, <2>2 DEF ClientTcpEof
<1>7. CASE ServerTcpEof
  <2>1. CASE ServerEnds("Closed")
    BY <2>1, ServerEndsKeepsInv
  <2>2. CASE /\ server' = [server EXCEPT !.tcp_alive = FALSE] /\ to_server' = <<>>
             /\ UNCHANGED <<client, tcp_up, to_client, datagrams, used>>
    <3>1. ~tcp_up' /\ tcp_up' \in BOOLEAN
      BY <1>7, <2>2 DEF ServerTcpEof, Inv, TypeOK
    <3> QED BY <2>2, <3>1, DeadTcpKeepsInv
  <2> QED BY <1>7, <2>1, <2>2 DEF ServerTcpEof
<1>8. CASE ClientExits
  BY <1>8, ClientEndsKeepsInv DEF ClientExits, Exit
<1>9. CASE send_close_best_effort \/ ServerExits
  BY <1>9, ServerEndsKeepsInv DEF send_close_best_effort, ServerExits
<1>10. CASE ServerSendsUdp \/ handle_udp_liveness_timeout
  BY <1>10, ServerSendsUdpKeepsInv
<1>11. CASE \E d \in datagrams : ClientReadsUdp(d) \/ handle_udp_claim(d)
  BY <1>11, ClientReadsUdpKeepsInv, UdpClaimKeepsInv
<1> QED BY <1>1, <1>2, <1>3, <1>4, <1>5, <1>6, <1>7, <1>8, <1>9, <1>10, <1>11 DEF Next

\* What ties the two sessions together, and with it everything below, holds however
\* registrations, attempts, fallbacks and losses interleave.
THEOREM SwitchInvariant == Spec => []Inv
<1>1. Init => Inv
  BY InitInv
<1>2. Inv /\ [Next]_vars => Inv'
  BY NextKeepsInv, StutterKeepsInv
<1> QED BY <1>1, <1>2, PTL DEF Spec

-----------------------------------------------------------------------------
(* What follows from it                                                    *)

LEMMA InvImpliesBacked ==
    ASSUME Inv
    PROVE  UdpStateIsBacked
BY DEF Inv, UdpStateIsBacked, UdpPreferenceIsBacked, ClientInv, ServerInv

\* A session that prefers UDP-QSP has a transport, a liveness timer and no unanswered
\* request (transition_to_udp_qsp, handle_switch_ack, handle_switch_ok); an attempt has
\* a transport, and the server never works on one that it remembers as stale
\* (note_upgrade_id).
THEOREM UdpStateBacked == Spec => []UdpStateIsBacked
BY SwitchInvariant, InvImpliesBacked, PTL

LEMMA HasIsInFlight ==
    ASSUME NEW q, NEW type, NEW X, X \subseteq Of(type), Has(q, X)
    PROVE  InFlight(q, type)
BY DEF Has, Elems, Of, InFlight

LEMMA InvImpliesAgreed ==
    ASSUME Inv
    PROVE  SwitchIsAgreed
<1> SUFFICES ASSUME BothRun, tcp_up
             PROVE  /\ client.active_transport = "UdpQsp" /\ server.active_transport = "Tcp" =>
                           InFlight(to_client, "FallbackToTcp") \/ server.udp_session = None
                    /\ client.active_transport = "Tcp" /\ server.active_transport = "UdpQsp" =>
                           InFlight(to_client, "SwitchOk") \/ InFlight(to_server, "FallbackToTcp")
  BY DEF SwitchIsAgreed
<1>1. CommitLink
  BY DEF Inv, Link
<1>2. client.active_transport = "UdpQsp" /\ server.active_transport = "Tcp" => server.udp_session = None
  BY <1>1 DEF CommitLink, Committed
<1>3. /\ Has(to_server, Requests) => InFlight(to_server, "FallbackToTcp")
      /\ Has(to_client, The("SwitchOk", client.upgrade_id)) => InFlight(to_client, "SwitchOk")
  <2>1. /\ Requests \subseteq Of("FallbackToTcp")
        /\ The("SwitchOk", client.upgrade_id) \subseteq Of("SwitchOk")
    BY DEF Requests, The, Of
  <2> QED BY <2>1, HasIsInFlight
<1>4. client.active_transport = "Tcp" /\ server.active_transport = "UdpQsp" =>
         InFlight(to_client, "SwitchOk") \/ InFlight(to_server, "FallbackToTcp")
  BY <1>1, <1>3 DEF CommitLink, Committed
<1> QED BY <1>2, <1>4

\* While TCP lives the sessions prefer different transports only with the message in
\* flight that settles it, or after the server has retired the transport for a probe
\* acknowledgement that it could not send (handle_switch_ack, handle_switch_ok).
THEOREM SwitchAgreed == Spec => []SwitchIsAgreed
BY SwitchInvariant, InvImpliesAgreed, PTL

LEMMA InvImpliesKeys ==
    ASSUME Inv
    PROVE  KeysAgree
<1> SUFFICES ASSUME BothRun, tcp_up, to_server = <<>>, to_client = <<>>,
                    client.udp_state = "Active", server.udp_session # None
             PROVE  client.transport = server.udp_session
  BY DEF KeysAgree
<1>1. ~Has(to_server, RegOf(used.key))
  BY EmptyQueue
<1>2. server.udp_session = used.key
  BY <1>1 DEF Inv, Link, RegisterLink
<1> QED BY <1>2 DEF Inv, ClientInv

\* REGISTER_OK names no keys; yet the client, which takes those of the last registration
\* (handle_register_ok), holds those of the server once TCP is quiet.
THEOREM KeysAgreed == Spec => []KeysAgree
BY SwitchInvariant, InvImpliesKeys, PTL

\* No history of this client makes the server end the session for a REGISTER_CID that
\* arrives while it prefers UDP-QSP (handle_tcp_message).
THEOREM NoViolationSeen == Spec => []ServerSeesNoViolation
<1>1. Inv => ServerSeesNoViolation
  BY DEF Inv, ServerInv, ServerSeesNoViolation
<1> QED BY <1>1, SwitchInvariant, PTL

-----------------------------------------------------------------------------
(* Make before break                                                       *)

LEMMA InvImpliesPath ==
    ASSUME Inv
    PROVE  ReceivePathIsKept
<1> SUFFICES ASSUME BothRun, tcp_up, server.active_transport = "UdpQsp", ~Has(to_server, Requests)
             PROVE  ReceiveTransport(client) = server.udp_session
  <2>1. Requests \subseteq Of("FallbackToTcp")
    BY DEF Requests, Of
  <2> QED BY <2>1, HasIsInFlight DEF ReceivePathIsKept
<1>1. RegisterLink /\ CommitLink /\ ClientInv /\ ServerInv
  BY DEF Inv, Link
<1>2. Committed
  BY <1>1 DEF CommitLink
<1>3. client.udp_state = "Active" /\ client.transport = used.key
  BY <1>1, <1>2 DEF ClientInv, AttemptHasTransport, Committed, Awaiting
<1>4. ~Has(to_server, RegOf(used.key))
  BY <1>1, <1>2 DEF CommitLink, Has, RegOf
<1>5. server.udp_session # None
  BY <1>1 DEF ServerInv
<1>6. server.udp_session = used.key
  BY <1>1, <1>3, <1>4, <1>5 DEF RegisterLink
<1> QED BY <1>3, <1>6 DEF ReceiveTransport

\* The client that a step leaves can receive if the one before it could.
CanReceive(c) == ReceiveTransport(client) # None => ReceiveTransport(c) # None

SamePath(c) == c.udp_state = client.udp_state /\ c.transport = client.transport /\ c.retained = client.retained

LEMMA SamePathReceives ==
    ASSUME NEW c, SamePath(c)
    PROVE  CanReceive(c)
BY DEF SamePath, CanReceive, ReceiveTransport

\* A transport is kept for receiving while another is sought.
LEMMA KeptPathReceives ==
    ASSUME Inv, NEW c \in ClientRecord, SamePath(c), c.require_udp = client.require_udp
    PROVE  /\ CanReceive(schedule_discovery(c, TRUE))
           /\ schedule_discovery(c, TRUE) \in ClientRecord
<1> DEFINE e == schedule_discovery(c, TRUE)
<1>1. /\ e \in ClientRecord
      /\ e.udp_state = IF EnableUpgrade \/ c.require_udp THEN "NeedDiscovery" ELSE "Disabled"
      /\ e.retained = IF EnableUpgrade \/ c.require_udp THEN Retained(c, TRUE) ELSE None
  BY ScheduleDiscoveryFields
<1> HIDE DEF e
<1>2. ASSUME ReceiveTransport(client) # None PROVE ReceiveTransport(e) # None
  <2>1. /\ client.udp_state = "Active" => client.transport # None
        /\ client.udp_state = "Active" => client.retained = None
        /\ client.udp_state # "Active" => client.retained # None
        /\ client.udp_state # "Disabled"
    BY <1>2 DEF ReceiveTransport, Inv, ClientInv
  <2>2. EnableUpgrade \/ c.require_udp
    BY <2>1 DEF Inv, ClientInv
  <2>3. Retained(c, TRUE) # None
    BY <2>1 DEF Retained, SamePath
  <2> QED BY <1>1, <2>2, <2>3 DEF ReceiveTransport
<1> QED BY <1>1, <1>2 DEF CanReceive, e

LEMMA RequestKeepsPath ==
    ASSUME NEW c \in ClientRecord, ClientRequestsFallback(c), CanReceive(c)
    PROVE  CanReceive(client')
<1>1. /\ client'.udp_state = c.udp_state /\ client'.transport = c.transport /\ client'.retained = c.retained
  BY DEF ClientRequestsFallback, ClientRecord
<1> QED BY <1>1 DEF CanReceive, ReceiveTransport

LEMMA EndedIsNotRunning ==
    ASSUME Inv, NEW exit \in Exit, ClientEnds(exit)
    PROVE  client'.run # "Running"
<1>1. client.require_udp \in BOOLEAN
  BY DEF Inv, TypeOK, ClientRecord
<1>2. NewClient(client.require_udp) \in ClientRecord
  BY <1>1, NewClientFields
<1>3. client'.run = exit
  BY <1>2 DEF ClientEnds, ClientRecord
<1> QED BY <1>3 DEF Exit

\* The client reads a message.
LEMMA ClientTcpHandlerKeepsPath ==
    ASSUME Inv, Inv', ClientTcpHandler
    PROVE  client'.run # "Running" \/ CanReceive(client')
<1>1. client \in ClientRecord /\ client' \in ClientRecord /\ SamePath(client)
  BY DEF Inv, TypeOK, SamePath
<1>2. \A state \in {"Idle", "AwaitingSwitchOk", "TcpOnlyBlockedUdp"} :
         WithoutAttempt(client, state) \in ClientRecord /\ SamePath(WithoutAttempt(client, state))
  BY <1>1, WithoutAttemptFields DEF SamePath
<1>3. CASE handle_register_ok
  <2>1. CASE \E exit \in Exit : ClientEnds(exit)
    BY <2>1, EndedIsNotRunning
  <2>2. CASE UNCHANGED client
    BY <1>1, <2>2, SamePathReceives
  <2>3. CASE client.udp_state = "Pending" /\ client.registration # None /\ client' = Registered(client)
    <3> DEFINE c == [client EXCEPT !.udp_state = "Active", !.transport = client.registration,
                        !.registration = None, !.cid = None, !.retained = None, !.authenticated = FALSE]
    <3>1. /\ c.udp_state = "Active" /\ c.upgrade = client.upgrade /\ c.active_transport = client.active_transport
      BY <1>1 DEF ClientRecord
    <3>2. client.upgrade # "Disabled" /\ client.active_transport = "Tcp"
      BY <1>1, <2>3 DEF Inv, ClientInv, ClientRecord
    <3>3. client' = [WithoutAttempt(c, "Upgrading") EXCEPT !.upgrade_id = used.upgrade + 1]
      BY <2>3, <3>1, <3>2 DEF Registered, start_udp_upgrade_attempt, StartsAttempt
    <3>4. client'.udp_state = "Active"
      BY ZenonT(120), <1>1, <3>3 DEF WithoutAttempt, ClientRecord
    <3>5. client'.transport # None
      BY <3>4 DEF Inv, ClientInv
    <3> QED BY <3>4, <3>5 DEF CanReceive, ReceiveTransport
  <2> QED BY <1>3, <2>1, <2>2, <2>3 DEF handle_register_ok, Exit
<1>4. CASE handle_register_fail
  <2>1. CASE \E exit \in Exit : ClientEnds(exit)
    BY <2>1, EndedIsNotRunning
  <2>2. CASE UNCHANGED client
    BY <1>1, <2>2, SamePathReceives
  <2>3. CASE client' = schedule_registration_retry([client EXCEPT !.cipher_policy_auto =
                           @ /\ ~(Head(to_client).code = "InvalidCipher" /\ client.cipher_policy_auto)])
    <3>1. SamePath(client')
      BY <1>1, <2>3 DEF SamePath, schedule_registration_retry, ClientRecord
    <3> QED BY <3>1, SamePathReceives
  <2> QED BY <1>4, <2>1, <2>2, <2>3 DEF handle_register_fail, Exit
<1>5. CASE handle_switch_to_udp
  <2> DEFINE w == WithoutAttempt(client, "AwaitingSwitchOk")
  <2>1. w \in ClientRecord /\ SamePath(w)
    BY <1>2
  <2>2. client' = client \/ client' = [w EXCEPT !.upgrade_id = Head(to_client).id]
    BY <1>5 DEF handle_switch_to_udp
  <2> HIDE DEF w
  <2>3. SamePath(client')
    BY <1>1, <2>1, <2>2 DEF SamePath, ClientRecord
  <2> QED BY <2>3, SamePathReceives
<1>6. CASE handle_switch_ok
  <2> DEFINE w == WithoutAttempt(client, "Idle")
  <2>1. w \in ClientRecord /\ SamePath(w)
    BY <1>2
  <2>2. \/ client' = client
        \/ client' = [w EXCEPT !.active_transport = "UdpQsp", !.pending_tcp_fallback = None]
    BY <1>6 DEF handle_switch_ok
  <2> DEFINE v == [w EXCEPT !.active_transport = "UdpQsp"]
             u == [v EXCEPT !.pending_tcp_fallback = None]
  <2> HIDE DEF w
  <2>3. v \in ClientRecord /\ SamePath(v)
    BY <2>1 DEF SamePath, ClientRecord
  <2>4. \/ client' = client
        \/ client' = u
    BY <2>2
  <2> HIDE DEF v
  <2>5. SamePath(u)
    BY <2>3 DEF SamePath, ClientRecord
  <2> HIDE DEF u
  <2>6. SamePath(client)
    BY DEF SamePath
  <2>7. SamePath(client')
    BY <2>4, <2>5, <2>6
  <2> QED BY <2>7, SamePathReceives
<1>7. CASE handle_fallback_to_tcp
  <2> DEFINE c == [client EXCEPT !.active_transport = "Tcp"]
             e == schedule_discovery(c, TRUE)
  <2>1. c \in ClientRecord
    BY <1>1, SetClient
  <2>2. SamePath(c) /\ c.require_udp = client.require_udp
    BY <1>1 DEF SamePath, ClientRecord
  <2>3. client' = client \/ client' = [e EXCEPT !.last_peer_fallback_id = Head(to_client).id]
    BY <1>7 DEF handle_fallback_to_tcp
  <2> HIDE DEF c
  <2>4. e \in ClientRecord /\ CanReceive(e)
    BY <2>1, <2>2, KeptPathReceives
  <2> HIDE DEF e
  <2>5. CASE client' = client
    BY <1>1, <2>5, SamePathReceives
  <2>6. CASE client' = [e EXCEPT !.last_peer_fallback_id = Head(to_client).id]
    <3>1. client'.udp_state = e.udp_state /\ client'.transport = e.transport /\ client'.retained = e.retained
      BY <2>4, <2>6 DEF ClientRecord
    <3> QED BY <2>4, <3>1 DEF CanReceive, ReceiveTransport
  <2> QED BY <2>3, <2>5, <2>6
<1>8. CASE handle_fallback_ok
  <2>1. SamePath(client')
    BY <1>1, <1>8 DEF handle_fallback_ok, SamePath, ClientRecord
  <2> QED BY <2>1, SamePathReceives
<1> QED BY <1>3, <1>4, <1>5, <1>6, <1>7, <1>8 DEF ClientTcpHandler

\* A timer of the client expires.
LEMMA ClientTimerKeepsPath ==
    ASSUME Inv, Inv', ClientTimer
    PROVE  client'.run # "Running" \/ CanReceive(client')
<1>1. client \in ClientRecord /\ client' \in ClientRecord /\ SamePath(client)
  BY DEF Inv, TypeOK, SamePath
<1>2. \A state \in {"Idle", "Upgrading", "TcpOnlyBlockedUdp"} :
         /\ WithoutAttempt(client, state) \in ClientRecord
         /\ SamePath(WithoutAttempt(client, state)) /\ CanReceive(WithoutAttempt(client, state))
  BY <1>1, WithoutAttemptFields, SamePathReceives DEF SamePath
<1>3. CASE SpawnQuicDiscovery \/ attempt_udp_registration
  <2>1. SamePath(client')
    BY <1>1, <1>3 DEF SpawnQuicDiscovery, attempt_udp_registration, ClientOnly, SamePath, ClientRecord
  <2> QED BY <2>1, SamePathReceives
<1>4. CASE handle_registration_timeout
  <2>1. CASE ClientEnds("UdpUpgradeRequired")
    BY <2>1, EndedIsNotRunning DEF Exit
  <2>2. CASE client' = schedule_registration_retry(client)
    <3>1. SamePath(client')
      BY <1>1, <2>2 DEF schedule_registration_retry, SamePath, ClientRecord
    <3> QED BY <3>1, SamePathReceives
  <2> QED BY <1>4, <2>1, <2>2 DEF handle_registration_timeout, ClientOnly
<1>5. CASE send_upgrade_probe \/ ClientSendsUdp
  BY <1>1, <1>5, SamePathReceives DEF send_upgrade_probe, ClientSendsUdp
<1>6. CASE handle_udp_upgrade_timeout
  <2>1. CASE ClientEnds("UdpUpgradeRequired")
    BY <2>1, EndedIsNotRunning DEF Exit
  <2>2. CASE client' = WithoutAttempt(client, "TcpOnlyBlockedUdp")
    BY <1>2, <2>2
  <2>3. CASE ClientRequestsFallback(WithoutAttempt(client, "TcpOnlyBlockedUdp"))
    BY <1>2, <2>3, RequestKeepsPath
  <2> QED BY <1>6, <2>1, <2>2, <2>3 DEF handle_udp_upgrade_timeout, ClientOnly
<1>7. CASE RetryUpgrade
  <2> DEFINE w == WithoutAttempt(client, "Upgrading")
  <2>1. \/ client' = client
        \/ client' = WithoutAttempt(client, "Idle")
        \/ client' = [w EXCEPT !.upgrade_id = used.upgrade + 1]
    BY <1>7 DEF RetryUpgrade, start_udp_upgrade_attempt
  <2>2. w \in ClientRecord /\ SamePath(w)
    BY <1>2
  <2> HIDE DEF w
  <2>3. SamePath(client')
    BY <1>1, <1>2, <2>1, <2>2 DEF SamePath, ClientRecord
  <2> QED BY <2>3, SamePathReceives
<1>8. CASE UdpLivenessTimeout
  <2>1. CanReceive(schedule_discovery(client, TRUE)) /\ schedule_discovery(client, TRUE) \in ClientRecord
    BY <1>1, KeptPathReceives
  <2> QED BY <1>8, <2>1, RequestKeepsPath DEF UdpLivenessTimeout
<1> QED BY <1>3, <1>4, <1>5, <1>6, <1>7, <1>8 DEF ClientTimer

LEMMA ServerStepKeepsPath ==
    ASSUME \/ ServerTcpHandler \/ TcpDies \/ ServerSendsUdp \/ handle_udp_liveness_timeout \/ ServerTcpEof
           \/ send_close_best_effort \/ ServerExits \/ \E d \in datagrams : handle_udp_claim(d)
    PROVE  UNCHANGED client
<1>1. CASE ServerTcpHandler
  BY <1>1 DEF ServerTcpHandler, handle_register_cid, handle_udp_ready, handle_switch_ack,
     ServerHandlesFallbackToTcp, ServerHandlesFallbackOk, ServerEnds
<1>2. CASE TcpDies \/ ServerSendsUdp \/ handle_udp_liveness_timeout
  BY <1>2 DEF TcpDies, ServerSendsUdp, handle_udp_liveness_timeout, ServerUdpSendFails, ServerEnds
<1>3. CASE ServerTcpEof \/ send_close_best_effort \/ ServerExits
  BY <1>3 DEF ServerTcpEof, send_close_best_effort, ServerExits, ServerEnds
<1>4. ASSUME NEW d \in datagrams, handle_udp_claim(d) PROVE UNCHANGED client
  BY <1>4 DEF handle_udp_claim, handle_upgrade_probe, ServerHandlesPing, ServerUdpSendFails, ServerEnds
<1> QED BY <1>1, <1>2, <1>3, <1>4

LEMMA NextKeepsPath ==
    ASSUME Inv, Inv', Next
    PROVE  ReceivePathSurvives
<1>1. client \in ClientRecord /\ client' \in ClientRecord /\ SamePath(client)
  BY DEF Inv, TypeOK, SamePath
<1>2. CASE ClientTcpHandler
  BY <1>2, ClientTcpHandlerKeepsPath DEF ReceivePathSurvives, CanReceive
<1>3. CASE ClientTimer
  BY <1>3, ClientTimerKeepsPath DEF ReceivePathSurvives, CanReceive
<1>4. CASE \/ ServerTcpHandler \/ TcpDies \/ ServerSendsUdp \/ handle_udp_liveness_timeout \/ ServerTcpEof
           \/ send_close_best_effort \/ ServerExits \/ \E d \in datagrams : handle_udp_claim(d)
  <2>1. UNCHANGED client
    BY <1>4, ServerStepKeepsPath
  <2> QED BY <2>1 DEF ReceivePathSurvives
<1>5. CASE DiscoverySucceeds
  <2>1. client.udp_state = "NeedDiscovery"
    BY <1>5 DEF DiscoverySucceeds, Inv, ClientInv
  <2>2. client'.udp_state = "Pending" /\ client'.retained = client.retained
    BY <1>1, <1>5 DEF DiscoverySucceeds, ClientRecord
  <2> QED BY <2>1, <2>2 DEF ReceivePathSurvives, ReceiveTransport
<1>6. CASE DiscoveryFails
  <2> DEFINE c == [client EXCEPT !.discovery_task = FALSE]
  <2>1. c \in ClientRecord
    BY <1>1, SetClient
  <2>2. SamePath(c) /\ c.require_udp = client.require_udp
    BY <1>1 DEF SamePath, ClientRecord
  <2>3. CASE ClientEnds("UdpUpgradeRequired")
    BY <2>3, EndedIsNotRunning DEF Exit, ReceivePathSurvives
  <2>4. CASE client' = schedule_discovery(c, TRUE)
    <3> HIDE DEF c
    <3> QED BY <2>1, <2>2, <2>4, KeptPathReceives DEF ReceivePathSurvives, CanReceive
  <2> QED BY <1>6, <2>3, <2>4 DEF DiscoveryFails, ClientOnly
<1>7. CASE ClientTcpEof \/ ClientExits
  <2>1. CASE ClientEnds("Closed")
    BY <2>1, EndedIsNotRunning DEF Exit, ReceivePathSurvives
  <2>2. CASE client' = [client EXCEPT !.tcp_alive = FALSE]
    <3>1. SamePath(client')
      BY <1>1, <2>2 DEF SamePath, ClientRecord
    <3> QED BY <3>1, SamePathReceives DEF ReceivePathSurvives, CanReceive
  <2> QED BY <1>7, <2>1, <2>2 DEF ClientTcpEof, ClientExits
<1>8. CASE \E d \in datagrams : ClientReadsUdp(d)
  <2>1. SamePath(client')
    BY ZenonT(120), <1>1, <1>8 DEF ClientReadsUdp, handle_upgrade_probe_ack, ClientOnly, SamePath, ClientRecord
  <2> QED BY <2>1, SamePathReceives DEF ReceivePathSurvives, CanReceive
<1>9. CASE handle_udp_error \/ handle_network_changed
  BY <1>9 DEF ReceivePathSurvives
<1> QED BY <1>2, <1>3, <1>4, <1>5, <1>6, <1>7, <1>8, <1>9 DEF Next

\* Make before break: what the server sends on UDP-QSP can be opened by the client, on the
\* transport in use or the retained one, unless its fallback request is on its way; and no
\* step but a failure of the transport takes a receive path away (schedule_discovery).
THEOREM PathIsMadeBeforeBroken == Spec => MakeBeforeBreak
<1>1. Inv /\ Inv' /\ [Next]_vars => [ReceivePathIsKept' /\ ReceivePathSurvives]_vars
  <2>1. Inv' => ReceivePathIsKept'
    BY InvImpliesPath, PTL
  <2> QED BY <2>1, NextKeepsPath
<1> QED BY <1>1, SwitchInvariant, PTL DEF Spec, MakeBeforeBreak
============================================================================
