---------------------------- MODULE UdpFrontDoor ----------------------------
(***************************************************************************)
(* The packet plane of the server: the UDP front door with its NAT table   *)
(* and one reader task per upstream socket (slt-server/src/quic.rs), the   *)
(* TUN reader and writer (server_runtime/tun_workers.rs, tun.rs), and the  *)
(* bounded event queues through which both reach the sessions.             *)
(*                                                                         *)
(* The front door is one task: what it does for a datagram is one step,    *)
(* except that a route it has looked up may change before it is used.      *)
(* Reader tasks, TUN workers and sessions run beside it.  Routes change as *)
(* SessionRegistry says: a prefix or an address never leads to a session   *)
(* of another client.                                                      *)
(***************************************************************************)
EXTENDS Naturals, Sequences, FiniteSets, SequencesExt

CONSTANTS
    Peer,        \* UDP source addresses
    Prefix,      \* connection-id prefixes
    Session,     \* sessions
    Ip,          \* tunnel addresses
    SessionIp,   \* the address assigned to the client of a session
    None,        \* no route
    MaxEntries,  \* udp_nat_max_entries
    QueueSize,   \* session_queue_size, and the size of the writer's queue
    MaxTokens,   \* bound on the upstream sockets created in a behaviour
    Mixed        \* bound: whether one behaviour has both NAT entries and sessions

\* QuicEndpoint::bind refuses a table without entries.
ASSUME UdpAssumption ==
    /\ MaxEntries \in Nat \ {0}
    /\ QueueSize \in Nat \ {0}
    /\ MaxTokens \in Nat /\ Mixed \in BOOLEAN
    /\ SessionIp \in [Session -> Ip]
    /\ None \notin Session

Token == 1..MaxTokens

VARIABLES
    peers,        \* QuicNatState.peers, least recently used first
    next_token,   \* QuicNatState.next_token
    reader,       \* how the reader task of a token stands
    relays,       \* the peer that a reader was spawned for
    done,         \* the channel of done_tx and done_rx
    cancel,       \* the cancellation token
    serving,      \* QuicEndpoint::run has not returned
    cid_routes,   \* the registry: prefix  -> session
    ip_routes,    \* the registry: address -> session
    open,         \* sessions whose event receiver lives
    claim,        \* a claimed datagram between lookup_cid and try_send
    packet,       \* a TUN packet between lookup_ip and try_reserve
    events,       \* session -> its event queue
    tun_queue,    \* the queue of the TUN writer: who sent what
    tun_writer    \* the TUN writer has not returned

natVars == <<peers, next_token, reader, relays, done, cancel, serving>>
routeVars == <<cid_routes, ip_routes, open>>
queueVars == <<claim, packet, events, tun_queue, tun_writer>>
vars == <<natVars, routeVars, queueVars>>

\* Ending: the loop of the reader is left, its notice is not sent yet.
ReaderStage == {"Unborn", "Running", "Ending", "Ended"}

Entry == [peer : Peer, token : Token, idle : BOOLEAN]
Event == [kind : {"Udp", "TunPacket"}, about : Prefix \cup Ip]
Nothing == [to |-> None, about |-> None]

TypeOK ==
    /\ peers \in Seq(Entry) /\ Len(peers) <= MaxEntries
    /\ next_token \in 1..MaxTokens + 1
    /\ reader \in [Token -> ReaderStage]
    /\ relays \in [Token -> Peer \cup {None}]
    /\ done \in Seq([peer : Peer, token : Token])
    /\ cancel \in BOOLEAN /\ serving \in BOOLEAN /\ tun_writer \in BOOLEAN
    /\ cid_routes \in [Prefix -> Session \cup {None}]
    /\ ip_routes \in [Ip -> Session \cup {None}]
    /\ open \subseteq Session
    /\ claim \in [to : Session, about : Prefix] \cup {Nothing}
    /\ packet \in [to : Session, about : Ip] \cup {Nothing}
    /\ events \in [Session -> Seq(Event)]
    /\ \A s \in Session : Len(events[s]) <= QueueSize
    /\ tun_queue \in Seq([from : Session, src : Ip]) /\ Len(tun_queue) <= QueueSize

Init ==
    /\ peers = <<>>
    /\ next_token = 1
    /\ reader = [t \in Token |-> "Unborn"]
    /\ relays = [t \in Token |-> None]
    /\ done = <<>>
    /\ cancel = FALSE
    /\ serving = TRUE
    /\ cid_routes = [p \in Prefix |-> None]
    /\ ip_routes = [i \in Ip |-> None]
    /\ open = {}
    /\ claim = Nothing
    /\ packet = Nothing
    /\ events = [s \in Session |-> <<>>]
    /\ tun_queue = <<>>
    /\ tun_writer = TRUE

-----------------------------------------------------------------------------
(* The bound on the mixture of traffic: the NAT table and the queues of    *)
(* the sessions share nothing but the attention of the front door's task.  *)

NatTraffic ==
    \/ Mixed
    \/ open = {} /\ tun_writer /\ claim = Nothing /\ packet = Nothing /\ tun_queue = <<>>
SessionTraffic == Mixed \/ (next_token = 1 /\ serving)

-----------------------------------------------------------------------------
(* The NAT table.                                                          *)

EntriesOf(table) == {table[i] : i \in DOMAIN table}
Entries == EntriesOf(peers)
Known(p) == \E e \in Entries : e.peer = p
EntryOf(p) == CHOOSE e \in Entries : e.peer = p

pop(table, p) ==
    IF \E e \in EntriesOf(table) : e.peer = p
    THEN RemoveAt(table, CHOOSE i \in DOMAIN table : table[i].peer = p)
    ELSE table

\* LruCache::put: a new key at the capacity pushes the least recently used entry
\* out; that entry is dropped, and put() returns only an older value of the same key.
put(table, e) ==
    IF (\A d \in EntriesOf(table) : d.peer # e.peer) /\ Len(table) = MaxEntries
    THEN Append(Tail(table), e)
    ELSE Append(pop(table, e.peer), e)

\* JoinHandle::abort: a reader stops at an await; one past its loop has none left.
Aborted(tokens) ==
    [t \in Token |-> IF t \in tokens /\ reader[t] = "Running" THEN "Ended" ELSE reader[t]]

\* get_or_create_upstream for a peer with an entry: the entry is used.
ReuseUpstream(p) ==
    /\ Known(p)
    /\ peers' = put(peers, [EntryOf(p) EXCEPT !.idle = FALSE])
    /\ UNCHANGED <<next_token, reader, relays, done>>

\* ... and without: a socket, a token, a reader task, an entry.  The task of an
\* entry that put() pushes out is not aborted.
CreateUpstream(p) ==
    /\ ~Known(p)
    /\ next_token \in Token /\ NatTraffic
    /\ peers' = put(peers, [peer |-> p, token |-> next_token, idle |-> FALSE])
    /\ reader' = [reader EXCEPT ![next_token] = "Running"]
    /\ relays' = [relays EXCEPT ![next_token] = p]
    /\ next_token' = next_token + 1
    /\ UNCHANGED done

\* The socket cannot be created and the datagram is dropped.
UpstreamFails(p) ==
    /\ ~Known(p)
    /\ UNCHANGED <<peers, next_token, reader, relays, done>>

forward_to_upstream(p) == ReuseUpstream(p) \/ CreateUpstream(p) \/ UpstreamFails(p)

\* Mutant: a reader that ends removes whatever entry its peer has.
handle_reader_done_any(p, t) == peers' = pop(peers, p)

\* Only the entry with the token goes; another one is put back as the newest.
handle_reader_done(p, t) ==
    peers' = IF ~Known(p) THEN peers
             ELSE IF EntryOf(p).token = t THEN pop(peers, p)
             ELSE put(pop(peers, p), EntryOf(p))

\* Mutant: notices are looked at only when the table is full.
ReaderDoneWhenFull ==
    /\ serving
    /\ claim = Nothing
    /\ done # <<>> /\ Len(peers) = MaxEntries
    /\ handle_reader_done(Head(done).peer, Head(done).token)
    /\ done' = Tail(done)
    /\ UNCHANGED <<next_token, reader, relays, cancel, serving, routeVars, queueVars>>

ReaderDone ==
    /\ serving
    /\ claim = Nothing
    /\ done # <<>>
    /\ handle_reader_done(Head(done).peer, Head(done).token)
    /\ done' = Tail(done)
    /\ UNCHANGED <<next_token, reader, relays, cancel, serving, routeVars, queueVars>>

\* An entry has not been used for idle_timeout.
BecomesIdle(p) ==
    /\ serving
    /\ Known(p) /\ ~EntryOf(p).idle
    /\ peers' = [i \in DOMAIN peers |->
                    IF peers[i].peer = p THEN [peers[i] EXCEPT !.idle = TRUE] ELSE peers[i]]
    /\ UNCHANGED <<next_token, reader, relays, done, cancel, serving, routeVars, queueVars>>

\* The ways to go through a finite set of positions in order: there is one.
InOrder(positions) ==
    {f \in [1..Cardinality(positions) -> positions] :
        /\ \A i, j \in DOMAIN f : i < j => f[i] < f[j]
        /\ \A k \in positions : \E i \in DOMAIN f : f[i] = k}

\* Every idle entry is popped, the others stay in their order.
sweep_idle ==
    /\ serving
    /\ claim = Nothing
    /\ \E e \in Entries : e.idle
    /\ \E f \in InOrder({i \in DOMAIN peers : ~peers[i].idle}) :
           peers' = [i \in DOMAIN f |-> peers[f[i]]]
    /\ reader' = Aborted({e.token : e \in {d \in Entries : d.idle}})
    /\ UNCHANGED <<next_token, relays, done, cancel, serving, routeVars, queueVars>>

\* The upstream socket of a reader fails, or the reader sees the token.
ReaderLeavesLoop(t) ==
    /\ reader[t] = "Running"
    /\ reader' = [reader EXCEPT ![t] = "Ending"]
    /\ UNCHANGED <<peers, next_token, relays, done, cancel, serving, routeVars, queueVars>>

\* Mutant: a reader ends without a word.
ReaderEndsSilently(t) ==
    /\ reader[t] = "Ending"
    /\ reader' = [reader EXCEPT ![t] = "Ended"]
    /\ UNCHANGED <<peers, next_token, relays, done, cancel, serving, routeVars, queueVars>>

\* The notice names the peer that the reader was spawned for; nobody receives it
\* once run() has returned.
ReaderEnds(t) ==
    /\ reader[t] = "Ending"
    /\ reader' = [reader EXCEPT ![t] = "Ended"]
    /\ done' = IF serving THEN Append(done, [peer |-> relays[t], token |-> t]) ELSE done
    /\ UNCHANGED <<peers, next_token, relays, cancel, serving, routeVars, queueVars>>

-----------------------------------------------------------------------------
(* Datagrams.                                                              *)

\* handle_datagram: a long header goes upstream, and so does a short one whose
\* prefix nobody has registered; the rest is dropped without a trace.
PassDatagram(p) ==
    /\ serving
    /\ claim = Nothing
    /\ forward_to_upstream(p)
    /\ UNCHANGED <<cancel, serving, routeVars, queueVars>>

\* A short header with a registered prefix: the sender of its session is cloned ...
ClaimDatagram(prefix) ==
    /\ serving
    /\ claim = Nothing
    /\ cid_routes[prefix] # None
    /\ claim' = [to |-> cid_routes[prefix], about |-> prefix]
    /\ UNCHANGED <<natVars, routeVars, packet, events, tun_queue, tun_writer>>

\* An event is queued unless the queue is full or its session is gone.
try_send(s, kind, about) ==
    events' = IF s \in open /\ Len(events[s]) < QueueSize
              THEN [events EXCEPT ![s] = Append(@, [kind |-> kind, about |-> about])]
              ELSE events

\* ... and used.
SendClaim ==
    /\ claim # Nothing
    /\ try_send(claim.to, "Udp", claim.about)
    /\ claim' = Nothing
    /\ UNCHANGED <<natVars, routeVars, packet, tun_queue, tun_writer>>

-----------------------------------------------------------------------------
(* The TUN workers.                                                        *)

lookup_ip(dst, s) == ip_routes[dst] = s

\* run_reader: the sender of the session is cloned and used.  A batch that was
\* received before a cancellation is still handled.
ReadTun(dst) ==
    /\ packet = Nothing
    /\ \E s \in Session :
           /\ lookup_ip(dst, s)
           /\ packet' = [to |-> s, about |-> dst]
    /\ UNCHANGED <<natVars, routeVars, claim, events, tun_queue, tun_writer>>

DeliverTunPacket ==
    /\ packet # Nothing
    /\ try_send(packet.to, "TunPacket", packet.about)
    /\ packet' = Nothing
    /\ UNCHANGED <<natVars, routeVars, claim, tun_queue, tun_writer>>

\* Mutant: a client may use any source address.
validate_packet_any(s, src) == TRUE

validate_packet_src(s, src) == SessionIp[s] = src

\* A session hands a DATA packet to TunSender::accept_packet, which never waits.
\* If the writer has returned, the session ends.
AcceptPacket(s, src) ==
    /\ s \in open
    /\ tun_writer
    /\ validate_packet_src(s, src)
    /\ tun_queue' = IF Len(tun_queue) < QueueSize
                    THEN Append(tun_queue, [from |-> s, src |-> src]) ELSE tun_queue
    /\ UNCHANGED <<natVars, routeVars, claim, packet, events, tun_writer>>

\* run_writer: what is queued is written in batches.
WriteTun ==
    /\ tun_writer
    /\ tun_queue # <<>>
    /\ \E n \in 1..Len(tun_queue) : tun_queue' = SubSeq(tun_queue, n + 1, Len(tun_queue))
    /\ UNCHANGED <<natVars, routeVars, claim, packet, events, tun_writer>>

\* The writer returns when the token is cancelled or a write fails.
WriterReturns ==
    /\ tun_writer /\ SessionTraffic
    /\ tun_writer' = FALSE
    /\ tun_queue' = <<>>
    /\ UNCHANGED <<natVars, routeVars, claim, packet, events>>

-----------------------------------------------------------------------------
(* Sessions and the shutdown, as far as they matter here.                  *)

\* register_session: the address leads to the new session.
SessionStarts(s) ==
    /\ s \notin open /\ SessionTraffic
    /\ open' = open \cup {s}
    /\ ip_routes' = [ip_routes EXCEPT ![SessionIp[s]] = s]
    /\ UNCHANGED <<natVars, cid_routes, queueVars>>

\* insert_cid.
RegisterPrefix(s, p) ==
    /\ s \in open
    /\ cid_routes[p] = None
    /\ cid_routes' = [cid_routes EXCEPT ![p] = s]
    /\ UNCHANGED <<natVars, ip_routes, open, queueVars>>

\* remove_session: the receiver goes with the session.
SessionEnds(s) ==
    /\ s \in open
    /\ open' = open \ {s}
    /\ ip_routes' = [i \in Ip |-> IF ip_routes[i] = s THEN None ELSE ip_routes[i]]
    /\ cid_routes' = [p \in Prefix |-> IF cid_routes[p] = s THEN None ELSE cid_routes[p]]
    /\ events' = [events EXCEPT ![s] = <<>>]
    /\ UNCHANGED <<natVars, claim, packet, tun_queue, tun_writer>>

SessionTakesEvent(s) ==
    /\ events[s] # <<>>
    /\ events' = [events EXCEPT ![s] = Tail(@)]
    /\ UNCHANGED <<natVars, routeVars, claim, packet, tun_queue, tun_writer>>

Cancel ==
    /\ ~cancel
    /\ cancel' = TRUE
    /\ UNCHANGED <<peers, next_token, reader, relays, done, serving, routeVars, queueVars>>

\* run() returns: cancelled, or recvmmsg failed.  The table and the receiver of the
\* notices are dropped, the readers are not.
StopServing ==
    /\ serving /\ NatTraffic
    /\ claim = Nothing
    /\ serving' = FALSE
    /\ peers' = <<>>
    /\ done' = <<>>
    /\ UNCHANGED <<next_token, reader, relays, cancel, routeVars, queueVars>>

-----------------------------------------------------------------------------
NatStep ==
    \/ ReaderDone
    \/ sweep_idle
    \/ StopServing
    \/ \E p \in Peer : PassDatagram(p) \/ BecomesIdle(p)
    \/ \E t \in Token : ReaderLeavesLoop(t) \/ ReaderEnds(t)

PlaneStep ==
    \/ SendClaim \/ DeliverTunPacket \/ WriteTun \/ WriterReturns
    \/ \E p \in Prefix : ClaimDatagram(p)
    \/ \E i \in Ip : ReadTun(i)
    \/ \E s \in Session : \/ SessionStarts(s) \/ SessionEnds(s) \/ SessionTakesEvent(s)
                          \/ \E p \in Prefix : RegisterPrefix(s, p)
                          \/ \E i \in Ip : AcceptPacket(s, i)

Next == NatStep \/ PlaneStep \/ Cancel

Spec == Init /\ [][Next]_vars

\* Fairness: readers are polled, and the select of the front door, which picks among
\* the branches that are ready at random, neglects none of them for ever.  Nothing is
\* assumed about datagrams, the upstream, sessions or time.
Fairness ==
    /\ SF_vars(ReaderDone)
    /\ WF_vars(SendClaim)
    /\ SF_vars(cancel /\ StopServing)
    /\ \A t \in Token : WF_vars(ReaderEnds(t)) /\ WF_vars(cancel /\ ReaderLeavesLoop(t))

FairSpec == Spec /\ Fairness

-----------------------------------------------------------------------------
(* Properties.                                                             *)

\* An entry never outlives its reader unnoticed: its reader is running, or the end
\* of that reader is still to be handled.  A peer whose reader is gone would get no
\* answer on a socket that every datagram of his keeps alive.
EntryHasReader ==
    \A e \in Entries :
        \/ reader[e.token] \in {"Running", "Ending"}
        \/ [peer |-> e.peer, token |-> e.token] \in Range(done)

\* A peer's mapping, once made, stays as long as its reader runs and it is used:
\* only idleness, or being the least recently used of a full table, ends it.  In
\* particular the late notice of an earlier reader of the same peer does not.
MappingStays ==
    \A i \in DOMAIN peers :
        LET e == peers[i]
        IN  (/\ serving'
             /\ reader[e.token] = "Running"
             /\ ~e.idle
             /\ ~(i = 1 /\ Len(peers) = MaxEntries))
            => \E d \in EntriesOf(peers') : d.peer = e.peer /\ d.token = e.token

UsedMappingStays == [][MappingStays]_vars

\* A packet read from the TUN device is queued only for a session of the client
\* whose address it bears, and a packet queued for the TUN device bears the address
\* of the client that sent it, however routes change in between.
PacketsKeepToTheirClient ==
    /\ \A s \in Session : \A e \in Range(events[s]) :
           e.kind = "TunPacket" => e.about = SessionIp[s]
    /\ \A p \in Range(tun_queue) : p.src = SessionIp[p.from]

\* The mapping of a peer whose reader has ended is removed, without the help of a
\* datagram, of time or of the end of the server.
DeadMappingGoes ==
    \A t \in Token : reader[t] = "Ending" ~> \A e \in Entries : e.token # t

\* No reader outlives the server: also the ones that no entry names any more end.
CancelEndsReaders ==
    cancel ~> \A t \in Token : reader[t] \in {"Unborn", "Ended"}

\* What the test get_or_create_upstream_evicts_lru_and_aborts_old_task says: the
\* eviction of an entry ends its reader, so that readers are as few as entries.
EvictionEndsReader ==
    serving => \A t \in Token : reader[t] = "Running" => \E e \in Entries : e.token = t

\* The NAT table keeps to its limit and none of its entries is without a reader whose
\* end will be handled (get_or_create_upstream, handle_reader_done).
MappingsAreServed == TypeOK /\ EntryHasReader

\* Readers and entries end together: the end of a reader ends its mapping, the end of
\* the server ends every reader.
ReadersAreCollected == DeadMappingGoes /\ CancelEndsReaders
=============================================================================
