----------------------------- MODULE UdpEgress -----------------------------
(***************************************************************************)
(* How the DATA of one session end leaves over UDP-QSP.  Packets from the  *)
(* TUN device are collected in the send slab of the socket backend         *)
(* (slt-core/src/transport/udp_qsp_io.rs) and handed to the kernel as one  *)
(* segmented transmit; control messages are written and flushed at once.   *)
(* The event loops of both ends (slt-client/src/runtime/session/driver.rs, *)
(* slt-server/src/sessions/lifecycle.rs) decide when a partial slab is     *)
(* flushed, and every failure or fallback decides what becomes of it.      *)
(*                                                                         *)
(* The datagrams travel over a network that loses them and merges them on  *)
(* receipt; the receiving side splits what was merged.  What the messages  *)
(* of the upgrade handshake say is the subject of TransportSwitch, what    *)
(* protects a datagram that of QspSession.                                 *)
(***************************************************************************)
EXTENDS Naturals, Sequences, FiniteSets, SequencesExt

CONSTANTS
    Packet,        \* identities of TUN packets, small numbers
    Foreign,       \* the identity of what a stranger sends
    Sizes,         \* lengths that a protected DATA packet may have
    ControlSize,   \* length of a protected control message
    SocketMaxGso,  \* UdpSocketState::max_gso_segments of a new socket
    MAX_UDP_GSO_PAYLOAD,
    QueueSize,     \* length of the queue in front of the event loop
    NetSize        \* bound: datagrams on the way; any more are lost

ASSUME EgressAssumption ==
    /\ Packet \subseteq Nat \ {0} /\ Foreign \in Nat \ (Packet \cup {0})
    /\ Sizes \cup {ControlSize} \subseteq 1..MAX_UDP_GSO_PAYLOAD
    /\ SocketMaxGso \in Nat /\ MAX_UDP_GSO_PAYLOAD \in Nat
    /\ QueueSize \in Nat \ {0} /\ NetSize \in Nat \ {0}

VARIABLES
    side,         \* which end of a session this is
    plain,        \* PlainUdpQspIo, the backend of Android
    running,      \* the event loop has not returned
    tcp_alive,    \* ClientSession.tcp_alive, ClientSessionBase.tcp_alive
    active,       \* active_transport
    udp,          \* the UDP-QSP transport that this end owns
    io,           \* its socket backend
    deferred,     \* defer_tun_until_flush, flush_before_next_event
    inbox,        \* TUN packets, on the server UDP claims too, in order of arrival
    overtakes,    \* other events taken while a slab was pending: none, one, or more
    net,          \* datagrams on their way to the other end
    recv_queue,   \* RecvState.queue of the other end
    tcp_write     \* packets that the last step wrote to TCP

wireVars == <<net, recv_queue>>
loopVars == <<side, plain, running, tcp_alive, active, udp, io, deferred, inbox, overtakes>>
vars == <<loopVars, wireVars, tcp_write>>

\* A datagram of n bytes; a byte knows its place, so that what is cut in the wrong
\* place shows.  Control messages have the identity 0.
Datagram(p, n) == [i \in 1..n |-> <<p, i, n>>]
Control == Datagram(0, ControlSize)

\* A TUN packet that fits, one that is empty or too long, and on the server a
\* datagram of the client that carries DATA or a PING.
Event ==
    [kind : {"TunPacket"}, bytes : {Datagram(p, n) : p \in Packet, n \in Sizes}]
        \cup [kind : {"Unsendable", "ClaimData", "ClaimPing"}, bytes : {<<>>}]

PacketsIn(bytes) == {b[1] : b \in ToSet(bytes)} \cap Packet
Carried(datagrams) == UNION {PacketsIn(d) : d \in ToSet(datagrams)}

\* The backend of a new socket.
NewIo == [send_buf |-> <<>>, send_segment_size |-> 0, send_segments |-> 0,
          max_gso_segments |-> SocketMaxGso]

TypeOK ==
    /\ side \in {"Client", "Server"}
    /\ {plain, running, tcp_alive, deferred} \subseteq BOOLEAN
    /\ active \in {"Tcp", "UdpQsp"}
    /\ udp \in {"None", "Active", "Retained"}
    /\ io.send_segment_size \in 0..MAX_UDP_GSO_PAYLOAD
    /\ {io.send_segments, io.max_gso_segments, overtakes} \subseteq Nat
    /\ Len(io.send_buf) = io.send_segment_size * io.send_segments
    /\ inbox \in Seq(Event) /\ Len(inbox) <= QueueSize
    /\ Len(net) <= NetSize
    /\ tcp_write \subseteq Packet

Init ==
    /\ side \in {"Client", "Server"}
    /\ plain \in {FALSE, side = "Client"}
    /\ running = TRUE /\ tcp_alive = TRUE
    /\ active = "Tcp" /\ udp = "None"
    /\ io = NewIo
    /\ deferred = FALSE
    /\ inbox = <<>>
    /\ overtakes = 0
    /\ net = <<>> /\ recv_queue = <<>>
    /\ tcp_write = {}

-----------------------------------------------------------------------------
(* The send slab.  An attempt [io, out, ok] is a backend, the datagrams    *)
(* that the kernel took, and whether the call returned Ok.                 *)

Attempt(backend) == [io |-> backend, out |-> <<>>, ok |-> TRUE]

\* Cuts len bytes into pieces of at most stride bytes.
Pieces(bytes, stride) ==
    [i \in 1..(Len(bytes) + stride - 1) \div stride |->
        SubSeq(bytes, (i - 1) * stride + 1,
               IF i * stride < Len(bytes) THEN i * stride ELSE Len(bytes))]

\* sendmsg: the kernel cuts a transmit at its segment size, if it has one.
KernelSegments(backend) ==
    IF backend.send_segments > 1
    THEN Pieces(backend.send_buf, backend.send_segment_size)
    ELSE <<backend.send_buf>>

max_gso_segments_for_size(socket_max, size) ==
    LET by_socket  == IF socket_max = 0 THEN 1 ELSE socket_max
        by_payload == MAX_UDP_GSO_PAYLOAD \div size
    IN  IF by_payload < by_socket THEN by_payload ELSE by_socket

clear_send_slab(backend) ==
    [backend EXCEPT !.send_buf = <<>>, !.send_segment_size = 0, !.send_segments = 0]

discard_pending_send(backend) == clear_send_slab(backend)

\* Waiting for a writable socket is part of the step.  An error leaves the slab as
\* it is; quinn-udp may give up segmentation offload because of it.
flush_pending(try) ==
    IF try.io.send_segments = 0 THEN {try}
    ELSE {[try EXCEPT !.io = clear_send_slab(@), !.out = @ \o KernelSegments(try.io)]}
             \cup {[try EXCEPT !.ok = FALSE, !.io.max_gso_segments = m] :
                      m \in {try.io.max_gso_segments, 1}}

\* Mutant: packets of different sizes share a slab.
must_flush_when_full(backend, segment_size, max_segments) ==
    backend.send_segments # 0 /\ backend.send_segments >= max_segments

must_flush_before_append(backend, segment_size, max_segments) ==
    /\ backend.send_segments # 0
    /\ \/ backend.send_segment_size # segment_size
       \/ backend.send_segments >= max_segments

Appended(backend, bytes) ==
    [backend EXCEPT !.send_buf = @ \o bytes, !.send_segments = @ + 1,
                    !.send_segment_size = IF backend.send_segments = 0 THEN Len(bytes) ELSE @]

send_packet(backend, bytes) ==
    LET max == max_gso_segments_for_size(backend.max_gso_segments, Len(bytes))
        room == IF must_flush_before_append(backend, Len(bytes), max)
                THEN flush_pending(Attempt(backend))
                ELSE {Attempt(backend)}
        Then(try) == LET longer == [try EXCEPT !.io = Appended(@, bytes)]
                     IN  IF longer.io.send_segments >= max
                         THEN flush_pending(longer) ELSE {longer}
    IN  UNION {IF try.ok THEN Then(try) ELSE {try} : try \in room}

\* PlainUdpQspIo::send_packet: one send_to per packet, nothing is kept.
plain_send_packet(backend, bytes) ==
    {[Attempt(backend) EXCEPT !.out = <<bytes>>], [Attempt(backend) EXCEPT !.ok = FALSE]}

\* UdpQspTransport::write_message and queue_udp_message: the message is sealed (the
\* packet numbers may be exhausted) and given to the backend.
write_message(backend, bytes) ==
    {[Attempt(backend) EXCEPT !.ok = FALSE]}
        \cup (IF plain THEN plain_send_packet(backend, bytes) ELSE send_packet(backend, bytes))

\* write_udp_message_and_flush, send_udp_message_and_flush.
write_message_and_flush(backend, bytes) ==
    UNION {IF try.ok THEN flush_pending(try) ELSE {try} : try \in write_message(backend, bytes)}

has_pending_udp_flush == active = "UdpQsp" /\ udp = "Active" /\ io.send_segments # 0

-----------------------------------------------------------------------------
(* What every step of the event loop does with the outcome.                *)

\* What the kernel took is on its way or lost.
Transmits(out) ==
    LET sent == [i \in DOMAIN out |-> [from |-> "Peer", bytes |-> out[i]]]
        all  == net \o sent
    IN  /\ net' = SubSeq(all, 1, IF Len(all) < NetSize THEN Len(all) ELSE NetSize)
        /\ UNCHANGED recv_queue

\* Mutant: events that do not add to the batch never hold the queue back.
defer_tun_never(scheduling, was_deferred, flush_was_pending, flush_is_pending) == FALSE

\* TunScheduling::defer_tun; run_inner of the server sets flush_before_next_event in
\* the same way.
defer_tun(scheduling, was_deferred, flush_was_pending, flush_is_pending) ==
    CASE scheduling \in {"UdpFlush", "BatchablePacket"} -> FALSE
      [] scheduling = "NonBatchingTun" -> flush_was_pending /\ flush_is_pending
      [] scheduling = "Unchanged" -> was_deferred /\ flush_is_pending

\* The end of an iteration of the loop that wrote these packets to TCP.
Continues(scheduling, written) ==
    /\ deferred' = defer_tun(scheduling, deferred, has_pending_udp_flush, has_pending_udp_flush')
    /\ overtakes' = IF io'.send_segments = 0 THEN 0
                    ELSE IF scheduling = "NonBatchingTun" /\ overtakes < 2 THEN overtakes + 1
                    ELSE overtakes
    /\ inbox' = IF scheduling \in {"NonBatchingTun", "BatchablePacket"} THEN Tail(inbox) ELSE inbox
    /\ tcp_write' = written
    /\ UNCHANGED <<side, plain, running>>

\* The loop returns: what is pending on the active transport is flushed if that can
\* be done, and the transports are dropped.  Nothing of it is observed any more.
Ends(last) ==
    LET pending == IF side = "Client" /\ (active # "UdpQsp" \/ udp # "Active")
                   THEN {last} ELSE flush_pending([last EXCEPT !.ok = TRUE])
    IN  \E final \in pending :
            /\ Transmits(final.out)
            /\ running' = FALSE
            /\ io' = NewIo /\ udp' = "None" /\ inbox' = <<>>
            /\ deferred' = FALSE /\ overtakes' = 0
            /\ tcp_write' = {}
            /\ UNCHANGED <<side, plain, tcp_alive, active>>

\* TCP is active from here on, and takes these packets; now_udp and backend are what
\* the step leaves of the UDP path.
WritesTcp(packets, now_udp, backend, out, scheduling) ==
    /\ active' = "Tcp" /\ udp' = now_udp /\ io' = backend
    /\ Transmits(out)
    /\ UNCHANGED tcp_alive
    /\ Continues(scheduling, packets)

\* Mutant: the transport that failed is kept for what it may still receive.
UdpFailsAndStays(try, retried, scheduling) ==
    \/ tcp_alive /\ WritesTcp(retried, IF side = "Client" THEN "Retained" ELSE udp,
                              try.io, try.out, scheduling)
    \/ ~tcp_alive /\ Ends(try)

\* handle_udp_error of the client, recover_from_udp_send_error and
\* recover_from_udp_flush_error of the server.  A path that is only kept for what it
\* may still receive is dropped; any other is given up for TCP, with a request to the
\* peer, and the message is retried there.  Without TCP, or when TCP fails in its
\* turn, the session ends; the client has then not always discarded its slab.
UdpFails(try, retried, scheduling) ==
    \/ /\ udp = "Retained"
       /\ udp' = "None" /\ io' = NewIo
       /\ Transmits(try.out)
       /\ UNCHANGED <<tcp_alive, active>>
       /\ Continues(scheduling, {})
    \/ /\ udp = "Active" /\ tcp_alive
       /\ WritesTcp(retried, "None", NewIo, try.out, scheduling)
    \/ /\ udp = "Active"
       /\ \/ side = "Client" /\ Ends(try)
          \/ (side = "Server" \/ tcp_alive) /\ Ends([try EXCEPT !.io = NewIo])

\* A message on UDP-QSP: what is done when it is accepted, and when it is not.
SendsUdp(attempts, retried, scheduling) ==
    \E try \in attempts :
        \/ /\ try.ok
           /\ io' = try.io
           /\ Transmits(try.out)
           /\ UNCHANGED <<tcp_alive, active, udp>>
           /\ Continues(scheduling, {})
        \/ ~try.ok /\ UdpFails(try, retried, scheduling)

SendsControl(scheduling) == SendsUdp(write_message_and_flush(io, Control), {}, scheduling)

\* The event is handled without sending anything.
Ignores(scheduling) ==
    /\ UNCHANGED <<tcp_alive, active, udp, io, wireVars>>
    /\ Continues(scheduling, {})

-----------------------------------------------------------------------------
(* The events of the queue.                                                *)

\* tun_scheduling, event_extends_udp_batch: what an event is to the batch is decided
\* before it is handled.
tun_scheduling(event) ==
    IF event.kind = "TunPacket" /\ active = "UdpQsp" THEN "BatchablePacket" ELSE "NonBatchingTun"

\* handle_tun_packet, on either side.
handle_tun_packet(event) ==
    \/ event.kind = "Unsendable" /\ Ignores(tun_scheduling(event))
    \/ /\ event.kind = "TunPacket" /\ active = "Tcp"
       /\ \/ WritesTcp(PacketsIn(event.bytes), udp, io, <<>>, tun_scheduling(event))
          \/ Ends(Attempt(io))
    \/ /\ event.kind = "TunPacket" /\ active = "UdpQsp"
       /\ SendsUdp(write_message(io, event.bytes), PacketsIn(event.bytes), tun_scheduling(event))

\* handle_udp_claim of the server: a claim without a UDP session is dropped.
handle_udp_claim(event) ==
    \/ /\ event.kind = "ClaimData" \/ (event.kind = "ClaimPing" /\ udp = "None")
       /\ Ignores(tun_scheduling(event))
    \/ event.kind = "ClaimPing" /\ udp # "None" /\ SendsControl(tun_scheduling(event))

TakeEvent ==
    /\ running /\ ~deferred /\ inbox # <<>>
    /\ LET event == Head(inbox)
       IN  handle_tun_packet(event) \/ handle_udp_claim(event)

\* UdpFlushReady, SessionWork::UdpFlush: taken when the queue is empty or held back.
UdpFlushReady ==
    /\ running /\ has_pending_udp_flush
    /\ deferred \/ inbox = <<>>
    /\ SendsUdp(flush_pending(Attempt(io)), {}, "UdpFlush")

-----------------------------------------------------------------------------
(* The other events of the loop.                                           *)

\* handle_ping_tick.
PingTick ==
    /\ running
    /\ \/ active = "Tcp" /\ (Ignores("Unchanged") \/ Ends(Attempt(io)))
       \/ active = "UdpQsp" /\ SendsControl("Unchanged")

\* handle_udp_message of the client: a PING on the active path or on the retained one.
UdpPing ==
    /\ running /\ side = "Client" /\ udp # "None"
    /\ SendsControl("Unchanged")

\* SessionEvent::UdpResult of the client: a receive error that is_recoverable does not
\* excuse.
UdpReadFails ==
    /\ running /\ side = "Client" /\ udp # "None"
    /\ UdpFails([Attempt(io) EXCEPT !.ok = FALSE], {}, "Unchanged")

\* The registration succeeds and a new transport takes the place of the old one.
Register ==
    /\ running /\ tcp_alive /\ active = "Tcp"
    /\ side = "Server" \/ udp # "Active"
    /\ udp' = "Active" /\ io' = NewIo
    /\ UNCHANGED <<tcp_alive, active, wireVars>>
    /\ Continues("Unchanged", {})

\* send_upgrade_probe of the client, handle_upgrade_probe of the server.
UpgradeProbe ==
    /\ running /\ active = "Tcp" /\ udp = "Active"
    /\ SendsControl("Unchanged")

\* The handshake ends.
SwitchToUdp ==
    /\ running /\ active = "Tcp" /\ udp = "Active"
    /\ active' = "UdpQsp"
    /\ UNCHANGED <<tcp_alive, udp, io, wireVars>>
    /\ Continues("Unchanged", {})

\* The client keeps the old transport for what is still on the way, the server leaves
\* it as it is.
Kept == IF side = "Client" THEN "Retained" ELSE udp

\* discard_pending_udp_send_for_fallback, set_active_transport: what is buffered is
\* neither flushed nor replayed.
FallbackDiscards == WritesTcp({}, Kept, discard_pending_send(io), <<>>, "Unchanged")

\* handle_fallback_to_tcp: FALLBACK_TO_TCP from the peer, answered on TCP.
FallbackToTcp ==
    /\ running /\ active = "UdpQsp" /\ tcp_alive
    /\ FallbackDiscards \/ Ends(Attempt(discard_pending_send(io)))

\* The client sends its request before it discards anything; the server retires the
\* transport first.
UdpLivenessTimeout ==
    /\ running /\ active = "UdpQsp" /\ tcp_alive
    /\ \/ side = "Client" /\ (FallbackDiscards \/ Ends(Attempt(io)))
       \/ /\ side = "Server"
          /\ WritesTcp({}, "None", NewIo, <<>>, "Unchanged") \/ Ends(Attempt(NewIo))

\* The end of the TCP stream.
TcpEof ==
    /\ running /\ tcp_alive
    /\ \/ /\ active = "UdpQsp"
          /\ tcp_alive' = FALSE
          /\ UNCHANGED <<active, udp, io, wireVars>>
          /\ Continues("Unchanged", {})
       \/ active = "Tcp" /\ Ends(Attempt(io))

\* UdpQspTransport::replace_io: what is pending is flushed if the old socket can.
replace_io(try) ==
    {[s EXCEPT !.io = NewIo] : s \in flush_pending(try)}

\* handle_network_changed: a ping on the path; without an answer a ping from a new
\* socket; without an answer there, TCP.
NetworkChanged ==
    /\ running /\ side = "Client"
    /\ \/ active = "Tcp" /\ Ends(Attempt(io))
       \/ /\ active = "UdpQsp"
          /\ \E first \in write_message_and_flush(io, Control) :
                \/ /\ first.ok
                   /\ io' = first.io /\ Transmits(first.out)
                   /\ UNCHANGED <<tcp_alive, active, udp>>
                   /\ Continues("Unchanged", {})
                \/ \E moved \in replace_io(first) :
                      \E second \in write_message_and_flush(NewIo, Control) :
                         LET out == moved.out \o second.out
                         IN  \/ /\ second.ok
                                /\ io' = second.io /\ Transmits(out)
                                /\ UNCHANGED <<tcp_alive, active, udp>>
                                /\ Continues("Unchanged", {})
                             \/ tcp_alive /\ WritesTcp({}, "None", NewIo, out, "Unchanged")
                             \/ Ends([second EXCEPT !.out = out])

\* A shutdown, a CLOSE, an idle session, a protocol error.
Exit == running /\ Ends(Attempt(io))

-----------------------------------------------------------------------------
(* The network and the other end.                                          *)

InUse ==
    Carried([i \in DOMAIN inbox |-> inbox[i].bytes]) \cup PacketsIn(io.send_buf)
        \cup Carried([i \in DOMAIN net |-> net[i].bytes]) \cup Carried(recv_queue)

\* An event arrives.  The identity of a packet is the least one that is not in use:
\* what became of an earlier packet of that name is forgotten.
Arrives(event) ==
    /\ running /\ Len(inbox) < QueueSize
    /\ inbox' = Append(inbox, event)
    /\ tcp_write' = {}
    /\ UNCHANGED <<side, plain, running, tcp_alive, active, udp, io, deferred, overtakes, wireVars>>

TunPacketArrives ==
    \/ \E p \in Packet \ InUse, n \in Sizes :
          /\ \A q \in Packet \ InUse : p <= q
          /\ Arrives([kind |-> "TunPacket", bytes |-> Datagram(p, n)])
    \/ Arrives([kind |-> "Unsendable", bytes |-> <<>>])

ClaimArrives ==
    /\ side = "Server"
    /\ \E kind \in {"ClaimData", "ClaimPing"} : Arrives([kind |-> kind, bytes |-> <<>>])

\* UDP loses datagrams, and anybody may send one to the socket of a client.
Loses ==
    /\ net # <<>>
    /\ net' = Tail(net)
    /\ tcp_write' = {}
    /\ UNCHANGED <<loopVars, recv_queue>>

StrangerSends ==
    /\ side = "Server" /\ Len(net) < NetSize
    /\ net' = Append(net, [from |-> "Stranger", bytes |-> Datagram(Foreign, ControlSize)])
    /\ tcp_write' = {}
    /\ UNCHANGED <<loopVars, recv_queue>>

\* The kernel merges neighbours of one sender and one size, the last may be shorter.
Merged(first, last) ==
    /\ \A i \in first..last : net[i].from = net[first].from
    /\ \A i \in first..last - 1 : Len(net[i].bytes) = Len(net[first].bytes)
    /\ Len(net[last].bytes) <= Len(net[first].bytes)

gro_datagram_ranges(bytes, stride) == Pieces(bytes, IF stride = 0 THEN 1 ELSE stride)

\* queue_peer_datagrams, for one buffer of a batch: what the peer sent, split again.
\* The front door of the server takes datagrams from everybody.
queue_peer_datagrams(first, last) ==
    IF net[first].from # "Peer" THEN <<>>
    ELSE gro_datagram_ranges(FlattenSeq([i \in 1..last - first + 1 |-> net[first + i - 1].bytes]),
                             Len(net[first].bytes))

\* recv_one_batch, when the queue is empty: one or two buffers.
recv_one_batch ==
    /\ recv_queue = <<>>
    /\ \E k \in DOMAIN net : \E cut \in 0..k - 1 :
          /\ Merged(cut + 1, k) /\ (cut > 0 => Merged(1, cut))
          /\ recv_queue' = (IF cut = 0 THEN <<>> ELSE queue_peer_datagrams(1, cut))
                              \o queue_peer_datagrams(cut + 1, k)
          /\ net' = SubSeq(net, k + 1, Len(net))
    /\ tcp_write' = {}
    /\ UNCHANGED loopVars

\* recv_packet: the caller takes one datagram.
recv_packet ==
    /\ recv_queue # <<>>
    /\ recv_queue' = Tail(recv_queue)
    /\ tcp_write' = {}
    /\ UNCHANGED <<loopVars, net>>

Next ==
    \/ TakeEvent \/ UdpFlushReady
    \/ PingTick \/ UdpPing \/ UdpReadFails \/ Register \/ UpgradeProbe \/ SwitchToUdp
    \/ FallbackToTcp \/ UdpLivenessTimeout \/ TcpEof \/ NetworkChanged \/ Exit
    \/ TunPacketArrives \/ ClaimArrives
    \/ Loses \/ StrangerSends \/ recv_one_batch \/ recv_packet

\* The select of the loop picks at random among the arms that are ready, and the arms
\* in front of it (commands, timers that are due) are not always ready: the arm of the
\* queue and of the flush is taken at some time.
Spec == Init /\ [][Next]_vars /\ WF_vars(TakeEvent \/ UdpFlushReady)

-----------------------------------------------------------------------------
(* Properties.                                                             *)

\* What a receiver takes from a merged buffer is what a sender put in a datagram: not
\* a piece, not two in one, not from a stranger.  It takes the slab, the segment size,
\* the kernel on both sides and the ranges to get this right.
DatagramsArriveWhole ==
    \A d \in ToSet(recv_queue) :
        d # <<>> /\ d[1][1] # Foreign /\ \A i \in DOMAIN d : d[i] = <<d[1][1], i, Len(d)>>

\* Between two steps the slab has room for one more, so that the next transmit is one
\* that the kernel takes, and whatever ended a step badly left nothing in it.
SlabIsSendable ==
    io.send_segments # 0 =>
        /\ Len(io.send_buf) + io.send_segment_size <= MAX_UDP_GSO_PAYLOAD
        /\ io.send_segments < io.max_gso_segments

\* A fallback is a hard cutover: a slab is pending only where the loop flushes it, on
\* the active transport, so that no packet of before the cutover follows it.
NothingIsStranded == io.send_segments # 0 => has_pending_udp_flush

\* A packet that was retried on TCP is not sent on UDP too, now or with a later flush.
NoPacketTwice ==
    tcp_write \cap (PacketsIn(io.send_buf) \cup Carried([i \in DOMAIN net |-> net[i].bytes])) = {}

\* One event that adds nothing to the batch may go first (it may be the one that moves
\* the peer address), then the batch is flushed.
BatchIsOvertakenOnce == overtakes <= 1

\* A packet does not stay in the slab, whatever else arrives.
BatchesAreSent ==
    \A p \in Packet : p \in PacketsIn(io.send_buf) ~> p \notin PacketsIn(io.send_buf)

\* The send slab in every state: sendable, pending only where it will be flushed, not
\* duplicating what went over TCP, and overtaken at most once.
SlabIsSound ==
    TypeOK /\ SlabIsSendable /\ NothingIsStranded /\ NoPacketTwice /\ BatchIsOvertakenOnce
=============================================================================
