---------------------------- MODULE MCUdpEgress ----------------------------
(* One session end: packets of two sizes, of which two or three fill a slab. *)
EXTENDS UdpEgress

MCPacket == 1..3
MCSizes == {1, 2}
=============================================================================
