--------------------------- MODULE MCUdpFrontDoor ---------------------------
(***************************************************************************)
(* Three peers in front of a NAT table with two entries, or three sessions *)
(* behind short queues.                                                    *)
(***************************************************************************)
EXTENDS UdpFrontDoor

CONSTANTS u1, u2, u3, x1, s1, s2, s3, i1, i2

\* Two sessions of one client, one of another.
MCSessionIp == [s \in Session |-> IF s = s3 THEN i2 ELSE i1]

=============================================================================
