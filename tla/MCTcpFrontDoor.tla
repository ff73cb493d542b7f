--------------------------- MODULE MCTcpFrontDoor ---------------------------
(***************************************************************************)
(* Three connections in front of a cap of two.                             *)
(***************************************************************************)
EXTENDS TcpFrontDoor, TLC

Symmetry == Permutations(Conn)
=============================================================================
