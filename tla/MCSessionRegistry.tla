------------------------- MODULE MCSessionRegistry -------------------------
(* Small instances of SessionRegistry for TLC.                             *)
EXTENDS SessionRegistry, TLC

CONSTANTS c1, c2, p1, p2

\* Addresses are numbered; client c1 has 1 and client c2 has 2.
MCClient == {c1, c2}
MCIp == {1, 2}
MCAssignedIp == c1 :> 1 @@ c2 :> 2
MCPrefix == {p1, p2}
MCPrefixSymmetry == Permutations(MCPrefix)
============================================================================
