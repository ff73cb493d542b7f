-------------------------- MODULE MCServerShutdown --------------------------
(* Small instances of ServerShutdown for TLC.                              *)
EXTENDS ServerShutdown, TLC

CONSTANTS c1, p1, x1, x2

\* One client that connects twice.
MCClient == {c1}
MCIp == {1}
MCAssignedIp == c1 :> 1
MCPrefix == {p1}
MCConn == {x1, x2}
MCWorkerOrder == <<"tcp", "udp">>
=============================================================================
