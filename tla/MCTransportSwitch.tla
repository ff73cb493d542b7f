------------------------- MODULE MCTransportSwitch -------------------------
(* Small instances of TransportSwitch for TLC.                             *)
EXTENDS TransportSwitch
============================================================================
