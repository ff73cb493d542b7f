-------------------------- MODULE MCClientRuntime --------------------------
(***************************************************************************)
(* Both hosts, two attempts, two commands in the channel.                  *)
(***************************************************************************)
EXTENDS ClientRuntime
=============================================================================
