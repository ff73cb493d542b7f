---------------------------- MODULE MCQspSession ----------------------------
(***************************************************************************)
(* Instances of QspSession for TLC.                                        *)
(***************************************************************************)
EXTENDS QspSession, TLC

CONSTANTS a1, a2

\* From the first packet number on, across the key updates, just before each change
\* of the wire length, the wrap of four wire bytes and the last packet number.
MCStarts == {0, 5, 12, 60, 253, 506, 510}

MCTwoAddrs == {a1, a2}

Symmetry == Permutations(MCTwoAddrs)
=============================================================================
