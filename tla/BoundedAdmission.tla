-------------------------- MODULE BoundedAdmission --------------------------
(***************************************************************************)
(* What the TCP admission table promises, without locks, lists or tasks:   *)
(* at most Cap connections hold a slot; a holder may lose its slot to a    *)
(* newcomer only when all slots are taken and before it is served; one     *)
(* that lost its slot is never served.  A connection may also be served    *)
(* without a slot (a claim that arrives complete at a full table).         *)
(***************************************************************************)
EXTENDS Naturals, FiniteSets

CONSTANTS Conn, Cap

VARIABLES holding, evictees, served

vars == <<holding, evictees, served>>

Init ==
    /\ holding = {}
    /\ evictees = {}
    /\ served = {}

Admit(c) ==
    /\ c \notin holding \cup evictees \cup served
    /\ Cardinality(holding) < Cap
    /\ holding' = holding \cup {c}
    /\ UNCHANGED <<evictees, served>>

Evict(c) ==
    /\ c \in holding \ served
    /\ Cardinality(holding) = Cap
    /\ holding' = holding \ {c}
    /\ evictees' = evictees \cup {c}
    /\ UNCHANGED served

Serve(c) ==
    /\ c \notin evictees \cup served
    /\ served' = served \cup {c}
    /\ UNCHANGED <<holding, evictees>>

Leave(c) ==
    /\ c \in holding
    /\ holding' = holding \ {c}
    /\ UNCHANGED <<evictees, served>>

Next == \E c \in Conn : Admit(c) \/ Evict(c) \/ Serve(c) \/ Leave(c)

Spec == Init /\ [][Next]_vars
=============================================================================
