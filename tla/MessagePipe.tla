---------------------------- MODULE MessagePipe ----------------------------
(***************************************************************************)
(* What a framed channel promises to the two sides of a connection: in     *)
(* each direction the messages that come out are the messages that went    *)
(* in, whole, once each and in order.  The connection may end at any       *)
(* moment, and what is still inside is then lost.                          *)
(***************************************************************************)
EXTENDS Naturals, Sequences

CONSTANT Side

VARIABLES
    written,   \* the messages a side has written
    taken      \* the messages that came out at the other side

Init ==
    /\ written = [s \in Side |-> <<>>]
    /\ taken = [s \in Side |-> <<>>]

\* A side writes one more message, whatever it is.
Put(s) ==
    /\ Len(written'[s]) = Len(written[s]) + 1
    /\ written' = [written EXCEPT ![s] = Append(@, written'[s][Len(@) + 1])]

\* The oldest message of a side that is still inside comes out.
Take(s) ==
    /\ Len(taken[s]) < Len(written[s])
    /\ taken' = [taken EXCEPT ![s] = Append(@, written[s][Len(@) + 1])]

\* One step may take a message out and answer it.
Next ==
    \/ \E s \in Side : Put(s) /\ UNCHANGED taken
    \/ \E s \in Side : Take(s) /\ UNCHANGED written
    \/ \E s, t \in Side : Put(s) /\ Take(t)

Spec == Init /\ [][Next]_<<written, taken>>

=============================================================================
