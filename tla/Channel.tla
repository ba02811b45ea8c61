-------------------------------- MODULE Channel --------------------------------
(***************************************************************************)
(* What a websocket promises about the messages it is given: they arrive   *)
(* in the order in which they were accepted, each at most once, none of    *)
(* them skipped, until the connection breaks; a socket that goes away      *)
(* without a failure has delivered all of them.                            *)
(***************************************************************************)
EXTENDS Naturals, Sequences

CONSTANT Messages

VARIABLES
    accepted,   \* the messages the socket accepted, in order
    delivered,  \* the messages that reached the peer, in order
    broken,     \* whether the connection failed
    gone        \* whether the socket was destroyed

channel == <<accepted, delivered, broken, gone>>

Init == accepted = <<>> /\ delivered = <<>> /\ broken = FALSE /\ gone = FALSE

Accept ==
    /\ ~gone
    /\ \E m \in Messages : accepted' = Append(accepted, m)
    /\ UNCHANGED <<delivered, broken, gone>>

Deliver ==
    /\ ~broken /\ ~gone
    /\ Len(delivered) < Len(accepted)
    /\ delivered' = Append(delivered, accepted[Len(delivered) + 1])
    /\ UNCHANGED <<accepted, broken, gone>>

Break ==
    /\ broken' = TRUE
    /\ UNCHANGED <<accepted, delivered, gone>>

Close ==
    /\ broken \/ delivered = accepted
    /\ gone' = TRUE
    /\ UNCHANGED <<accepted, delivered, broken>>

Next == Accept \/ Deliver \/ Break \/ Close

Spec == Init /\ [][Next]_channel
=============================================================================
