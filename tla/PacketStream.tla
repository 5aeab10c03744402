---------------------------- MODULE PacketStream ----------------------------
(***************************************************************************)
(* What a packet transport promises: the packets handed up are the packets  *)
(* sent, each once, whole, in order and under its own type.                 *)
(***************************************************************************)
EXTENDS Sequences

CONSTANT Packets

VARIABLES
    pending,      \* packets sent and not handed up
    delivered     \* packets handed up

vars == <<pending, delivered>>

Init == pending = <<>> /\ delivered = <<>>

Send(p) == pending' = Append(pending, p) /\ UNCHANGED delivered

Deliver ==
    /\ pending # <<>>
    /\ delivered' = Append(delivered, Head(pending))
    /\ pending' = Tail(pending)

Next == Deliver \/ \E p \in Packets : Send(p)

Spec == Init /\ [][Next]_vars
=============================================================================
