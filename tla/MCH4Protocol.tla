---------------------------- MODULE MCH4Protocol ----------------------------
(* Small packets of every type.  With a radix of 2 the length bytes are bits, *)
(* so that a payload of two bytes needs the high byte of an ACL length; one   *)
(* packet has no payload.                                                     *)
EXTENDS H4Protocol

SmallPackets ==
    { [type |-> EVENT,    bytes |-> <<1, 1, 0>>],
      [type |-> SCO_DATA, bytes |-> <<1, 0, 1, 1>>],
      [type |-> ACL_DATA, bytes |-> <<0, 1, 0, 1, 1, 0>>],
      [type |-> ACL_DATA, bytes |-> <<0, 1, 0, 0>>] }
=============================================================================
