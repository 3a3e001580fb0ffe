--------------------------- MODULE MCPacketFramer ---------------------------
(***************************************************************************)
(* Instances of PacketFramer for TLC: messages made of the protocol's own  *)
(* special bytes.                                                          *)
(***************************************************************************)
EXTENDS PacketFramer

weight == <<119>>
led == <<108>>
volume == <<118>>
ping == <<112>>

MCFormats ==
  (weight :> <<"d">>) @@ (led :> <<"s">>) @@ (volume :> <<"c">>) @@ (ping :> <<"e">>)

Image == <<0, PACKET_STOP, 0, 0, 0, 0, PACKET_START_0, PACKET_STOP>>
StartBytes == <<PACKET_START_0, PACKET_START_1, 0, 2, 0, 0, PACKET_STOP, 0>>
Longest == <<49, 50, PACKET_STOP, 52, 53, 54, 55>>

MCMessages ==
  [host |-> {[category |-> weight, args |-> << -70000 >>],
             [category |-> weight, args |-> <<10 * 16777216 + 18 * 65536 + 19 * 256 + 18>>],
             [category |-> ping, args |-> <<StartBytes>>]},
   board |-> {[category |-> led, args |-> << <<PACKET_STOP, PACKET_START_0>> >>],
              [category |-> led, args |-> <<Longest>>],
              [category |-> volume, args |-> <<200>>],
              [category |-> ping, args |-> <<Image>>],
              [category |-> ping, args |-> <<StartBytes>>]}]

Text == {PACKET_STOP, PACKET_START_0}
=============================================================================
