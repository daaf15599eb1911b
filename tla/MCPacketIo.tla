----------------------------- MODULE MCPacketIo -----------------------------
(* Model checking of PacketIo: two ports, a pool of a few cache lines.      *)
EXTENDS PacketIo, TLC

MCLaneOf == 1 :> 65 @@ 2 :> 5
\* No group, both ports in one, and port 1 in the service VLAN of port 2.
MCL2Files == {<<>>, 2 :> <<1, 2>>, 5 :> <<1>>}
=============================================================================
