---------------------------- MODULE MCPacketStream ----------------------------
(* Instances of PacketStream for TLC. *)
EXTENDS PacketStream
=============================================================================
