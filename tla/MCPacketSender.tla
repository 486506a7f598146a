--------------------------- MODULE MCPacketSender ---------------------------
(* Small instance of PacketSender: three flows, one of them unreadable,    *)
(* batches of two.                                                         *)
EXTENDS PacketSender
=============================================================================
