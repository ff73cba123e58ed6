--------------------------- MODULE MCPacketService ---------------------------
(* PacketService with two or three requests: one being written while       *)
(* another is awaited and a third is queued, and handlers that submit and  *)
(* remove the others.                                                      *)
EXTENDS PacketService
=============================================================================
