---------------------------- MODULE MCPacketQueue ----------------------------
(* PacketQueue with the constants of the source.  The server's connection  *)
(* lives through three compactions, the client's through two growths.      *)
EXTENDS PacketQueue

MCMaxPackets == [u \in Users |-> IF u = "server" THEN 310 ELSE 520]
=============================================================================
