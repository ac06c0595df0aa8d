-------------------------- MODULE MCPacketHandler --------------------------
(***************************************************************************)
(* Few enough replies for TLC; the server sends more than a mask can hold. *)
(***************************************************************************)
EXTENDS PacketHandler

CONSTANTS ServerSends, ClientSends

MCMaxSent == [server |-> ServerSends, client |-> ClientSends]
=============================================================================
