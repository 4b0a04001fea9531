--------------------------- MODULE MCPacketReader ---------------------------
(* PacketReader.tla for TLC: bodies of one to three bytes, one of them with  *)
(* a blank line inside and one that starts with a blank line.                *)
EXTENDS PacketReader, TLC

CONSTANTS r1, r2, r3

AllRequests == {r1, r2, r3}
OneDisconnect == {r1}
Bodies == (r1 :> <<FALSE>>) @@ (r2 :> <<FALSE, TRUE, FALSE>>) @@ (r3 :> <<TRUE, FALSE>>)
=============================================================================
