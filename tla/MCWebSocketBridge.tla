------------------------- MODULE MCWebSocketBridge -------------------------
(***************************************************************************)
(* Bounds for model-checking the live updates: three sockets, so that one  *)
(* leaves and another joins within a broadcast and the size of the set is  *)
(* the same again, and two messages, so that one waits behind a broadcast. *)
(***************************************************************************)
EXTENDS WebSocketBridge

CONSTANTS s1, s2, s3

MCSockets == {s1, s2, s3}

=============================================================================
