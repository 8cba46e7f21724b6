------------------------- MODULE MCGoWebSocketClient --------------------------
(* Two attempts, room for one frame, up to three connections.               *)
EXTENDS GoWebSocketClient, TLC
=============================================================================
