------------------------ MODULE MCNodeWebSocketClient -------------------------
(* Three calls of connect, so that three sockets can be open at once.       *)
EXTENDS NodeWebSocketClient, TLC
=============================================================================
