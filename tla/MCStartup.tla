------------------------------ MODULE MCStartup ------------------------------
(* Model-checking instance of Startup: two peers, so that the peer the     *)
(* device lists first may differ from the one that has handshaken.         *)
EXTENDS Startup

CONSTANTS p1, p2

MCPeers == {p1, p2}
=============================================================================
