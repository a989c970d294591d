--------------------------- MODULE MCPeerOutbound ---------------------------
(* The outbound channels of two peers, one of them with keepalives.          *)
EXTENDS PeerOutbound

CONSTANTS p, q
=============================================================================
