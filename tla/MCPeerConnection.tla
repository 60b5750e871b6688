------------------------- MODULE MCPeerConnection -------------------------
(* The instances of PeerConnection that TLC checks.                        *)
EXTENDS PeerConnection
=============================================================================
