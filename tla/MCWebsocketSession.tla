------------------------- MODULE MCWebsocketSession -------------------------
(* The instances of WebsocketSession that TLC checks.                      *)
EXTENDS WebsocketSession
=============================================================================
