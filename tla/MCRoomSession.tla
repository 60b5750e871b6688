--------------------------- MODULE MCRoomSession ---------------------------
(* The instances of RoomSession that TLC checks.                           *)
EXTENDS RoomSession
=============================================================================
