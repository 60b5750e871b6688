--------------------------- MODULE MCRoomStreams ---------------------------
(* The instances of RoomStreams that TLC checks.                           *)
EXTENDS RoomStreams
=============================================================================
