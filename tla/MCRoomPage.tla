----------------------------- MODULE MCRoomPage -----------------------------
(***************************************************************************)
(* Small instances of RoomPage.                                            *)
(***************************************************************************)
EXTENDS RoomPage

CONSTANTS creator, opponent
=============================================================================
