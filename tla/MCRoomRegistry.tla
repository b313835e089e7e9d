--------------------------- MODULE MCRoomRegistry ---------------------------
(***************************************************************************)
(* Small tables of rooms for TLC.                                          *)
(***************************************************************************)
EXTENDS RoomRegistry, TLC

\* Nothing tells two requests apart, and only the users are ordered.
\* Sound for the safety runs only.
Symmetry == Permutations(Requests) \cup Permutations(Rooms)
=============================================================================
