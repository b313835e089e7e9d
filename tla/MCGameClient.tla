---------------------------- MODULE MCGameClient ----------------------------
(***************************************************************************)
(* Small instances of GameClient: the player of this browser created the   *)
(* room, so the first turn of every match is theirs.                       *)
(***************************************************************************)
EXTENDS GameClient

CONSTANTS me, other
=============================================================================
