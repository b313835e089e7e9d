--------------------------- MODULE MCInvitations ---------------------------
(***************************************************************************)
(* A small instance of Invitations.                                        *)
(***************************************************************************)
EXTENDS Invitations
=============================================================================
