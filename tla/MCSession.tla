----------------------------- MODULE MCSession -----------------------------
(***************************************************************************)
(* Small instances of Session: two tabs, or one, that are opened at        *)
(* /cadastro, from where the routes lead to the other pages.               *)
(***************************************************************************)
EXTENDS Session

CONSTANTS a, b

OnePath == {"/cadastro"}
=============================================================================
