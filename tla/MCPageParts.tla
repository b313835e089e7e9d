---------------------------- MODULE MCPageParts ----------------------------
(***************************************************************************)
(* A small instance of each of four parts of the pages: the other player's *)
(* cue, the chat of the room, the list of rooms and the balls in motion.   *)
(* They share nothing: a behaviour is of one of them, and the others stay  *)
(* as they began.                                                          *)
(***************************************************************************)
EXTENDS CueFeed, ChatFeed, HomeFeed, TableMotion

VARIABLE part

vars == <<part, cueVars, chatVars, homeVars, tableVars>>

PartsInit ==
    /\ part \in {"cue", "chat", "home", "table"}
    /\ Init /\ ChatInit /\ HomeInit /\ TableInit
    /\ part # "chat" => panel.page = "game"
    /\ part # "table" => balls = initBalls

CueOnly   == part = "cue"   /\ UNCHANGED <<part, chatVars, homeVars, tableVars>>
ChatOnly  == part = "chat"  /\ UNCHANGED <<part, cueVars, homeVars, tableVars>>
HomeOnly  == part = "home"  /\ UNCHANGED <<part, cueVars, chatVars, tableVars>>
TableOnly == part = "table" /\ UNCHANGED <<part, cueVars, chatVars, homeVars>>

PartsNext ==
    \/ CueOnly /\ Next
    \/ ChatOnly /\ ChatNext
    \/ HomeOnly /\ HomeNext
    \/ TableOnly /\ TableNext

\* Of the four only the cue has a liveness property, and fairness for it.
PartsFairness ==
    \A p \in Players : WF_vars(CueOnly /\ Shows(p)) /\ WF_vars(CueOnly /\ Tells(p))

PartsSpec == PartsInit /\ [][PartsNext]_vars /\ PartsFairness

----------------------------------------------------------------------------
\* The types of the four.
TypesOK == TypeOK /\ ChatTypeOK /\ HomeTypeOK /\ TableTypeOK
=============================================================================
