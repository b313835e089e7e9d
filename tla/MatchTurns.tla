---------------------------- MODULE MatchTurns -----------------------------
(***************************************************************************)
(* What the lobby promises the two players of a room, with no cache, no    *)
(* database, no clock and no goroutine in sight: one table, on which turns *)
(* and shots follow each other.  A table is dealt when a match opens; from *)
(* then on, as long as the room is playing, it changes by the moves of the *)
(* game and in no other way.                                               *)
(***************************************************************************)
EXTENDS Naturals

CONSTANTS Creator, Opponent, NoUser, Balls, BlackBall

VARIABLES
    status,     \* of the room
    opening,    \* the match has just been opened: its table may be dealt
    table       \* the turn, the shot and the balls in the pockets

tvars == <<status, opening, table>>

Players == {Creator, Opponent}
Other(p) == IF p = Creator THEN Opponent ELSE Creator

Tables ==
    [phase : {"none", "prepare", "turn", "shot", "over"}, turn : Nat, shot : Nat,
     player : Players \cup {NoUser}, sunk : SUBSET Balls, winner : Players \cup {NoUser}]

NoTable ==
    [phase |-> "none", turn |-> 0, shot |-> 0, player |-> NoUser, sunk |-> {},
     winner |-> NoUser]

FirstTable == [NoTable EXCEPT !.phase = "prepare", !.turn = 1, !.player = Creator]

Init ==
    /\ status = "waiting"
    /\ opening = FALSE
    /\ table = NoTable

(***************************************************************************)
(* The moves of the game.                                                  *)
(***************************************************************************)
NextTurn(p, sunk) ==
    table' = [table EXCEPT !.phase = "prepare", !.turn = @ + 1, !.player = p, !.sunk = sunk]

StartClock ==
    /\ table.phase = "prepare"
    /\ table' = [table EXCEPT !.phase = "turn"]

Shoot ==
    /\ table.phase = "turn"
    /\ table' = [table EXCEPT !.phase = "shot", !.shot = @ + 1]

\* The player was too slow to shoot, or its client to report the shot.
TimeOut ==
    /\ table.phase \in {"turn", "shot"}
    /\ NextTurn(Other(table.player), table.sunk)

\* The balls came to rest.  Who pockets nothing passes the turn; who pockets
\* the black ball loses.
Rest ==
    /\ table.phase = "shot"
    /\ \E sunk \in SUBSET Balls, p \in Players :
          /\ table.sunk \subseteq sunk
          /\ \/ /\ p = table.player => sunk # table.sunk
                /\ BlackBall \notin sunk \ table.sunk
                /\ NextTurn(p, sunk)
             \/ /\ BlackBall \in sunk \ table.sunk => p = Other(table.player)
                /\ table' = [table EXCEPT !.phase = "over", !.sunk = sunk, !.winner = p]

Move ==
    /\ StartClock \/ Shoot \/ TimeOut \/ Rest
    /\ UNCHANGED <<status, opening>>

(***************************************************************************)
(* The room around the table.                                              *)
(***************************************************************************)
Open ==
    /\ status \in {"waiting", "finished"}
    /\ status' = "playing" /\ opening' = TRUE
    /\ UNCHANGED table

Deal ==
    /\ opening
    /\ table' = FirstTable
    /\ opening' \in {opening, FALSE}
    /\ UNCHANGED status

Settle ==
    /\ opening /\ opening' = FALSE
    /\ UNCHANGED <<status, table>>

Finish ==
    /\ status = "playing" /\ table.phase = "over"
    /\ status' = "finished" /\ opening' = FALSE
    /\ UNCHANGED table

Leave ==
    /\ status' \in {"waiting", "expired"} /\ opening' = FALSE
    /\ UNCHANGED table

\* Off the match, and until its first table is dealt, nobody looks at the table:
\* it may be swept away, and a late handler may put it back.
Sweep ==
    /\ status # "playing" \/ opening
    /\ table' \in Tables
    /\ UNCHANGED <<status, opening>>

Next == Move \/ Open \/ Deal \/ Settle \/ Finish \/ Leave \/ Sweep

Spec == Init /\ [][Next]_tvars
=============================================================================
