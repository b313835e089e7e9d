--------------------------- MODULE MCMatchServer ---------------------------
(***************************************************************************)
(* Small instances of MatchServer: one ball of each player, or two.        *)
(***************************************************************************)
EXTENDS MatchServer, TLC

CONSTANTS creator, opponent, nobody, leaver, free, g1, g2

NoEvents == [start |-> 1, rematch |-> 0, leave |-> 0, crash |-> 0, writeFault |-> 0, readFault |-> 0]

Departures == [NoEvents EXCEPT !.start = 2, !.leave = 1]
Restarts   == [NoEvents EXCEPT !.rematch = 1, !.crash = 1, !.writeFault = 1]
Wild       == [NoEvents EXCEPT !.readFault = 1]

=============================================================================
