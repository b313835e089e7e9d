----------------------------- MODULE MatchRules -----------------------------
(***************************************************************************)
(* The rules of a match: the pure functions of match_state.go, and the     *)
(* order on snapshot versions of ws_handler.go.  Positions, velocities,    *)
(* pockets and audit hashes are left out: no rule reads them.  A target    *)
(* ball is on the table or sunk; the cue ball (id 0) is never sunk in a    *)
(* snapshot (sanitizeSubmittedBalls), so only the result of a shot says    *)
(* that it fell.                                                           *)
(***************************************************************************)
EXTENDS Integers, FiniteSets

CONSTANTS
    Creator,        \* the user that created the room
    NoUser,         \* the empty user id: no opponent, no winner, no shooter
    CreatorBalls,   \* balls 1-7
    OpponentBalls,  \* balls 9-15
    BlackBall,      \* ball 8, the only "neutral" one
    PrepareTime,    \* matchTurnPrepareMS
    TurnTime,       \* matchTurnDurationMS
    ShotTime        \* matchShotResultTimeoutMS

ASSUME RulesAssumption ==
    /\ Creator # NoUser
    /\ BlackBall \notin CreatorBalls \cup OpponentBalls
    /\ CreatorBalls \cap OpponentBalls = {}
    /\ IsFiniteSet(CreatorBalls) /\ CreatorBalls # {}
    /\ IsFiniteSet(OpponentBalls) /\ OpponentBalls # {}
    /\ {PrepareTime, TurnTime, ShotTime} \subseteq Nat \ {0}

Balls == CreatorBalls \cup OpponentBalls \cup {BlackBall}

BallPoints == 10

(***************************************************************************)
(* A snapshot.  turnDeadline = 0 says that the turn's clock has not        *)
(* started (TurnStartedAtMS is set and cleared with it).  ActiveShot is    *)
(* the shooter and the time its shot started; its shot_seq is the          *)
(* snapshot's, set in the same assignment.  updatedAt = 0 only in          *)
(* NoSnapshot, which stands for "no snapshot of this room".                *)
(***************************************************************************)
NoSnapshot ==
    [status |-> "none", turnUser |-> NoUser, turnSeq |-> 0, turnDeadline |-> 0,
     shotSeq |-> 0, shooter |-> NoUser, shotStartedAt |-> 0, winner |-> NoUser,
     sunk |-> {}, creatorScore |-> 0, opponentScore |-> 0, updatedAt |-> 0]

Exists(s) == s.status # "none"

newInitialMatchSnapshot(now) ==
    [NoSnapshot EXCEPT !.status = "aiming", !.turnUser = Creator, !.turnSeq = 1,
                       !.updatedAt = now]

(***************************************************************************)
(* Clocks.                                                                 *)
(***************************************************************************)
turnClockStarted(s) == s.turnDeadline > 0

Undecided(s, status) == s.status = status /\ s.winner = NoUser

turnPrepareDue(s, now) ==
    /\ Undecided(s, "aiming")
    /\ ~turnClockStarted(s)
    /\ now >= s.updatedAt + PrepareTime

isTurnExpired(s, now) ==
    /\ Undecided(s, "aiming")
    /\ turnClockStarted(s)
    /\ now >= s.turnDeadline

shotResultDeadline(s) == s.shotStartedAt + ShotTime

shotResultExpired(s, now) ==
    /\ Undecided(s, "moving")
    /\ s.shooter # NoUser
    /\ now >= shotResultDeadline(s)

(***************************************************************************)
(* Two updates in one millisecond still get two versions.                  *)
(***************************************************************************)
snapshotUpdateTimeAfter(s, now) ==
    IF now <= s.updatedAt THEN s.updatedAt + 1 ELSE now

statusRank(status) ==
    CASE status = "aiming"   -> 1
      [] status = "moving"   -> 3
      [] status = "finished" -> 4
      [] OTHER               -> 0

snapshotIsNewer(s, t) ==
    \/ s.shotSeq > t.shotSeq
    \/ /\ s.shotSeq = t.shotSeq
       /\ \/ s.turnSeq > t.turnSeq
          \/ /\ s.turnSeq = t.turnSeq
             /\ \/ s.updatedAt > t.updatedAt
                \/ /\ s.updatedAt = t.updatedAt
                   /\ statusRank(s.status) > statusRank(t.status)

(***************************************************************************)
(* Players.  room is [status, opponent]: the creator never changes.        *)
(***************************************************************************)
isRoomParticipant(room, user) == user = Creator \/ (user # NoUser /\ user = room.opponent)

roleForUser(room, user) ==
    CASE user = Creator                                -> "creator"
      [] user # Creator /\ isRoomParticipant(room, user) -> "opponent"
      [] OTHER                                         -> ""

opponentUserIDFor(room, user) ==
    CASE roleForUser(room, user) = "creator"  -> room.opponent
      [] roleForUser(room, user) = "opponent" -> Creator
      [] OTHER                                -> NoUser

\* Mutants: the branches swapped; the role in place of the user.
nextTurnStays(room, user) ==
    IF room.opponent # NoUser /\ user = Creator THEN Creator ELSE room.opponent

nextTurnRole(room, user) ==
    IF room.opponent # NoUser /\ user = Creator THEN "opponent" ELSE "creator"

nextTurnUserIDFor(room, user) ==
    IF room.opponent # NoUser /\ user = Creator THEN room.opponent ELSE Creator

(***************************************************************************)
(* The steps of a match that are not a shot's result.                      *)
(***************************************************************************)
startTurnClock(s, now) ==
    LET at == snapshotUpdateTimeAfter(s, now)
    IN  [s EXCEPT !.turnDeadline = at + TurnTime, !.updatedAt = at,
                  !.shooter = NoUser, !.shotStartedAt = 0]

passTurn(s, user, now) ==
    [s EXCEPT !.status = "aiming", !.turnUser = user, !.turnSeq = @ + 1,
              !.turnDeadline = 0, !.shooter = NoUser, !.shotStartedAt = 0,
              !.updatedAt = snapshotUpdateTimeAfter(s, now)]

applyTurnTimeout(room, s, now) ==
    passTurn(s, nextTurnUserIDFor(room, s.turnUser), now)

applyShotResultTimeout(room, s, now) ==
    passTurn(s, nextTurnUserIDFor(room, s.shooter), now)

startShot(s, user, now) ==
    LET at == snapshotUpdateTimeAfter(s, now)
    IN  [s EXCEPT !.status = "moving", !.shotSeq = @ + 1, !.turnDeadline = 0,
                  !.shooter = user, !.shotStartedAt = at, !.updatedAt = at]

(***************************************************************************)
(* The result of a shot, as its shooter's client reports it: the balls     *)
(* that lie in a pocket and whether the cue ball fell.  shotSeq may be the *)
(* number of the shot or the one before (the client's own counter).        *)
(***************************************************************************)
ShotResult(maxSeq) ==
    [shotSeq : 0 .. maxSeq, sunk : SUBSET Balls, cueBallSunk : BOOLEAN]

preservesPreviouslySunkTargets(s, result) == s.sunk \subseteq result.sunk

acceptsShotResult(s, result) ==
    /\ s.status = "moving"
    /\ s.shooter # NoUser
    /\ result.shotSeq \in {s.shotSeq, s.shotSeq - 1}
    /\ preservesPreviouslySunkTargets(s, result)

\* Mutant: balls of earlier shots score again.
scoredAgain(s, result, side) == BallPoints * Cardinality(result.sunk \cap side)

scored(s, result, side) == BallPoints * Cardinality((result.sunk \ s.sunk) \cap side)

BallsOf(role) ==
    CASE role = "creator"  -> CreatorBalls
      [] role = "opponent" -> OpponentBalls
      [] OTHER             -> {}

resolveServerWinnerRole(sunk, creatorScore, opponentScore, shooterRole) ==
    LET creatorCleared  == CreatorBalls \subseteq sunk
        opponentCleared == OpponentBalls \subseteq sunk
    IN  CASE creatorCleared /\ ~opponentCleared -> "creator"
          [] opponentCleared /\ ~creatorCleared -> "opponent"
          [] ~creatorCleared /\ ~opponentCleared /\ BlackBall \notin sunk -> ""
          [] OTHER -> IF creatorScore > opponentScore THEN "creator"
                      ELSE IF opponentScore > creatorScore THEN "opponent"
                      ELSE shooterRole

userForRole(room, role) ==
    CASE role = "creator"  -> Creator
      [] role = "opponent" -> room.opponent
      [] OTHER             -> NoUser

winnerAfterShot(room, s, result) ==
    IF BlackBall \in result.sunk \ s.sunk
    THEN opponentUserIDFor(room, s.shooter)
    ELSE userForRole(room,
            resolveServerWinnerRole(result.sunk,
                s.creatorScore  + scored(s, result, CreatorBalls),
                s.opponentScore + scored(s, result, OpponentBalls),
                roleForUser(room, s.shooter)))

keepsTurn(room, s, result) ==
    /\ ~result.cueBallSunk
    /\ (result.sunk \ s.sunk) \cap BallsOf(roleForUser(room, s.shooter)) # {}

applyShotResult(room, s, result, now) ==
    LET winner == winnerAfterShot(room, s, result)
    IN  [status        |-> IF winner = NoUser THEN "aiming" ELSE "finished",
         turnUser      |-> CASE winner # NoUser            -> s.turnUser
                             [] winner = NoUser /\ keepsTurn(room, s, result)  -> s.shooter
                             [] winner = NoUser /\ ~keepsTurn(room, s, result) ->
                                    nextTurnUserIDFor(room, s.turnUser),
         turnSeq       |-> IF winner = NoUser THEN s.turnSeq + 1 ELSE s.turnSeq,
         turnDeadline  |-> 0,
         shotSeq       |-> s.shotSeq,
         shooter       |-> NoUser,
         shotStartedAt |-> 0,
         winner        |-> winner,
         sunk          |-> result.sunk,
         creatorScore  |-> s.creatorScore  + scored(s, result, CreatorBalls),
         opponentScore |-> s.opponentScore + scored(s, result, OpponentBalls),
         updatedAt     |-> snapshotUpdateTimeAfter(s, now)]
=============================================================================
