---------------------------- MODULE TableMotion ----------------------------
(***************************************************************************)
(* The balls of the browser's table between a shot's first frame and its   *)
(* report (game/physics/engine.ts, and SnookerMatch.tsx: SimulationLoop).  *)
(* The engine computes in numbers; here a ball that is up has a speed,     *)
(* which stands for its velocity and spin together.  Cloth and cushions    *)
(* may take any part of it, balls that meet pass it on, and a ball that    *)
(* moves may get into a pocket.  Frames run when they like and React shows *)
(* what they set when it likes.                                            *)
(***************************************************************************)
EXTENDS Naturals, Sequences, FiniteSets

CONSTANTS
    White, Targets,     \* the cue ball and the others
    MaxSpeed,           \* bounds: the speed that a shot gives, shots,
    MaxShots,
    FrameDeltas,        \* time between two frames, in halves of a tick,
    SinkTicks,          \* ticks that a ball takes to go down (SINK_ANIMATION_SECONDS)
    TicksPerFrame,      \* and that a frame may play (PHYSICS_MAX_TICKS_PER_FRAME),
    MaxFrameDelta       \* time that a frame counts at most (PHYSICS_MAX_FRAME_DELTA_SECONDS)

\* Time is counted in halves of a tick (PHYSICS_FIXED_STEP_SECONDS).
Tick == 2

\* A frame's time is a number, going down takes time, and the cue ball is not a target.
\* The code's three numbers, 1/240 s, 24 ticks and 0.1 s, just meet the last conjunct.
ASSUME TableAssumption ==
    /\ White \notin Targets
    /\ MaxSpeed \in Nat /\ TicksPerFrame \in Nat /\ FrameDeltas \subseteq Nat
    /\ SinkTicks \in Nat \ {0}
    /\ MaxFrameDelta \in Nat /\ MaxFrameDelta <= TicksPerFrame * Tick

VARIABLES
    balls,      \* ballsRef
    loop,       \* SimulationLoop: its refs, and the frame that is being played
    hud,        \* React: isAiming as set and as shown, and whether the cue is animated
    shot        \* the shot, the table before it, what fell, and the reports of it

tableVars == <<balls, loop, hud, shot>>

Balls == Targets \union {White}

Still == [place |-> "up", speed |-> 0, down |-> 0, overPocket |-> FALSE]
initBalls == [b \in Balls |-> Still]

\* As the first snapshot brings it, with any balls down.
Tables == {[b \in Balls |-> IF b \in down THEN [Still EXCEPT !.place = "sunk"] ELSE initBalls[b]] :
              down \in SUBSET Targets}

NoShot == [mine |-> FALSE, before |-> initBalls, fell |-> {}, hashing |-> <<>>, told |-> <<>>,
           over |-> TRUE, again |-> FALSE]

TableInit ==
    /\ balls \in Tables
    /\ loop = [acc |-> 0, wasAiming |-> TRUE, running |-> FALSE, ticks |-> 0]
    /\ hud = [set |-> TRUE, shown |-> TRUE, striking |-> FALSE, shots |-> 0]
    /\ shot = NoShot

----------------------------------------------------------------------------
(* The engine: a tick of all balls.                                        *)

beginSinking(b) == [Still EXCEPT !.place = "sinking"]

updateSinkingBall(b) ==
    IF b.down + 1 < SinkTicks THEN [b EXCEPT !.down = @ + 1]
    ELSE [Still EXCEPT !.place = "sunk"]

\* A ball that moved slows down and may have got into a pocket; one that lies over a pocket
\* goes down, moving or not.
Moved(b) ==
    CASE b.place = "sunk" -> {b}
      [] b.place = "sinking" -> {updateSinkingBall(b)}
      [] b.place = "up" /\ b.overPocket -> {beginSinking(b)}
      [] b.place = "up" /\ ~b.overPocket ->
            {[b EXCEPT !.speed = s] : s \in 0 .. b.speed}
            \union (IF b.speed > 0 THEN {beginSinking(b)} ELSE {})

\* Two balls that are up meet.
Collided(t) ==
    {t} \union
    {[t EXCEPT ![m[1]].speed = m[3], ![m[2]].speed = t[m[1]].speed + t[m[2]].speed - m[3]] :
        m \in {n \in Balls \X Balls \X (0 .. MaxSpeed) :
                  /\ n[1] # n[2] /\ t[n[1]].place = "up" /\ t[n[2]].place = "up"
                  /\ n[3] <= t[n[1]].speed + t[n[2]].speed}}

stepSimulation(t) ==
    UNION {Collided(u) : u \in {v \in [Balls -> UNION {Moved(t[b]) : b \in Balls}] :
                                    \A b \in Balls : v[b] \in Moved(t[b])}}

\* Mutant: a ball on its way down has no speed.
isStaticButSinking(t) == \A b \in Balls : t[b].speed = 0

isStatic(t) == \A b \in Balls : t[b].place # "sinking" /\ t[b].speed = 0

----------------------------------------------------------------------------
(* A shot.                                                                 *)

Between == ~loop.running

beginShot ==
    /\ Between /\ hud.set = hud.shown /\ hud.set /\ shot.over /\ shot.hashing = <<>>
    /\ hud.shots < MaxShots
    /\ hud' = [hud EXCEPT !.striking = TRUE, !.shots = @ + 1]
    /\ \E mine \in BOOLEAN :
          shot' = [NoShot EXCEPT !.mine = mine, !.before = balls, !.over = FALSE]
    /\ UNCHANGED <<balls, loop>>

\* The cue gets to the white ball; without one on the table there would be no shot.
handleCueContact ==
    /\ Between /\ hud.striking
    /\ IF balls[White].place = "up"
       THEN /\ \E s \in 1 .. MaxSpeed : balls' = [balls EXCEPT ![White].speed = s]
            /\ hud' = [hud EXCEPT !.striking = FALSE, !.set = FALSE]
       ELSE /\ hud' = [hud EXCEPT !.striking = FALSE]
            /\ UNCHANGED balls
    /\ UNCHANGED <<loop, shot>>

\* findCueRespawnPosition keeps clear of the other balls and not of the pockets.
Respawned(t) ==
    IF t[White].place # "sunk" THEN {t}
    ELSE {[t EXCEPT ![White] = [Still EXCEPT !.overPocket = over]] : over \in BOOLEAN}

Falling(t) == {b \in Balls : t[b].place = "sinking"}

\* What the shooter's page will tell is hashed first; the next stop of the same shot (a frame
\* that ran before React showed the first one) tells it again.
handleSimulationStopped(t) ==
    /\ balls' \in Respawned(t)
    /\ shot' = [shot EXCEPT
                  !.fell = @ \union Falling(t),
                  !.hashing = IF shot.mine /\ ~shot.over /\ Len(@) < 2
                              THEN Append(@, t[White].place = "sunk") ELSE @]

(***************************************************************************)
(* SimulationLoop's frames.  A frame plays its ticks with nothing between  *)
(* them; each is a step here.                                              *)
(***************************************************************************)
useFrame(delta) ==
    /\ Between
    /\ IF hud.shown
       THEN /\ loop.acc # 0 \/ ~loop.wasAiming
            /\ loop' = [loop EXCEPT !.acc = 0, !.wasAiming = TRUE]
       ELSE loop' = [loop EXCEPT
                        !.acc = (IF loop.wasAiming THEN 0 ELSE @)
                                + (IF delta < MaxFrameDelta THEN delta ELSE MaxFrameDelta),
                        !.wasAiming = FALSE, !.running = TRUE, !.ticks = 0]
    /\ shot' = [shot EXCEPT !.again = @ \/ (hud.set /\ ~hud.shown)]
    /\ UNCHANGED <<balls, hud>>

\* Mutant: one tick less than a frame may have to play.
TicksOnOneLess(l) == l.acc >= Tick /\ l.ticks + 1 < TicksPerFrame

TicksOn(l) == l.acc >= Tick /\ l.ticks < TicksPerFrame

Ticks ==
    /\ loop.running /\ TicksOn(loop)
    /\ \E t \in stepSimulation(balls) :
          IF isStatic(t)
          THEN /\ loop' = [acc |-> 0, wasAiming |-> TRUE, running |-> FALSE, ticks |-> 0]
               /\ hud' = [hud EXCEPT !.set = TRUE]
               /\ handleSimulationStopped(t)
          ELSE /\ loop' = [loop EXCEPT !.acc = @ - Tick, !.ticks = @ + 1]
               /\ balls' = t
               /\ shot' = [shot EXCEPT !.fell = @ \union Falling(t)]
               /\ UNCHANGED hud

FrameEnds ==
    /\ loop.running /\ ~TicksOn(loop)
    /\ loop' = [loop EXCEPT !.running = FALSE, !.ticks = 0]
    /\ UNCHANGED <<balls, hud, shot>>

RenderTable ==
    /\ Between /\ hud.set # hud.shown
    /\ hud' = [hud EXCEPT !.shown = hud.set]
    /\ UNCHANGED <<balls, loop, shot>>

\* The hash is there, and the balls are read now.  The lobby takes the first report only.
onShotResult ==
    /\ Between /\ shot.hashing # <<>>
    /\ shot' = [shot EXCEPT
                  !.hashing = Tail(@),
                  !.told = IF @ # <<>> THEN @
                           ELSE <<[balls |-> balls, cueBallSunk |-> Head(shot.hashing),
                                   over |-> shot.over, again |-> shot.again]>>]
    /\ UNCHANGED <<balls, loop, hud>>

(***************************************************************************)
(* The lobby's snapshot ends the shot: with the table that the shooter     *)
(* told, or, when its time is over, with the one before.  It comes while   *)
(* the balls still move when the other player's page is faster, or when    *)
(* time is over; and it brings other pockets.                              *)
(***************************************************************************)
Told ==
    IF shot.mine THEN {shot.told[i].balls : i \in DOMAIN shot.told}
    ELSE {[b \in Balls |-> IF b \in fallen THEN [Still EXCEPT !.place = "sunk"]
                           ELSE shot.before[b]] : fallen \in SUBSET Targets}

Bare(t) == [b \in Balls |-> [t[b] EXCEPT !.overPocket = FALSE]]

alignLocalBallsToSnapshot ==
    /\ Between /\ ~shot.over
    /\ \E t \in Told \union {shot.before} : balls' = Bare(t)
    /\ hud' = [hud EXCEPT !.set = TRUE, !.striking = FALSE]
    /\ shot' = [shot EXCEPT !.over = TRUE]
    /\ UNCHANGED loop

TableNext ==
    \/ beginShot \/ handleCueContact
    \/ \E delta \in FrameDeltas : useFrame(delta)
    \/ Ticks \/ FrameEnds \/ RenderTable \/ onShotResult \/ alignLocalBallsToSnapshot

TableSpec == TableInit /\ [][TableNext]_tableVars

----------------------------------------------------------------------------
(* Properties.                                                             *)

BallStates == [place : {"up", "sinking", "sunk"}, speed : 0 .. MaxSpeed,
               down : 0 .. SinkTicks - 1, overPocket : BOOLEAN]
TableTypeOK ==
    /\ balls \in [Balls -> BallStates] /\ shot.before \in [Balls -> BallStates]
    /\ \A b \in Balls : balls[b].place # "up" => balls[b].speed = 0
    /\ shot.fell \subseteq Balls
    /\ loop.ticks <= TicksPerFrame

\* A page tells the lobby of its shot on a table where nothing moves or goes down, with the
\* white ball up again; what fell in the shot is down, nothing else is that was not before,
\* and the cue ball is said to have fallen just if it has.
ReportIsTrue ==
    shot.told # <<>> =>
        LET r == shot.told[1] IN
        ~r.over /\ ~r.again =>
            /\ \A b \in Balls : r.balls[b].place # "sinking" /\ r.balls[b].speed = 0
            /\ r.balls[White].place = "up"
            /\ \A b \in Targets :
                  r.balls[b].place = "sunk" <=> b \in shot.fell
                                                \/ shot.before[b].place = "sunk"
            /\ r.cueBallSunk <=> White \in shot.fell

\* After a frame less than a tick is left to play: however long or short the frames are, the
\* balls move at the pace of the clock.
TimeIsPlayed == ~loop.running => loop.acc < Tick
=============================================================================
