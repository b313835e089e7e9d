------------------------------ MODULE CueFeed ------------------------------
(***************************************************************************)
(* The cue that the player to shoot aims with, as the other player sees it *)
(* move: cue_state packets, many a second, any of which may be dropped,    *)
(* late or of a turn that is over (GamePage.tsx, SnookerMatch.tsx and the  *)
(* cue_state case of ws_handler.go).  Two browsers on the page of one      *)
(* match; messages set React state, which the effects of the next Render   *)
(* show in the order they are written in.  What a turn and a shot are is   *)
(* in MatchServer, what a page does with shots in GameClient.              *)
(***************************************************************************)
EXTENDS Naturals, Sequences

CONSTANTS
    A, B,           \* the players; A has the first turn
    MaxActs,        \* bounds: changes of the aim, new turns and broken links together,
    MaxInbox,       \* messages on the way to a page, and from it
    MaxOutbox

ASSUME CueAssumption == MaxActs \in Nat /\ MaxInbox \in Nat /\ MaxOutbox \in Nat

VARIABLES
    match,      \* the match as the lobby holds it, the aims numbered, the acts so far
    page,       \* each player's page, with its link and its handler in the lobby
    late        \* packets that a handler checked whose link has broken since

cueVars == <<match, page, late>>

Players == {A, B}
Opposite(p) == IF p = A THEN B ELSE A

(***************************************************************************)
(* An aim is an angle and a power, told from others by n: a player that    *)
(* aims anew, and one whose turn begins, takes the next number.  What      *)
(* orders packets, server_received_at_ms above all, grows with the n of    *)
(* their aims, and packets of one aim are the same to whoever gets them.   *)
(***************************************************************************)
Aim(p, n) == [by |-> p, n |-> n]
NoAim == Aim("nobody", 0)
Packet(aim, shot) == [aim |-> aim, shot |-> shot]
NoPacket == Packet(NoAim, 0)

Message(type, snap, packet) == [type |-> type, snap |-> snap, packet |-> packet]
Snapshot(m) == [at |-> m.at, shot |-> m.shot, turn |-> m.turn, player |-> m.player,
                status |-> m.status, timed |-> m.timed]
NoSnapshot == [at |-> 0, shot |-> 0, turn |-> 0, player |-> A, status |-> "none",
               timed |-> FALSE]
CueState(packet) == Message("cue_state", NoSnapshot, packet)
ShotStarted(aim, shot) == Message("shot_started", NoSnapshot, Packet(aim, shot))
TurnTimeoutEvent == Message("turn_timeout", NoSnapshot, NoPacket)
GameStateSync(m) == Message("game_state_sync", Snapshot(m), NoPacket)

FreshPage ==
    [up |-> TRUE, in |-> <<>>, out |-> <<>>,
     relay |-> NoPacket,        \* what the link's handler has checked and will publish
     seen |-> 0,                \* lastSnapshotVersionRef
     last |-> 0,                \* lastCueVersionBySender, of the other player
     remote |-> NoPacket,       \* remoteCue
     snap |-> NoSnapshot, started |-> NoPacket,    \* incomingSnapshot, incomingShot
     effects |-> {},            \* which of the three a Render finds changed
     clock |-> 0,               \* the turn whose deadline the page counts down to
     turn |-> A, status |-> "aiming", shot |-> 0, lastShot |-> 0, aim |-> NoAim]

Init ==
    /\ match = [at |-> 1, shot |-> 0, turn |-> 1, player |-> A, status |-> "aiming",
                timed |-> FALSE, shotAim |-> NoAim, aims |-> 0, acts |-> 0]
    /\ page = [p \in Players |-> [FreshPage EXCEPT !.aim = IF p = A THEN Aim(A, 0) ELSE NoAim]]
    /\ late = {}

----------------------------------------------------------------------------
(* Links.                                                                  *)

Room(pg, p, k) == pg[p].up => Len(pg[p].in) + k <= MaxInbox

\* The pages with messages published to the room: open links get them in order.
Published(pg, messages) ==
    [p \in Players |->
        IF pg[p].up THEN [pg[p] EXCEPT !.in = @ \o messages] ELSE pg[p]]

Publishes(pg, messages) ==
    /\ \A p \in Players : Room(pg, p, Len(messages))
    /\ page' = Published(pg, messages)

Break(p) ==
    /\ page[p].up
    /\ match.acts < MaxActs
    /\ match' = [match EXCEPT !.acts = @ + 1]
    /\ late' = IF page[p].relay = NoPacket THEN late ELSE late \union {page[p].relay}
    /\ page' = [page EXCEPT ![p].up = FALSE, ![p].in = <<>>, ![p].out = <<>>,
                            ![p].relay = NoPacket]

\* A new link asks for the state of the game, which is published to the room.
Reconnect(p) ==
    /\ ~page[p].up
    /\ Publishes([page EXCEPT ![p].up = TRUE],
                 <<GameStateSync(match)>> \o
                 (IF match.status = "moving"
                  THEN <<ShotStarted(match.shotAim, match.shot)>> ELSE <<>>))
    /\ UNCHANGED <<match, late>>

----------------------------------------------------------------------------
(* The lobby.                                                              *)

StartClock ==
    /\ match.status = "aiming" /\ ~match.timed
    /\ match' = [match EXCEPT !.timed = TRUE, !.at = @ + 1]
    /\ Publishes(page, <<GameStateSync(match')>>)
    /\ UNCHANGED late

TurnTimeout ==
    /\ match.status = "aiming" /\ match.timed
    /\ match.acts < MaxActs
    /\ match' = [match EXCEPT !.turn = @ + 1, !.player = Opposite(@), !.timed = FALSE,
                              !.at = @ + 1, !.acts = @ + 1]
    /\ Publishes(page, <<TurnTimeoutEvent, GameStateSync(match')>>)
    /\ UNCHANGED late

ShotEnds ==
    /\ match.status = "moving"
    /\ match.acts < MaxActs
    /\ \E p \in Players :
          match' = [match EXCEPT !.turn = @ + 1, !.player = p, !.status = "aiming",
                                 !.at = @ + 1, !.acts = @ + 1]
    /\ Publishes(page, <<GameStateSync(match')>>)
    /\ UNCHANGED late

\* cue_state comes through only from who has the turn, while its clock runs.
Relays(p, packet) ==
    /\ match.status = "aiming" /\ match.timed
    /\ match.player = p
    /\ packet.shot = match.shot

RelayReads(p) ==
    /\ page[p].relay = NoPacket
    /\ page[p].out # <<>>
    /\ Head(page[p].out).type = "cue_state"
    /\ LET packet == Head(page[p].out).packet IN
       page' = [page EXCEPT ![p].out = Tail(@),
                            ![p].relay = IF Relays(p, packet) THEN packet ELSE NoPacket]
    /\ UNCHANGED <<match, late>>

\* One packet right after another like it tells nobody anything.
Repeats(q, packet) == q # <<>> /\ q[Len(q)] = CueState(packet)

\* The sender's own page ignores the packet: only the other one is given it.
Relayed(pg, packet) ==
    LET q == Opposite(packet.aim.by) IN
    IF pg[q].up /\ ~Repeats(pg[q].in, packet)
    THEN [pg EXCEPT ![q].in = Append(@, CueState(packet))] ELSE pg

RelayPublishes(p) ==
    /\ page[p].relay # NoPacket
    /\ Room(page, Opposite(p), 1)
    /\ page' = Relayed([page EXCEPT ![p].relay = NoPacket], page[p].relay)
    /\ UNCHANGED <<match, late>>

LatePublishes ==
    /\ \E packet \in late :
          /\ Room(page, Opposite(packet.aim.by), 1)
          /\ page' = Relayed(page, packet)
          /\ late' = late \ {packet}
    /\ UNCHANGED match

ServeShot(p) ==
    /\ page[p].relay = NoPacket
    /\ page[p].out # <<>>
    /\ Head(page[p].out).type = "shot_started"
    /\ LET aim == Head(page[p].out).packet.aim
           read == [page EXCEPT ![p].out = Tail(@)] IN
       IF match.status = "aiming" /\ match.timed /\ match.player = p
       THEN /\ match' = [match EXCEPT !.shot = @ + 1, !.status = "moving", !.timed = FALSE,
                                      !.shotAim = aim, !.at = @ + 1]
            /\ Publishes(read, <<ShotStarted(aim, match'.shot)>>)
       ELSE page' = read /\ UNCHANGED match
    /\ UNCHANGED late

----------------------------------------------------------------------------
(* The page: messages.                                                     *)

isNewerCuePacket(packet, last) == packet.aim.n >= last

OnCueState(s, packet) ==
    IF isNewerCuePacket(packet, s.last)
    THEN [s EXCEPT !.last = packet.aim.n, !.remote = packet, !.effects = @ \union {"cue"}]
    ELSE s

OnShotStarted(s, packet) ==
    [s EXCEPT !.remote = NoPacket, !.clock = 0, !.started = packet,
              !.effects = (@ \ {"cue"}) \union {"shot"}]

OnTurnTimeout(s) ==
    [s EXCEPT !.remote = NoPacket, !.clock = 0, !.started = NoPacket,
              !.effects = @ \ {"cue", "shot"}]

\* The cue shown stays if the snapshot leaves its player the turn.
OnGameStateSync(s, snap) ==
    IF snap.at <= s.seen THEN s ELSE
    LET stays == snap.status = "aiming" /\ s.remote.aim.by = snap.player IN
    [s EXCEPT !.seen = snap.at, !.snap = snap,
              !.clock = IF snap.status = "aiming" /\ snap.timed THEN snap.turn ELSE 0,
              !.remote = IF stays THEN @ ELSE NoPacket,
              !.effects = (IF stays THEN @ ELSE @ \ {"cue"}) \union {"snap"}]

OnMessage(s, m) ==
    CASE m.type = "cue_state"       -> OnCueState(s, m.packet)
      [] m.type = "shot_started"    -> OnShotStarted(s, m.packet)
      [] m.type = "turn_timeout"    -> OnTurnTimeout(s)
      [] m.type = "game_state_sync" -> OnGameStateSync(s, m.snap)

----------------------------------------------------------------------------
(* The page: effects, in the order SnookerMatch writes them.               *)

\* Mutant: whoever has the turn.
shouldRenderAnyCue(s, p) == s.remote # NoPacket

shouldRenderRemoteCue(s, p) == s.remote # NoPacket /\ s.turn # p

\* The preview of the other player's cue: angle and power become this page's own.
ShowsCue(s, p) ==
    IF "cue" \in s.effects /\ shouldRenderRemoteCue(s, p)
    THEN [s EXCEPT !.aim = s.remote.aim] ELSE s

\* Mutant: the shot's number stays as it was.
ShowsSnapshotOfNoShot(s, p, n) ==
    IF \/ "snap" \notin s.effects
       \/ s.snap.shot < s.shot
       \/ s.snap.status = "moving"
    THEN s
    ELSE [s EXCEPT !.aim = CASE s.snap.player = s.turn -> @
                             [] s.snap.player # s.turn /\ s.snap.player = p -> Aim(p, n)
                             [] OTHER -> NoAim,
                   !.turn = s.snap.player, !.status = "aiming"]

\* A turn that begins or ends leaves no aim: angle 0 and power 50, in n if it is p's own.
ShowsSnapshot(s, p, n) ==
    IF \/ "snap" \notin s.effects
       \/ s.snap.shot < s.shot
       \/ s.snap.status = "moving"
    THEN s
    ELSE [s EXCEPT !.aim = CASE s.snap.player = s.turn -> @
                             [] s.snap.player # s.turn /\ s.snap.player = p -> Aim(p, n)
                             [] OTHER -> NoAim,
                   !.shot = s.snap.shot, !.turn = s.snap.player, !.status = "aiming"]

WithShotBegun(s) ==
    IF "shot" \notin s.effects \/ s.started.shot <= s.lastShot
    THEN s
    ELSE [s EXCEPT !.lastShot = s.started.shot,
                   !.shot = IF @ < s.started.shot THEN s.started.shot ELSE @,
                   !.aim = s.started.aim, !.turn = s.started.aim.by, !.status = "moving"]

\* An effect that hands the turn over lets the preview run once more.
Effects(s, p, n) ==
    LET t == WithShotBegun(ShowsSnapshot(ShowsCue(s, p), p, n)) IN
    IF shouldRenderRemoteCue(t, p) /\ ~shouldRenderRemoteCue(s, p)
    THEN ShowsCue([t EXCEPT !.effects = {"cue"}], p) ELSE t

\* The page after each of the messages on the way to it.
Handled(s) ==
    LET after[k \in 0 .. Len(s.in)] ==
            IF k = 0 THEN s ELSE OnMessage(after[k - 1], s.in[k])
    IN  after

\* One Render shows the work of all the messages that came since the last.  (The two sets of one
\* element have TLC compute the page once.)
Render(p) ==
    /\ \E k \in DOMAIN page[p].in :
          \E s \in {Handled(page[p])[k]} :
          \E t \in {Effects(s, p, match.aims + 1)} :
          /\ page' = [page EXCEPT ![p] =
                 [t EXCEPT !.in = SubSeq(@, k + 1, Len(@)), !.effects = {}, !.snap = NoSnapshot,
                           !.started = NoPacket]]
          /\ match' = IF t.turn = p /\ s.turn # p THEN [match EXCEPT !.aims = @ + 1] ELSE match
    /\ UNCHANGED late

----------------------------------------------------------------------------
(* The page: the player, and the timer that publishes the cue.             *)

canControlCue(p) ==
    page[p].turn = p /\ page[p].status = "aiming"

NextAim(p) == Aim(p, match.aims + 1)

Sent(s, m) == [s EXCEPT !.out = Append(@, m)]
CanSend(p) == page[p].up /\ Len(page[p].out) < MaxOutbox

\* An arrow key, or the slider within 33 ms of a packet or on a broken link: only the timer
\* tells the lobby.
Turn(p) ==
    /\ canControlCue(p)
    /\ match.acts < MaxActs
    /\ match' = [match EXCEPT !.aims = @ + 1, !.acts = @ + 1]
    /\ page' = [page EXCEPT ![p].aim = NextAim(p)]
    /\ UNCHANGED late

sendCueState(s) == Sent(s, CueState(Packet(s.aim, s.shot)))

\* The power slider tells it at once.
handlePowerChange(p) ==
    /\ canControlCue(p)
    /\ match.acts < MaxActs
    /\ CanSend(p)
    /\ match' = [match EXCEPT !.aims = @ + 1, !.acts = @ + 1]
    /\ page' = [page EXCEPT ![p] = sendCueState([@ EXCEPT !.aim = NextAim(p)])]
    /\ UNCHANGED late

\* The timer's interval, whether or not the cue has moved.
publishCueState(p) ==
    /\ canControlCue(p)
    /\ CanSend(p)
    /\ page' = [page EXCEPT ![p] = sendCueState(@)]
    /\ UNCHANGED <<match, late>>

handleShoot(p) ==
    /\ canControlCue(p)
    /\ CanSend(p)
    /\ ~\E i \in DOMAIN page[p].out : page[p].out[i].type = "shot_started"
    /\ page' = [page EXCEPT ![p] = Sent(@, ShotStarted(@.aim, @.shot))]
    /\ UNCHANGED <<match, late>>

\* What goes on by itself at a page, and on its link and in the handler of its link.
Shows(p) == Reconnect(p) \/ Render(p)
Tells(p) == publishCueState(p) \/ RelayReads(p) \/ RelayPublishes(p) \/ ServeShot(p)

Next ==
    \/ StartClock \/ TurnTimeout \/ ShotEnds \/ LatePublishes
    \/ \E p \in Players :
          \/ Shows(p) \/ Tells(p) \/ Break(p)
          \/ Turn(p) \/ handlePowerChange(p) \/ handleShoot(p)

\* Timers fire, handlers go on, links are opened again and messages arrive; nobody has to
\* aim or shoot, and nothing has to break.
Fairness == \A p \in Players : WF_cueVars(Shows(p)) /\ WF_cueVars(Tells(p))

CueSpec == Init /\ [][Next]_cueVars

FairSpec == CueSpec /\ Fairness

----------------------------------------------------------------------------
(* Properties.                                                             *)

Packets == [aim : [by : Players \union {"nobody"}, n : Nat], shot : Nat]
TypeOK ==
    /\ match.player \in Players /\ match.status \in {"aiming", "moving"}
    /\ match.timed => match.status = "aiming"
    /\ late \subseteq Packets
    /\ \A p \in Players :
          /\ page[p].relay \in Packets /\ page[p].remote \in Packets
          /\ page[p].effects \subseteq {"cue", "snap", "shot"}
          /\ page[p].turn \in Players /\ page[p].status \in {"aiming", "moving"}
          /\ Len(page[p].in) <= MaxInbox /\ Len(page[p].out) <= MaxOutbox

\* Who aims, aims with an aim of their own: no packet of the turn before, however late, turns
\* their cue.
MyAimIsMine == \A p \in Players : page[p].turn = p => page[p].aim.by = p

\* While a player's clock runs, the other one comes to see the cue as that player holds it,
\* whatever was dropped on the way.
Aims(p) ==
    /\ match.timed /\ match.player = p
    /\ page[p].turn = p /\ page[p].status = "aiming"
AimIsFollowed ==
    \A p \in Players : Aims(p) ~> (~Aims(p) \/ page[Opposite(p)].aim = page[p].aim)
=============================================================================
