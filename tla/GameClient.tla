----------------------------- MODULE GameClient -----------------------------
(***************************************************************************)
(* One player's browser on the page of a match (GamePage.tsx and           *)
(* SnookerMatch.tsx), and the socket between it and the lobby.  React      *)
(* shows "view"; what handlers and effects set is in "next" and shows at   *)
(* the next Render, which may find the work of several messages at once    *)
(* and runs the effects in their order.  Refs change at once.  The lobby   *)
(* is what MatchServer is verified to be, seen through what it publishes.  *)
(***************************************************************************)
EXTENDS Integers, Sequences, SequencesExt

CONSTANTS
    Me, Other,      \* the player of this browser, and the other one
    Creator,        \* which of them created the room: the first turn is theirs
    Mishaps,        \* what may go wrong beside a broken link (see below)
    MaxShots,       \* bounds: shots and turns of a match, matches,
    MaxTurns,
    MaxMatches,
    MaxBreaks,      \* broken links, refused connections and reloads
    MaxInbox        \* messages on the way to the browser

(***************************************************************************)
(* "away"      a match may open while the browser is cut off or loads the  *)
(*             page, which then goes on with the match before;             *)
(* "stale"     a shot that request_game_state read as in motion is         *)
(*             published after its end, or a snapshot in the next match;   *)
(* "gap"       the room may change between the room_state that the lobby   *)
(*             reads for a new socket and the subscription of that socket; *)
(* "late"      shots are published, played and decided between two renders *)
(*             of the browser, and frames run between an effect and the    *)
(*             render of what it set;                                      *)
(* "midShot"   the page is loaded again while balls are in motion;         *)
(* "token"     a new access token loads the room anew while a match is on, *)
(*             and not just after it: the page mounts its table again and  *)
(*             plays once more the last shot that it was told of;          *)
(* "oneShot"   a rematch may follow a match of which one shot was animated;*)
(* "slow"      what is on its way takes as long as a turn: the player, back*)
(*             after a break, shoots on the table of an earlier turn of    *)
(*             theirs, or on the rack before a snapshot has come, or a     *)
(*             shot sent in one turn is served in the next.  The lobby     *)
(*             does not look at the number that a shot carries.            *)
(***************************************************************************)
AllMishaps == {"away", "stale", "gap", "late", "midShot", "token", "oneShot", "slow"}

ASSUME ClientAssumption ==
    /\ Me # Other
    /\ Creator \in {Me, Other}
    /\ Mishaps \subseteq AllMishaps
    /\ {MaxShots, MaxTurns, MaxMatches, MaxBreaks, MaxInbox} \subseteq Nat

VARIABLES
    server,     \* the room, its match, the breaks so far, and whether the page was told
                \* nothing of the end of the match
    link,       \* the socket: both ends of it and what is on the way
    next,       \* React state as set
    view,       \* React state as rendered
    refs,       \* refs of the two components, and the result being hashed
    cue         \* MinimalCue: striking or not, and the last shot it animated

vars == <<server, link, next, view, refs, cue>>

Players == {Me, Other}
Opposite(p) == IF p = Me THEN Other ELSE Me

(***************************************************************************)
(* Snapshots.  balls is the sequence of the shots that made the table what *)
(* it is: the client's own table gets a shot appended when it has come to  *)
(* rest.  at orders the snapshots of one shot and turn (updated_at_ms).    *)
(***************************************************************************)
Snap(match, shot, turn, at, player, status, balls) ==
    [match |-> match, shot |-> shot, turn |-> turn, at |-> at, player |-> player,
     status |-> status, balls |-> balls]

FirstSnap(match) == Snap(match, 0, 1, 0, Creator, "aiming", <<>>)
NoSnap == Snap(0, -1, 0, 0, Creator, "none", <<>>)

Shot(match, seq, shooter) == [match |-> match, seq |-> seq, shooter |-> shooter]
NoShot == Shot(0, 0, Creator)

Version(s) == [shot |-> s.shot, turn |-> s.turn, at |-> s.at, status |-> s.status]
NoVersion == Version(NoSnap)

snapshotStatusRank(status) ==
    CASE status = "aiming"   -> 1
      [] status = "striking" -> 2
      [] status = "moving"   -> 3
      [] status = "finished" -> 4
      [] OTHER               -> 0

isNewerSnapshot(s, v) ==
    \/ s.shot > v.shot
    \/ /\ s.shot = v.shot
       /\ \/ s.turn > v.turn
          \/ /\ s.turn = v.turn
             /\ \/ s.at > v.at
                \/ /\ s.at = v.at
                   /\ snapshotStatusRank(s.status) > snapshotStatusRank(v.status)

\* SnookerMatch has the same order again.
isNewerSnapshotVersion(s, v) == isNewerSnapshot(s, v)

(***************************************************************************)
(* Messages to the browser carry a snapshot, a shot or the room.           *)
(***************************************************************************)
Room(status, gone) == [status |-> status, gone |-> gone]
NoRoom == Room("unknown", FALSE)

Message(type, snap, shot, room) ==
    [type |-> type, snap |-> snap, shot |-> shot, room |-> room]

GameStateSync(s)    == Message("game_state_sync", s, NoShot, NoRoom)
ShotStarted(shot)   == Message("shot_started", NoSnap, shot, NoRoom)
RoomEvent(type, r)  == Message(type, NoSnap, NoShot, r)

\* Messages to the lobby carry a shot and the table it was aimed at or ended with.
Asks(type) == [type |-> type, seq |-> 0, balls |-> <<>>]

ServerRoom == Room(server.room, server.gone)
ActiveShot == Shot(server.snap.match, server.snap.shot, server.snap.player)

(***************************************************************************)
(* React state.                                                            *)
(***************************************************************************)
\* What resetMatch sets, and what a mounted SnookerMatch starts with.
Rack(n) ==
    [n EXCEPT !.aiming = TRUE, !.animating = FALSE, !.shotId = 0, !.turn = Creator,
              !.status = "aiming"]

EmptyPage ==
    [page |-> "loading", room |-> NoRoom, snap |-> NoSnap, shot |-> NoShot, summary |-> FALSE,
     asked |-> FALSE, fresh |-> {},
     aiming |-> TRUE, animating |-> FALSE, shotId |-> 0, turn |-> Creator, status |-> "aiming"]

EmptyRefs ==
    [accepted |-> NoVersion, shown |-> NoVersion, shotSeq |-> 0, lastShot |-> 0,
     pending |-> NoShot, balls |-> <<>>, report |-> NoShot]

\* No socket.  st is the browser's end, sub the lobby's; mine is the last shot that the
\* lobby took from it.
NoLink ==
    [st |-> "none", sub |-> "none", greeting |-> NoRoom, in |-> <<>>, out |-> <<>>, mine |-> 0]

Init ==
    /\ server = [room |-> "playing", gone |-> FALSE, asked |-> FALSE, snap |-> FirstSnap(1),
                 read |-> {}, breaks |-> 0, unheard |-> FALSE]
    /\ link = NoLink
    /\ next = EmptyPage
    /\ view = EmptyPage
    /\ refs = EmptyRefs
    /\ cue = [striking |-> FALSE, last |-> 0]

browser == <<next, view, refs, cue>>

-----------------------------------------------------------------------------
(***************************************************************************)
(* The lobby.  What it publishes reaches the browser only through a socket *)
(* that is subscribed.                                                     *)
(***************************************************************************)
Published(l, msgs) == IF l.sub = "on" THEN [l EXCEPT !.in = @ \o msgs] ELSE l

Room4(n) == Len(link.in) + n <= MaxInbox

\* The browser renders between two tasks, unless it is late; and while it waits for a socket.
Rendered == view = next
Settled == Rendered \/ "late" \in Mishaps

\* The lobby acts on its own, but does not change the room between the reading of
\* room_state and the subscription, unless the gap is among the mishaps.
Acts(msgs) ==
    /\ link.sub = "greeted" /\ ServerRoom' # ServerRoom => "gap" \in Mishaps
    /\ Room4(Len(msgs))
    /\ link' = Published(link, msgs)
    /\ UNCHANGED browser

\* No shot is about to be published that ends now.
NoneLate == "stale" \in Mishaps \/ \A r \in server.read : r.snap.status # "moving"

OpensHeard == "away" \in Mishaps \/ (link.sub = "on" /\ next.page # "loading")

\* What the lobby publishes now reaches the page neither through its socket nor by loading.
Unheard == link.sub # "on" /\ next.page # "loading"

\* A shot does not wait at the lobby for the player's next turn.
NoneWaits ==
    \/ "slow" \in Mishaps
    \/ \A i \in 1 .. Len(link.out) : link.out[i].type # "shot_started"

StartClock ==
    /\ server.room = "playing" /\ server.snap.status = "aiming" /\ server.snap.at = 0
    /\ server.snap.player = Me => NoneWaits
    /\ server' = [server EXCEPT !.snap.at = 1]
    /\ Acts(<<GameStateSync(server'.snap)>>)

TimedSnap == server.room = "playing" /\ server.snap.status = "aiming" /\ server.snap.at = 1

Passed(s) ==
    [s EXCEPT !.turn = @ + 1, !.at = 0, !.player = Opposite(@), !.status = "aiming"]

TurnTimeout ==
    /\ TimedSnap /\ server.snap.turn < MaxTurns
    /\ server' = [server EXCEPT !.snap = Passed(@)]
    /\ Acts(<<Message("turn_timeout", NoSnap, NoShot, NoRoom), GameStateSync(server'.snap)>>)

Started(s) == [s EXCEPT !.shot = @ + 1, !.at = 0, !.status = "moving"]

OtherShoots ==
    /\ TimedSnap /\ server.snap.player = Other /\ server.snap.shot < MaxShots
    /\ server' = [server EXCEPT !.snap = Started(@)]
    /\ Acts(<<ShotStarted(ActiveShot')>>)

ShotTimeout ==
    /\ NoneLate
    /\ server.room = "playing" /\ server.snap.status = "moving" /\ server.snap.turn < MaxTurns
    /\ server' = [server EXCEPT !.snap = Passed(@)]
    /\ Acts(<<GameStateSync(server'.snap)>>)

\* The three ends of a shot: the shooter goes on, the turn passes, the match is over.
Ended(s, balls) ==
    {[s EXCEPT !.status = "aiming", !.turn = @ + 1, !.at = 0, !.balls = balls],
     [Passed(s) EXCEPT !.balls = balls]}
Won(s, balls) == [s EXCEPT !.status = "finished", !.at = 1, !.balls = balls]

MatchFinished == RoomEvent("match_finished", Room("finished", server.gone))

OtherResult ==
    LET balls == Append(server.snap.balls, server.snap.shot)
    IN  /\ NoneLate
        /\ server.room = "playing" /\ server.snap.status = "moving" /\ server.snap.player = Other
        /\ \/ /\ \E s \in Ended(server.snap, balls) : server' = [server EXCEPT !.snap = s]
              /\ server'.snap.turn <= MaxTurns
              /\ Acts(<<GameStateSync(server'.snap)>>)
           \/ /\ server' = [server EXCEPT !.snap = Won(@, balls), !.room = "finished",
                                           !.unheard = Unheard]
              /\ Acts(<<GameStateSync(server'.snap), MatchFinished>>)

\* The other player asks for the rematch, too.
Rematch ==
    /\ server.room = "finished" /\ server.asked /\ server.snap.match < MaxMatches
    /\ OpensHeard
    /\ server.read = {} \/ "stale" \in Mishaps
    /\ "oneShot" \in Mishaps \/ (cue.last # 1 /\ Rendered /\ ~view.animating)
    /\ server' = [server EXCEPT !.snap = FirstSnap(@.match + 1), !.room = "playing",
                               !.asked = FALSE, !.unheard = FALSE]
    /\ Acts(<<RoomEvent("match_start", ServerRoom'), GameStateSync(server'.snap)>>)

\* The other player's connection is lost, or is back.
OtherGone ==
    /\ server.room \in {"playing", "finished"} /\ server.breaks < MaxBreaks
    /\ ~server.gone
    /\ server' = [server EXCEPT !.gone = TRUE, !.breaks = @ + 1]
    /\ Acts(<<RoomEvent("player_disconnected", NoRoom)>>)

OtherBack ==
    /\ server.gone
    /\ server' = [server EXCEPT !.gone = FALSE]
    /\ Acts(<<RoomEvent("player_reconnected", ServerRoom')>>)

\* The other player leaves, or closes the room.
RoomEnds ==
    /\ server.room = "finished"
    /\ \/ /\ server' = [server EXCEPT !.room = "waiting", !.gone = FALSE]
          /\ Acts(<<RoomEvent("player_left", ServerRoom')>>)
       \/ /\ server' = [server EXCEPT !.room = "expired"]
          /\ Acts(<<RoomEvent("room_closed", NoRoom)>>)

(***************************************************************************)
(* The lobby handles the browser's messages in their order.                *)
(***************************************************************************)
Asking(p) == \A r \in server.read : r.by # p

Serves(type, msgs) ==
    /\ Asking(Me)
    /\ link.sub = "on" /\ link.out # <<>> /\ Head(link.out).type = type
    /\ Room4(Len(msgs))
    /\ link' = [Published(link, msgs) EXCEPT
                    !.out = Tail(@),
                    !.mine = IF type = "shot_started" /\ msgs # <<>> THEN server'.snap.shot ELSE @]
    /\ UNCHANGED browser

\* request_game_state reads the match and publishes it afterwards: what is decided in
\* between is published first.  The other player's page asks as well when it is back.
Read(asker) == [by |-> asker, snap |-> server.snap]

RequestGameState ==
    /\ Serves("request_game_state", <<>>)
    /\ server' = IF server.room = "playing"
                 THEN [server EXCEPT !.read = @ \cup {Read(Me)}] ELSE server

OtherRequests ==
    /\ server.room = "playing" /\ server.breaks < MaxBreaks
    /\ Asking(Other)
    /\ server' = [server EXCEPT !.read = @ \cup {Read(Other)}, !.breaks = @ + 1]
    /\ Acts(<<>>)

PublishRead ==
    \E r \in server.read :
        /\ server' = [server EXCEPT !.read = @ \ {r}]
        /\ Acts(IF r.snap.status = "moving"
                THEN <<GameStateSync(r.snap),
                       ShotStarted(Shot(r.snap.match, r.snap.shot, r.snap.player))>>
                ELSE <<GameStateSync(r.snap)>>)

ServeShot ==
    \/ /\ TimedSnap /\ server.snap.player = Me /\ server.snap.shot < MaxShots
       /\ server' = [server EXCEPT !.snap = Started(@)]
       /\ Serves("shot_started", <<ShotStarted(ActiveShot')>>)
    \/ /\ ~(TimedSnap /\ server.snap.player = Me /\ server.snap.shot < MaxShots)
       /\ Serves("shot_started", <<>>)
       /\ UNCHANGED server

\* A table from which a sunk ball is missing is refused: any other one may be taken.
AcceptsResult(r) ==
    /\ server.room = "playing" /\ server.snap.status = "moving" /\ server.snap.player = Me
    /\ r.seq \in {server.snap.shot, server.snap.shot - 1}

ServeResult ==
    /\ NoneLate
    /\ link.out # <<>>
    /\ LET r == Head(link.out)
       IN  \/ /\ AcceptsResult(r)
              /\ \/ /\ \E s \in Ended(server.snap, r.balls) : server' = [server EXCEPT !.snap = s]
                    /\ server'.snap.turn <= MaxTurns
                    /\ Serves("shot_result_submitted", <<GameStateSync(server'.snap)>>)
                 \/ /\ server' = [server EXCEPT !.snap = Won(@, r.balls), !.room = "finished"]
                    /\ Serves("shot_result_submitted",
                              <<GameStateSync(server'.snap), MatchFinished>>)
           \/ /\ ~AcceptsResult(r) \/ ~IsPrefix(server.snap.balls, r.balls)
              /\ Serves("shot_result_submitted", <<>>)
              /\ UNCHANGED server

ServeRematch ==
    /\ Serves("rematch_request",
              IF server.room = "finished"
              THEN <<RoomEvent("rematch_requested", NoRoom)>> ELSE <<>>)
    /\ server' = [server EXCEPT !.asked = @ \/ server.room = "finished"]

-----------------------------------------------------------------------------
(***************************************************************************)
(* The socket.  The page has one as soon as it knows its room.             *)
(***************************************************************************)
Connect ==
    /\ link.st \in {"none", "retry"} /\ Rendered /\ view.room # NoRoom
    /\ view.page \in {"match", "loading"}
    /\ link' = [NoLink EXCEPT !.st = "opening"]
    /\ UNCHANGED <<server, browser>>

\* ws.onopen.  The status that the page knows decides whether it asks for the match.
Opened ==
    /\ link.st = "opening" /\ Rendered
    /\ link' = [link EXCEPT !.st = "open",
                            !.out = IF view.room.status = "playing"
                                    THEN <<Asks("request_game_state")>>
                                    ELSE <<>>]
    /\ UNCHANGED <<server, browser>>

\* HandleWS reads the room, then subscribes, then sends what it read.
Greet ==
    /\ link.st = "open" /\ link.sub = "none"
    /\ link' = [link EXCEPT !.sub = "greeted", !.greeting = ServerRoom]
    /\ UNCHANGED <<server, browser>>

Subscribe ==
    /\ link.sub = "greeted"
    /\ link' = [link EXCEPT !.sub = "on", !.greeting = NoRoom,
                            !.in = <<RoomEvent("room_state", link.greeting)>>]
    /\ UNCHANGED <<server, browser>>

EndLost == \E i \in 1 .. Len(link.in) : link.in[i].snap.status = "finished"
OpeningLost == \E i \in 1 .. Len(link.in) : link.in[i].type = "match_start"

\* What is on its way is lost.
Break ==
    /\ server.breaks < MaxBreaks
    /\ link.st = "open"
    /\ "away" \in Mishaps \/ ~OpeningLost
    /\ server' = [server EXCEPT !.breaks = @ + 1, !.unheard = @ \/ EndLost]
    /\ link' = [NoLink EXCEPT !.st = "retry"]
    /\ UNCHANGED browser

\* A connection that never opened is not tried again.
Refused ==
    /\ server.breaks < MaxBreaks
    /\ link.st = "opening"
    /\ server' = [server EXCEPT !.breaks = @ + 1]
    /\ link' = [NoLink EXCEPT !.st = "dead"]
    /\ next' = [next EXCEPT !.page = "error"]
    /\ UNCHANGED <<view, refs, cue>>

sendWS(message) ==
    link' = IF link.st = "open" THEN [link EXCEPT !.out = Append(@, message)] ELSE link

(***************************************************************************)
(* GamePage loads the room.                                                *)
(***************************************************************************)
loadRoom ==
    /\ next.page = "loading"
    /\ next' = [next EXCEPT !.room = ServerRoom, !.summary = @ \/ server.room = "finished",
                            !.page = IF server.room \in {"waiting", "expired"}
                                     THEN "left" ELSE "match"]
    /\ UNCHANGED <<server, link, view, refs, cue>>

\* The player loads the page again.
Reload ==
    /\ server.breaks < MaxBreaks
    /\ view.page \in {"match", "error"}
    /\ server.snap.status = "moving" => "midShot" \in Mishaps
    /\ server' = [server EXCEPT !.breaks = @ + 1, !.unheard = FALSE]
    /\ link' = NoLink
    /\ next' = EmptyPage
    /\ view' = EmptyPage
    /\ refs' = EmptyRefs
    /\ cue' = [striking |-> FALSE, last |-> 0]

\* AuthProvider has a new access token: both effects of GamePage run again.
TokenRefreshed ==
    /\ server.breaks < MaxBreaks
    /\ server.room = "finished" \/ "token" \in Mishaps
    /\ "away" \in Mishaps \/ ~OpeningLost
    /\ view.page = "match" /\ refs.report = NoShot
    /\ server' = [server EXCEPT !.breaks = @ + 1, !.unheard = FALSE]
    /\ link' = [NoLink EXCEPT !.st = "opening"]
    /\ next' = [next EXCEPT !.page = "loading"]
    /\ UNCHANGED <<view, refs, cue>>

(***************************************************************************)
(* ws.onmessage of GamePage, a case per type of message.                   *)
(***************************************************************************)
Gone(n, r) == IF r.status \in {"waiting", "expired"} THEN [n EXCEPT !.room = r, !.page = "left"]
                                                    ELSE [n EXCEPT !.room = r]

acceptSnapshot(m) ==
    IF isNewerSnapshot(m.snap, refs.accepted)
    THEN /\ refs' = [refs EXCEPT !.accepted = Version(m.snap)]
         /\ next' = [next EXCEPT !.snap = m.snap, !.fresh = @ \cup {"snap"},
                                 !.summary = @ \/ m.snap.status = "finished"]
    ELSE UNCHANGED <<refs, next>>

\* Mutant: the version of the match before is kept.
StartsMatchKeepingVersion(m) ==
    /\ refs' = refs
    /\ next' = [next EXCEPT !.room = m.room, !.summary = FALSE, !.asked = FALSE, !.snap = NoSnap,
                            !.shot = NoShot, !.fresh = @ \cup {"reset"}]

StartsMatch(m) ==
    /\ refs' = [refs EXCEPT !.accepted = NoVersion]
    /\ next' = [next EXCEPT !.room = m.room, !.summary = FALSE, !.asked = FALSE, !.snap = NoSnap,
                            !.shot = NoShot, !.fresh = @ \cup {"reset"}]

MatchFinishes(m) ==
    /\ refs' = refs
    /\ next' = [next EXCEPT !.room = m.room, !.summary = TRUE]

RematchRequested ==
    /\ refs' = refs
    /\ next' = [next EXCEPT !.asked = TRUE]

OnMessage(m) ==
    CASE m.type \in {"room_state", "player_reconnected", "player_left"} ->
            next' = Gone(next, m.room) /\ refs' = refs
      [] m.type = "player_disconnected" ->
            next' = [next EXCEPT !.room.gone = TRUE] /\ refs' = refs
      [] m.type = "shot_started" ->
            next' = [next EXCEPT !.shot = m.shot, !.fresh = @ \cup {"shot"}] /\ refs' = refs
      [] m.type = "turn_timeout" ->
            next' = [next EXCEPT !.shot = NoShot] /\ refs' = refs
      [] m.type = "game_state_sync" -> acceptSnapshot(m)
      [] m.type = "match_finished" -> MatchFinishes(m)
      [] m.type = "match_start" -> StartsMatch(m)
      [] m.type = "rematch_requested" -> RematchRequested
      [] m.type = "room_closed" -> next' = [next EXCEPT !.page = "left"] /\ refs' = refs

Deliver ==
    /\ link.in # <<>> /\ next.page \in {"match", "loading"}
    /\ Settled
    /\ OnMessage(Head(link.in))
    /\ link' = [link EXCEPT !.in = Tail(@)]
    /\ UNCHANGED <<server, view, cue>>

-----------------------------------------------------------------------------
(***************************************************************************)
(* SnookerMatch: its effects, on a pair of React state and refs.           *)
(***************************************************************************)
resetMatch(c) ==
    [n |-> Rack(c.n),
     r |-> [c.r EXCEPT !.balls = <<>>, !.shotSeq = 0, !.pending = NoShot, !.lastShot = 0,
                       !.shown = NoVersion]]

\* Mutant: the balls of a table in motion are taken, too.
takesTableInMotion(c, s) ==
    IF ~isNewerSnapshotVersion(s, c.r.shown) \/ s.shot < c.r.shotSeq THEN c
    ELSE [n |-> [c.n EXCEPT !.turn = s.player, !.status = s.status, !.aiming = TRUE,
                            !.animating = FALSE],
          r |-> [c.r EXCEPT !.shown = Version(s), !.balls = s.balls, !.shotSeq = s.shot,
                            !.pending = NoShot]]

\* Mutant: a table that was played to its end here is kept when the snapshot of that shot comes.
keepsPlayedTable(c, s) ==
    CASE ~isNewerSnapshotVersion(s, c.r.shown) \/ s.shot < c.r.shotSeq -> c
      [] isNewerSnapshotVersion(s, c.r.shown) /\ s.shot >= c.r.shotSeq /\ s.status = "moving" ->
            [c EXCEPT !.r.shown = Version(s)]
      [] OTHER ->
            [n |-> [c.n EXCEPT !.turn = s.player, !.status = s.status, !.aiming = TRUE,
                               !.animating = FALSE],
             r |-> [c.r EXCEPT !.shown = Version(s), !.shotSeq = s.shot, !.pending = NoShot,
                               !.balls = IF s.shot = c.r.lastShot THEN @ ELSE s.balls]]

showsSnapshot(c, s) ==
    CASE ~isNewerSnapshotVersion(s, c.r.shown) \/ s.shot < c.r.shotSeq -> c
      [] isNewerSnapshotVersion(s, c.r.shown) /\ s.shot >= c.r.shotSeq /\ s.status = "moving" ->
            [c EXCEPT !.r.shown = Version(s)]
      [] OTHER ->
            [n |-> [c.n EXCEPT !.turn = s.player, !.status = s.status, !.aiming = TRUE,
                               !.animating = FALSE],
             r |-> [c.r EXCEPT !.shown = Version(s), !.balls = s.balls, !.shotSeq = s.shot,
                               !.pending = NoShot]]

\* Mutant: a shot that was begun before is begun again.
beginsShotAgain(c, shot) ==
    [n |-> [c.n EXCEPT !.turn = shot.shooter, !.status = "striking", !.animating = TRUE,
                       !.shotId = @ + 1],
     r |-> [c.r EXCEPT !.lastShot = shot.seq, !.pending = shot,
                       !.shotSeq = IF shot.seq > @ THEN shot.seq ELSE @]]

beginShot(c, shot) ==
    IF shot.seq <= c.r.lastShot THEN c
    ELSE [n |-> [c.n EXCEPT !.turn = shot.shooter, !.status = "striking", !.animating = TRUE,
                            !.shotId = @ + 1],
          r |-> [c.r EXCEPT !.lastShot = shot.seq, !.pending = shot,
                            !.shotSeq = IF shot.seq > @ THEN shot.seq ELSE @]]

\* MinimalCue's effect, of the state just rendered.
CueAfter(c, v) ==
    CASE ~v.animating -> [c EXCEPT !.striking = FALSE]
      [] v.animating /\ v.shotId > 0 /\ v.shotId # c.last -> [striking |-> TRUE, last |-> v.shotId]
      [] OTHER -> c

\* React commits what was set and runs the effects whose dependencies changed: those
\* of a child before those of its parent, those of a component in their order.
Render ==
    LET mounted == view.page # "match"
        shown == [next EXCEPT !.fresh = {}]
        c0 == [n |-> shown, r |-> refs]
        c1 == IF mounted \/ "reset" \in next.fresh THEN resetMatch(c0) ELSE c0
        c2 == IF (mounted \/ "snap" \in next.fresh) /\ next.snap # NoSnap
              THEN showsSnapshot(c1, next.snap) ELSE c1
        c3 == IF (mounted \/ "shot" \in next.fresh) /\ next.shot # NoShot
              THEN beginShot(c2, next.shot) ELSE c2
    IN  /\ view # next
        /\ view' = shown
        /\ IF next.page = "match"
           THEN /\ next' = c3.n
                /\ refs' = c3.r
                /\ cue' = IF mounted THEN [striking |-> FALSE, last |-> 0] ELSE CueAfter(cue, next)
           ELSE next' = shown /\ UNCHANGED <<refs, cue>>
        /\ UNCHANGED <<server, link>>

(***************************************************************************)
(* Frames: the cue reaches the ball; the balls come to rest.               *)
(***************************************************************************)
Frame == view.page = "match" /\ Settled

\* MinimalCue's frames bring a striking cue to the ball; its other phases only show.
CueReachesBall == Frame /\ cue.striking

\* SimulationLoop steps the balls until all are at rest.
BallsRest == Frame /\ ~view.aiming

handleCueContact ==
    /\ CueReachesBall
    /\ cue' = [cue EXCEPT !.striking = FALSE]
    /\ next' = [next EXCEPT !.animating = FALSE, !.aiming = FALSE, !.status = "moving"]
    /\ UNCHANGED <<server, link, view, refs>>

\* Mutant: who was aiming aims again as soon as the balls rest.
restsAiming ==
    /\ BallsRest /\ refs.report = NoShot
    /\ next' = [next EXCEPT !.aiming = TRUE, !.status = "aiming"]
    /\ refs' = [refs EXCEPT !.balls = Append(@, refs.pending.seq),
                            !.report = IF refs.pending # NoShot /\ refs.pending.shooter = Me
                                        THEN refs.pending ELSE NoShot]
    /\ UNCHANGED <<server, link, view, cue>>

handleSimulationStopped ==
    /\ BallsRest /\ refs.report = NoShot
    /\ next' = [next EXCEPT !.aiming = TRUE, !.status = "moving"]
    /\ refs' = [refs EXCEPT !.balls = Append(@, refs.pending.seq),
                            !.report = IF refs.pending # NoShot /\ refs.pending.shooter = Me
                                        THEN refs.pending ELSE NoShot]
    /\ UNCHANGED <<server, link, view, cue>>

\* The audit hash is there; the balls are read only now.
onShotResult ==
    /\ refs.report # NoShot
    /\ sendWS([type |-> "shot_result_submitted", seq |-> refs.report.seq, balls |-> refs.balls])
    /\ refs' = [refs EXCEPT !.report = NoShot]
    /\ UNCHANGED <<server, next, view, cue>>

(***************************************************************************)
(* The player, who is slower than the browser renders and hashes.          *)
(***************************************************************************)
Idle == Rendered /\ view.page = "match" /\ refs.report = NoShot

disabled == view.room.gone \/ view.room.status = "finished"

canShoot ==
    /\ view.turn = Me /\ view.status = "aiming"
    /\ view.aiming /\ ~view.animating /\ ~disabled

\* The socket has delivered what there is, the answer to the page's question included.
Informed ==
    /\ link.sub = "on" /\ link.in = <<>> /\ Asking(Me)
    /\ \A i \in 1 .. Len(link.out) : link.out[i].type # "request_game_state"

handleShoot ==
    /\ Idle /\ canShoot
    /\ Informed \/ "slow" \in Mishaps
    /\ link.st = "open" /\ Len(link.out) < 2
    /\ sendWS([type |-> "shot_started", seq |-> refs.shotSeq, balls |-> refs.balls])
    /\ UNCHANGED <<server, browser>>

\* The overlay's button.
canRequestRematch == view.summary /\ ~view.asked

handleRequestRematch ==
    /\ Idle /\ canRequestRematch
    /\ sendWS(Asks("rematch_request"))
    /\ next' = [next EXCEPT !.asked = TRUE]
    /\ UNCHANGED <<server, view, refs, cue>>

-----------------------------------------------------------------------------
Lobby == StartClock \/ TurnTimeout \/ OtherShoots \/ ShotTimeout \/ OtherResult \/ Rematch
         \/ OtherGone \/ OtherBack \/ OtherRequests \/ PublishRead \/ RoomEnds
Serve == RequestGameState \/ ServeShot \/ ServeResult \/ ServeRematch
Socket == Connect \/ Opened \/ Greet \/ Subscribe \/ Break \/ Refused
Page == loadRoom \/ Reload \/ TokenRefreshed \/ Deliver \/ Render
Table == handleCueContact \/ handleSimulationStopped \/ onShotResult
Player == handleShoot \/ handleRequestRematch

Next == Lobby \/ Serve \/ Socket \/ Page \/ Table \/ Player

Spec == Init /\ [][Next]_vars

\* Browser, network and lobby do not stop; players, clocks and faults may.
Fairness ==
    /\ WF_vars(Serve) /\ WF_vars(PublishRead)
    /\ WF_vars(Connect) /\ WF_vars(Opened) /\ WF_vars(Greet) /\ WF_vars(Subscribe)
    /\ WF_vars(loadRoom) /\ WF_vars(Deliver) /\ WF_vars(Render)
    /\ WF_vars(handleCueContact) /\ WF_vars(handleSimulationStopped) /\ WF_vars(onShotResult)

FairSpec == Spec /\ Fairness

-----------------------------------------------------------------------------
(***************************************************************************)
(* Properties.                                                             *)
(***************************************************************************)

\* The lobby's table changes only by the shot that it started, played on the table as it was:
\* no result comes from another table, twice, or for another shot.
TableIsPlayed ==
    [][server'.snap.balls # server.snap.balls =>
        \/ server'.snap.match # server.snap.match
        \/ server'.snap.balls = Append(server.snap.balls, server.snap.shot)]_vars

\* A shot of this player is started on the table that they saw when they shot, or not at all:
\* turns, timeouts, results and breaks of the link may come between the two.
ShotsAreSeen ==
    [][ServeShot /\ server'.snap.shot # server.snap.shot =>
            Head(link.out).balls = server.snap.balls]_vars

\* Whoever is asked to aim looks at a table that the lobby had in this match.
AimsAtTable ==
    view = next /\ view.page = "match" /\ view.status = "aiming"
        /\ view.snap.match = server.snap.match
    => IsPrefix(refs.balls, server.snap.balls)

\* What the player sees is what the lobby has: the room, who is to aim, and the table; the
\* result of a match only when it has one, and then unless its end went unheard.
Shown ==
    /\ view = next
    /\ view.room = ServerRoom
    /\ view.summary => server.snap.status = "finished"
    /\ server.snap.status = "finished" /\ ~server.unheard => view.summary
    /\ server.snap.status = "aiming" =>
        /\ view.status = "aiming" /\ view.turn = server.snap.player
        /\ refs.balls = server.snap.balls

\* Once the lobby stays as it is, with no ball in motion, an open page comes to show it: with
\* the link broken at any time but on a match_start, turns, shots and results, the leaving of
\* the other player and the end of the room lost with it or published meanwhile.  The result
\* of a match whose end was among the lost is never shown: room_state does not carry it, and
\* the lobby answers request_game_state only while the room is playing.
CatchesUp == <>[](view.page = "match" /\ server.snap.status # "moving" => Shown)

\* A shot of this player comes to an end without the lobby's timeout, unless the link breaks
\* or the page goes.
OwnShot(k) ==
    /\ server.snap.status = "moving" /\ server.snap.player = Me /\ server.snap.shot = k
    /\ link.mine = k /\ view.page = "match"
OwnShotIsReported == \A k \in 1 .. MaxShots : OwnShot(k) ~> ~OwnShot(k)
=============================================================================
