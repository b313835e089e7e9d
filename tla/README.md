# Snooker: specification of the lobby, its matches and its pages

TLA+ modules that model this repository's services and the browser pages that
use them, the TLC configurations that check them on small instances, and theorems
that TLAPS checks for every value of their constants. Paths are relative to the
repository's root; `LOBBY` stands for `lobby/internal/lobby`, `PAGES` for
`frontend/src/pages`.

    tlc -workers 2 -config MatchServer_live.cfg MCMatchServer.tla
    tlc -workers 2 -config RoomRegistry_seats.cfg MCRoomRegistry.tla
    tlapm MatchServerLockProofs.tla && tlapm SessionProofs.tla

## 1. The system

Three Go services, two TypeScript programs, a PostgreSQL database per service
and one NATS server.

| Part | State | Operations | Talks to |
|---|---|---|---|
| match rules (`LOBBY/match_state.go`) | none: pure functions on a `matchSnapshot` | first snapshot, start of the turn's clock, shot, result of a shot, timeouts, winner | called by the referee |
| referee (`LOBBY/ws_handler.go`) | `snapshots` (cache), `matchStateMu`, three maps of `time.AfterFunc` timers; the row of `room_match_states` | `match_start`, `turn_ready`, `shot_started`, `shot_result_submitted`, `cue_state`, `request_game_state`, `rematch_request`, the three timers, clear | repository, rematch store, NATS (`game_state_sync`) |
| rooms (`LOBBY/repository.go`, `handler.go`) | table `rooms`, with the marks of disconnection | create, get, join, start, finish, rematch, leave, close, expire, the sweep of `reconcileRoomLifecycle` | PostgreSQL, NATS |
| room connections (`LOBBY/ws_handler.go`, `presence.go`) | connection ids in the room's row, `presenceTracker` | connect, handoff to a second tab, disconnect, delayed close and release | rooms, referee (clear), the room's page |
| invitations (`LOBBY/presence.go`, `handler.go`) | `invitationStore` | invite, decline, accept by join, clear | NATS, notification sockets |
| chat (`LOBBY/ws_handler.go`) | a stream per room | say, replay to a new socket | room and match pages |
| public rooms (`LOBBY/handler.go`, `ws_handler.go`) | none: a query | broadcast after a change, snapshot to a new socket, HTTP list | home page |
| rematch requests (`LOBBY/presence.go`) | `rematchStore` | request, clear | referee, rooms |
| refresh tokens (`auth/internal/auth/token_service.go`) | table of tokens: family, revoked, replaced by | issue, rotate, reuse within the grace period, revoke the family | PostgreSQL, the browser's cookie |
| accounts, onboarding, XP (`auth`, `profile/internal/profile`) | user's status, profile row, avatar in S3 | sign up, log in, complete profile, activate user, award XP | S3, PostgreSQL, each other |
| rate limiter (`auth/internal/middleware/rate_limit.go`) | a counter and a window per address | allow | - |
| session (`frontend/src/auth/AuthProvider.tsx`) | per tab: phase, status, timers | boot, refresh, retry, log in, log out, routes | auth, profile |
| room page (`PAGES/LobbyRoomPage.tsx`) | view of the room, ready flags, chat, invitations sent | load, hear events, ready, start, invite, leave | lobby's HTTP and WebSocket |
| match page (`PAGES/GamePage.tsx`, `frontend/src/game/SnookerMatch.tsx`) | last snapshot and its version, the local table, the cue, refs and React state | take or refuse a snapshot, reset at `match_start`, aim, shoot, report, reconnect, rematch | lobby's WebSocket |
| table physics (`frontend/src/game/physics`) | balls in motion | a tick; rest | match page |
| home page (`PAGES/HomePage.tsx`) | list of rooms | show, fetch, join, watch | lobby |

What makes it hard:

- *Interleaving.* Each WebSocket, each fired timer and each HTTP request is a
  goroutine. `matchStateMu` protects the referee's locked sections, but a message
  is handled in two of them (reconcile, then act) on a copy of the room's row read
  before both; the leave of a player clears cache and row without the mutex, and
  `cue_state` reads (and fills) the cache without it.
- *Two copies.* A snapshot is put into the cache, then into the database; either
  step can fail, the process can die between them, and the cache accepts only a
  newer version, so an old snapshot left behind can block the next match.
- *Timers.* Every phase of a match must leave a timer behind, and a timer that
  fires races the message it waits for. A session without a pending renewal ends
  silently.
- *Row versus memory.* `rooms.status` moves before or after the snapshot, in
  another transaction; an invitation is in the store but its room is in the
  database; a presence mark outlives the connection it is of.
- *Who is in a room.* Join, leave, disconnect, delayed release, expiry and rematch
  are separate statements or transactions on one row, from several goroutines.
- *React.* A handler sets state that a later render shows; refs change at once;
  effects run with what they closed over; sockets break and open again, and what
  was published in between is gone or comes twice.

What makes each part correct:

- rules: a ball scores once; winner and `finished` come together; a match goes on
  only while nobody has cleared its balls and the black one is on the table.
- referee: the stored snapshot only moves by moves of the game and never to an
  older version; cache and database agree between sections; every turn ends; a
  finished room has its result; a match that opens is dealt.
- rooms: a user is in at most one active room; only a room with two players plays;
  nobody inherits a predecessor's mark; requests do not deadlock.
- connections: at most one connection of a user counts; who is connected keeps the
  seat, who is gone loses it; what a page shows is what the room is.
- invitations: the guest sees what the store keeps, and a full room keeps none.
- session: one usable token per family; a renewal always pending; an active user
  has a profile; a logout reaches every tab.
- match page: whoever aims looks at the lobby's table; a shot is played on the
  table that the shooter saw, and reported; the page catches up.
- cue, chat, home page, table: shown once, shown at all, shown as it is.

## 2. Modules

| Module | What it is | Checked by |
|---|---|---|
| `MatchRules` | the pure functions of `match_state.go`, and the order on snapshot versions of `ws_handler.go` | with `MatchServer` |
| `MatchServer` | the referee of one room: cache, row, mutex, timers, goroutines, faults, crash | `match_*` |
| `MatchTurns` | abstract: one table, the moves of the game, the room around it | refined by `MatchServer` |
| `RoomRegistry` | the table of rooms: transactions with row and user locks, single statements, a read that writes | `rooms_*` |
| `RoomSeats` | abstract: who sits in which room, each change one step | refined by `RoomRegistry` |
| `GameClient` | one browser's page of a match, its socket, and the lobby as it is seen through what it publishes | `game_client` |
| `Session` | one account in the tabs of one browser, the auth and the profile service | `session` |
| `RoomPage` | one player's page of a room and their connections | `room_page` |
| `Invitations` | the invitation store, its handlers, the guest's and the owner's pages | `invitations` |
| `CueFeed`, `ChatFeed`, `HomeFeed`, `TableMotion` | the other player's cue; the chat; the list of rooms; the balls in motion | `page_parts` |
| `MC...` | instances for TLC: budgets, symmetry, small sets; `MCPageParts` puts the four last ones side by side | |
| `...Proofs` | the theorems, section 5 | |

`MatchServer` EXTENDS `MatchRules` and instantiates `MatchTurns` with the refinement
mapping `status <- room.status`, `opening <- Opening`, `table <- Table`.
`RoomRegistry` instantiates `RoomSeats` with `seats` <- status, creator and opponent of
each row. The parts meet at what each is checked to promise: `GameClient`'s lobby
moves its snapshot as `MatchTurns` does; `RoomPage` and `Invitations` use a room as
`RoomSeats` has it, one step a change; `Session` stands alone. A lobby, three pages
and a database at full detail in one instance would be beyond TLC.

### From the code to MatchRules

A snapshot is a record: status, turn (user, number, deadline), shot (number,
shooter, start), winner, set of sunk balls, scores, version time. Left out:
positions, velocities, spins, pockets and their paths, the audit hash, and
`TurnStartedAtMS`, which is set and cleared with the deadline. No rule reads
them. The result of a shot is what the shooter's client may report: any superset
of the sunk balls is accepted, and with it whether the cue ball fell. Colours of
single balls do not matter to any rule but for their owner, so one or two balls
a side are enough.

### From the code to MatchServer

| State | Code |
|---|---|
| `now` | `time.Now().UnixMilli()`, in units of the smallest duration |
| `room` | the room's row: `status`, `opponent_id` |
| `stored`, `cache` | `room_match_states`, `h.snapshots` |
| `timer` | `h.prepareTimers`, `h.turnTimers`, `h.shotTimers` of the room |
| `requested` | `h.rematches` |
| `lock` | `h.matchStateMu` |
| `work` | per goroutine: its step, what it is there for, its copy of the room's row and of the snapshot |
| `dealt` | history variable: the first snapshot of the running match was stored |
| `budget` | bound: how many starts, rematches, leaves, crashes and faults are left |

Goroutines are the two participants' WebSocket readers (one message at a time),
`Goroutines` for fired timers, and `Leaver` for whoever takes a player out of the
room or closes it. A locked section is a sequence of steps: `Enter` (lock and
look into the cache), `Load` and `Fill` (a cache miss), `NoCanonicalSnapshot`
(a new snapshot), the decision (`Reconcile`, `TurnReady`, `ShotStarted`,
`ShotResultSubmitted`, `Deal`) with the first half of `storeCanonicalSnapshot`,
and `Persist`, its second half. Each touches cache or database once, so every
interleaving the code can show is one of the model. `Fill` and `Stage` refuse what
the cache refuses. `Receive` and `Fire` read the room's row before the lock and the
section works on this copy.

Merged, because nothing in between is visible to another goroutine or the order
cannot matter: the timer's forget and its read of the room; upsert and
`syncMatchTimers`; unlock and publication. `now` is read once a section (the code
reads it up to three times, at most a few instructions apart); the `now` of
`reconcileMatchState` is taken before the lock in the code, at the decision in the
model.

Two switches name what the code's timing makes unlikely but does not exclude:

- `Stalls`: a goroutine may stand still past a deadline between the row's
  "playing" and the lock of `match_start`, or from before the opponent left until
  after another one joined. Without it, handlers take less than a turn's clock
  (seconds) and less than a leave, a join and a start by hand.
- `CueStates`: clients send `cue_state`, whose read is outside the mutex.

### From the code to RoomRegistry

| State | Code |
|---|---|
| `row` | table `rooms`: `status`, `creator_id`, `opponent_id`; `overdue` is `expires_at < NOW()`, `creatorGone` and `opponentGone` are the two `_disconnected_at` columns, set or NULL |
| `rowLock`, `userLock` | row locks of `SELECT ... FOR UPDATE`, advisory locks of `lockActiveRoomUsersTx` |
| `req` | the requests in flight: operation, step, room, user, users still to lock, `NOW()` of a join against `expires_at` |

PostgreSQL is at READ COMMITTED, the pool's default: a statement sees what is
committed when it starts; a writer waits for the row's lock and asks its WHERE
again. `CreateRoom`, `JoinRoom` and `StartRematchRoom` are transactions of several
steps: `Begin...`, `Select` (row lock, validations), `LockUser` once a user,
`Check` (the other active rooms), `Write` (with COMMIT), or `Abort` at any point.
`LeaveRoom` locks one row and writes it: one step, like every single UPDATE. Two
operations are not: `GetRoomByID`/`GetRoomByCode` read in one statement and expire in
another (`Get`, `GetExpires`); the sweep
`ReleaseRoomsWithExpiredOpponentDisconnect` is one statement whose UPDATE waits for
rows that its CTE chose before, and does not ask the CTE's conditions again
(`Sweep`, `SweepReleases`).

`LateVacates` says whether a seat may be vacated in a room that is finished or
expired. The code lets it be; `FALSE` isolates what the locks achieve from what this
one hole breaks.

Left out: connection ids (a mark of disconnection may come at any time), room codes
and privacy, `ResetRoom` (no caller), the duration of each timeout, collisions of
`hashtext` (two users with one lock), and the order in which statements over many
rows lock them (each is one step a row). `BeginRematch` needs a finished room; that
both players asked is `MatchServer`'s.

Left out of `MatchServer`: other rooms (rooms share only the mutex and the timers'
maps, keyed by room); a second opponent's identity (whoever joins is `Opponent`);
publication to NATS (`GameClient`); XP awards; `GetRoomByID` expiring a waiting room
(`RoomRegistry`); `StartRoom`'s condition that nobody is marked as disconnected (a room
that it refuses does not start); a rematch request that was decided on a room still
finished and recorded after the restart.

When `handleRoomClientEvent` cannot read the room, it goes on with the copy that the socket
has (`LOBBY/ws_handler.go:516`): of a match, maybe of one that is over (`CopyOfMatch`). On a
copy of a waiting room the gameplay messages are refused, which is no step; `match_start`
writes the row under its own conditions. A `rematch_request` that is handled on a copy of a
room that was finished before is not modelled.

### From the code to GameClient

| State | Code |
|---|---|
| `server` | room and snapshot of the lobby, the shots counted, the breaks so far |
| `link` | the WebSocket: state of both ends, messages on the way each way, retries |
| `next`, `view` | React state of `GamePage` and `SnookerMatch` as set and as rendered |
| `refs` | their refs: version of the last snapshot, balls, sequence numbers, the result being hashed |
| `cue` | `MinimalCue`: striking or not, the last shot it animated |

A table is the sequence of the shots that made it, so that two tables are the same
just if the same shots were played on the same rack; positions are left out. `Deliver`
is `ws.onmessage`, `Render` a render with the effects that depend on what changed, in
the order of the source; `handleCueContact`, `handleSimulationStopped`, `onShotResult` are
the animation's callbacks, the last one after the awaited hash. `Connect`, `Opened`,
`Greet`, `Subscribe` are the socket's opening at the browser and, in the lobby, the read of
`room_state` and the subscription that follows it.

`Mishaps` names what the code's timing makes unlikely but does not exclude; the run
leaves them out, because with each of them some property is false: `CatchesUp` with `gap`,
`OwnShotIsReported` with `oneShot`, `ShotsAreSeen` with `away` and `slow`, `TableIsPlayed` with
`late`, `stale`, `midShot` and `token`.

- `gap`: the room changes between the read of `room_state` and the subscription, and the
  event reaches no one; without it snapshots, shots and timeouts may fall into this gap, but
  no event of the room;
- `late`: shots are published, played and decided between two renders;
- `stale`: an answer to `request_game_state` is published after what it read was over;
- `away`: a match opens while the browser is cut off or loads the page, or its `match_start`
  is lost with the link, and the page goes on with the match before;
- `midShot`: the page is loaded again while balls are in motion;
- `token`: a new access token loads the room anew while a match is on. The code renews it
  whenever it is due (`Session`). The page then mounts its table again and plays the last
  shot that it was told of once more, over the table of the snapshot, so that `TableIsPlayed`
  and `CatchesUp` are false. Without `token` a renewal only comes when the room is finished;
- `oneShot`: a rematch after a match of which one shot was animated, when the new first
  shot has the same number;
- `slow`: what is on its way takes as long as a turn. The lobby ignores the number in
  `shot_started`, so a shot sent in one turn and served in the player's next one, or sent
  after a break before the answer to `request_game_state`, starts on another table than
  the player saw.

Also left out: `handleSimulationStopped` reads the balls after the hash is awaited
(`TableMotion`); a page that reconnects shows "Pausado" while the lobby's clock goes on;
a rematch request on a closed socket is dropped without a word; the page gives up if a
retry fails before its socket opened. The lobby drops a message for a socket of which 256
wait already (`enqueueWS`, `LOBBY/ws_handler.go:1199`): `ChatFeed` and `RoomPage` lose messages
so, `GameClient`, `CueFeed`, `HomeFeed` and `Invitations` assume that fewer than 256 wait for
an open link.

A page that is cut off while a match ends (its result, the leaving of the other player, the
end of the room) may never show the result: `room_state` does not carry one, and
`request_game_state` is answered only while the room is playing. The history
`server.unheard` remembers it and `CatchesUp` excepts the result then, but nothing else:
not the room, not the turn, not the table.

### From the code to Session

| State | Code |
|---|---|
| `tab` | per tab: `AuthState`, path, the session's timeout, the retries of `refreshSession` |
| `calls` | requests on the way: kind, cookie sent, the step of the service, its row, the answer |
| `cookie` | the browser's refresh cookie |
| `db` | table `refresh_tokens`: state, family, age |
| `account`, `profile` | status of the user's row in auth; whether there is a profile row |

`TokenService.Refresh` is `Find`, `Revoke`, `Create` (or reuse within the grace period:
`FindActive`, then `Revoke`, `Create` on the newest; or `RevokeFamily`), one statement a step,
so two rotations of one token interleave. `ProfileService.CompleteProfile` is `Upsert`,
then `ActivateUser` in the other service. A tick is ten seconds: `Grace` 1 and `Retry` 1
are `models.go:60` (15 s) and the page's retry, shorter than the grace period.
A token that nobody may still use is used again for a new one, which keeps the run
finite. Left out: passwords, the JWT, Google's side of OAuth, avatars.

The proofs and the run also showed, and the properties say so: with `disturbed` (a call
overlapped another one, a statement failed, or a first refresh was lost) a family may be
left without an active token, or with two after two rotations at the same time. So may it be
when `IssueFails`: the new token is stored, or the account created or active, and the
access token cannot be issued; the answer is 500, the cookie stays the old one
(`auth/internal/auth/handler.go:142`). And the first refresh of a page is never retried;
a retry is not cancelled by a logout, and a refresh in flight during one
re-authenticates; any 401, 429 or 500 on a refresh makes the page anonymous; two lost
answers take longer than the grace period and end the family.

### From the code to RoomPage

| State | Code |
|---|---|
| `row` | the room's row: status, the opponent's sitting, marks, the player's connection id |
| `conn`, `presence`, `due` | the player's connections as `HandleWS` met them; `activeRoomConnections`; delayed closes and releases |
| `page` | `LobbyRoomPage`: view, ready flags, inbox; or the player away, or in the match |

The player is the creator or the opponent (both are checked); the other player is an
environment. A write and its event are one step; what the page sends is served at once.
No clock: handoff and delays take any time. Left out: failing requests, spectators, the
profiles' fetch, publications that cross. `Expires`, `SweepCloses` and `SweepReleases` are
what any request for rooms does to this one (`expireRoomsAndCleanup`, and `GetRoomByID`): an
expired room and one closed for a creator who is gone get no event, the released opponent
gets one. An event may be dropped by `enqueueWS`.

What the exceptions of the properties stand for: the page has no `onclose` and does not hear
until a new token or a reload (`Hears`); what it shows is `stale` when the room changed with
no event on its way to it, when a late answer put an older view over a newer one, or when
events between the mark and the subscription were lost, until an event brings the whole
room; a rematch clears the marks, so that the delayed release finds none
(`LOBBY/repository.go:581`), and `SeatIsFreed` excepts it. `SparesConnected` speaks of the
delayed close and release. It is no property of the sweep, whose UPDATE does not ask again what its
SELECT found (`Sweep`, `SweepReleases` of `RoomRegistry`): it may put out an opponent who has
just come back. The sweep of `RoomPage` finds and writes in one step.

### From the code to Invitations

`store` is the three maps of `invitationStore`; `jobs` are the handlers under way, of
which check, storing, publication, and a room's write and the clearing that follows
are steps of their own; `guest` and `owner` are `LobbyNotificationsProvider` and the room's
page. `mishaps` remembers what came too late (`stored late`, `crossed`), was not heard
(`guest deaf`), or was left (`left behind`); the properties except those by name. The last
one is `RoomExpires`: whoever reads a room past its time writes that it has expired
(`LOBBY/repository.go:219`, `:259`) and clears nothing, and `ExpireRooms`, which only returns
rooms that it finds waiting, does not come back to it. One room, one guest; a guest's join
and its answer are one step; presence is noticed at once.

### From the code to the parts of the pages

- `CueFeed`: throttled packets of the cue, the lobby's check of a packet against the
  turn it read, `LatePublishes` for a handler whose client has gone; the effects that
  show a cue, a snapshot, a shot. Two messages at most per render.
- `ChatFeed`: the stream, a socket that gets it from its first message, the ids that
  the page has, messages that wait for a sender's profile. A text on a closed socket is
  dropped and the input emptied, as in the code. A message for which the link's queue has
  no place is dropped on the way out (`wire.lost`); the next socket brings it.
- `HomeFeed`: broadcasts and the snapshot for a new socket, each a read and a
  publication; the request over HTTP; visits of the page.
- `TableMotion`: `SimulationLoop` as frames that play ticks from an accumulator, what a
  tick may do to a ball (slow down, meet another one, sink), rest, render, report.
  Speeds are small numbers that only fall, except where two balls meet; places are
  "up", "sinking", "sunk". The report is built after the awaited hash, from what the
  table is then.

## 3. Properties and runs

### Matches

One ball a side and the black one (`match_live`, `match_wild`: two for the creator, so that a
turn can be kept without winning), every duration one tick, one timer goroutine
(`match_wild`: none, messages find the deadlines), `MaxTurns` turns (no shot starts and
time stands still at the last one). Two turns contain every kind of hand-over: prepare,
clock, shot, timeout of each kind, a result that keeps the turn, passes it or wins.
`Budget` counts the starts, rematches, leaves, crashes and faults of a behaviour.

| Run | Question | Properties | States |
|---|---|---|---|
| `match_live` | one match, two turns, silent players | `ImplementsTurns`, `TurnsEnd` under fairness | 37 k |
| `match_leave` | a leave or a close at any moment, another opponent, a second match | `MatchIsDealt` | 653 k |
| `match_restart` | crash, failed write, rematch, at any step | `CacheIsStored`, `FinishedRoomHasResult`, `RowOnlyGetsNewer` | 1.1 M |
| `match_wild` | stalls, failed reads of row and room, `cue_state`, three turns | `TypeOK`, `StoredIsSound` | 1.3 M |

- `StoredIsSound`: shooter, winner, status, scores and sunk balls of the stored
  and the cached snapshot agree.
- `CacheIsStored`: between sections the cache is empty or equals the row, or there is
  no row (a leave that crossed a section).
- `FinishedRoomHasResult`: a room is `finished` only with the finished snapshot
  and its winner in the database. Not said after a leave or a failed read, with which
  it is false.
- `MatchIsDealt`: once `match_start` or `rematch_request` is through, the first
  snapshot of the match was stored: nothing left over blocks it. Not said after a
  crash or a failed write.
- `RowOnlyGetsNewer`: the stored version never goes back within a match. Not said
  after a failed read, which deals the match again.
- `ImplementsTurns`: the stored row moves as `MatchTurns` says: by the moves of
  the game, each at most once, none skipped.
- `TurnsEnd`: every turn ends whatever the players do not do.

### Rooms

Two rooms and two users, because to be in two places takes two rooms, and a cycle
of locks two users whose roles are swapped in two rooms; every race is between two
requests, the third of `rooms_seats` lets a sweep or a read come between. Rows are not
reused. Rooms and requests are symmetric in the safety runs.

| Run | Question | Properties | States |
|---|---|---|---|
| `rooms_seats` | three requests at a time, no late vacating | `OneActiveRoom`, `ImplementsSeats` | 684 k |
| `rooms_requests` | two requests at a time, late vacating | `TypeOK`, `TwoPlayersPlay`, `NoInheritedMark`, `NoLockCycle`, `RequestsEnd` under fairness | 479 k |
| `rooms_twice` | late vacating, three users | `OneActiveRoom`: violated | - |

- `OneActiveRoom`: a user sits in at most one room that is waiting or playing.
- `ImplementsSeats`: a transaction of many steps is one decision of `RoomSeats`, on
  the rooms as they are at its commit.
- `TwoPlayersPlay`: a room that is playing or finished has two different users.
- `NoInheritedMark`: no mark of a disconnected opponent without an opponent.
- `NoLockCycle`, `RequestsEnd`: nobody waits in a circle, and everybody ends.

### Browser

| Run | Bounds | Properties | States |
|---|---|---|---|
| `game_client` | two matches of two shots and three turns, one break, two messages on the way | `AimsAtTable`, `TableIsPlayed`, `ShotsAreSeen`, `CatchesUp`, `OwnShotIsReported` | 518 k |
| `session` | two tabs, four tokens in use, one fault | `OneActiveToken`, `RenewalIsPending`, `ActiveHasProfile`, `StaysIn`, `OutEverywhere` | 289 k |
| `room_page` | two connections, two tabs, three acts, two events on the way | `TypeOK`, `ViewAgrees`, `SparesConnected`, `SeatIsFreed`, `PlayersReachTheGame` | 880 k |
| `invitations` | two invitations, two acts of others | `InvitesAgree`, `FullRoomInvitesNobody`, `InvitedIsTold` | 454 k |
| `page_parts` | each part on its own: two aims and turns; two messages, one break; two changes, one request; one shot, two balls and the white one, frames of 0.5, 1.5 and 2.5 ticks | `TypesOK`, `MyAimIsMine`, `AimIsFollowed`, `ChatIsWhole`, `HomeIsFresh`, `ReportIsTrue`, `TimeIsPlayed` | 190 k |

Two matches, connections, tabs, invitations are what it takes for something of the
first one to come in the way of the second; one break or fault may come at every step.
The third turn of `game_client` lets a player's turn come back after the other one's.

- `AimsAtTable`: whoever is asked to aim looks at a table that the lobby had in this
  match. `TableIsPlayed`: the lobby's table changes only by the shot that it started.
  `ShotsAreSeen`: a shot is started on the table that its player saw. `CatchesUp`: once the
  lobby stays as it is, the page comes to show its room, whose turn it is, and its table, and
  the result of the match unless its end was lost or published unheard: whatever of turns,
  shots and results, of the other player's leaving and of the room's end was lost with the
  link. A lost `match_start`, a change of the room in the gap and a renewal during a match
  are the mishaps `away`, `gap`, `token`. `OwnShotIsReported`: a shot ends by its
  report, unless the link breaks.
- `OneActiveToken`: an undisturbed family has one active token. `RenewalIsPending`:
  who is logged in has a renewal to come. `ActiveHasProfile`. `StaysIn`: no tab is
  thrown out of a session that goes on and was never disturbed (no call failed, none
  overlapped another one). `OutEverywhere`: a logout reaches the other tabs.
- `ViewAgrees`: with no event on the way the page shows the room as it is, unless the room
  has since changed without an event that reached it (`stale`).
  `SparesConnected`: a player whose connection the row names is not put out by a delayed
  close or release, whichever earlier connections ended. `SeatIsFreed`: a seat whose last
  connection is gone is freed, but for a rematch. `PlayersReachTheGame`: a page that hears
  takes its player to the match, by `match_start` or by a later event with the room.
- `InvitesAgree`: at rest the guest sees what the store keeps. `FullRoomInvitesNobody`:
  at rest a room that is full or over keeps no invitation, but for `stored late` and `left
  behind`.
  `InvitedIsTold`: an invitation kept is shown in the end.
- `MyAimIsMine`: no late packet turns the cue of the player who aims. `AimIsFollowed`: the
  other page comes to show the aim. `ChatIsWhole`: at rest every
  message but those dropped on the present link is shown, and none twice. `HomeIsFresh`: at
  rest the list is the room as it is, unless lists crossed or a room expired untold.
  `ReportIsTrue`: a report tells of a table at rest, and of just what fell; a report after
  another frame ran is excepted. `TimeIsPlayed`: less than a tick is left to play, because
  the three constants of the frame's time fit (`TableAssumption`).

Deadlock is checked for the rooms. Elsewhere the bounds stop the model, and services
and pages may wait for people. Each property has a mutant, a named variant next to
the operator that it varies, under which the run finds it violated.

### Fairness

- `MatchServer`: weak for each goroutine's own steps, for time, and for the firing of due
  timers; strong for the taking of `matchStateMu`, because Go's mutex hands over to a
  waiter that starves. None for messages: players may stay silent.
- `RoomRegistry`: strong for each request's steps: PostgreSQL queues those who wait.
- `GameClient`: weak for the lobby's service of messages, the socket's steps, delivery,
  renders and animation callbacks. Players, the lobby's clocks and breaks have none.
- `Session`: weak for services and delivery, strong for timers and time: a browser's
  timeouts fire, also when calls come and go. Whoever uses the tabs has none.
- `RoomPage`, `Invitations`, `CueFeed`: weak for what is on its way, for handlers and for
  a socket's reopening. Nobody has to join, answer, aim or shoot.

## 4. What the runs found

- `rooms_twice`: the opponent's `LeaveRoom` (`LOBBY/repository.go:727`) sets the room to
  "waiting" whatever its status was. A creator who closed or finished the room and
  went on to another one is then in two active rooms, which `ErrUserInActiveRoom`
  is there to prevent. The two releases of a disconnected opponent do the same to
  finished rooms, the sweep also to expired ones.

What TLC showed while the properties were stated, and their hypotheses or exceptions
now name:

- When the write of a *message's* reconciliation fails, `storeCanonicalSnapshot` clears
  the cache and cancels all timers of the room (`LOBBY/ws_handler.go:1360`), and the
  handler just returns: unless a client speaks, the match stands still. After a restart,
  too, no timer is armed until a client asks. `TurnsEnd` is checked without either.
- `ensureCanonicalSnapshot` cannot tell a failed read from a missing row: one failed read
  after a restart deals the match again from its first turn.
- `clearCanonicalSnapshot` runs outside `matchStateMu`: a leave that crosses a locked
  section leaves the old snapshot behind, and a message that comes before the next
  `match_start` has cleared it may reach a result on it, which finishes the new room
  (with three turns, a behaviour of 41 states).
- With `cue_state`, `MatchIsDealt` is false: its unlocked read can put the old snapshot
  back into the cache between `clearCachedSnapshot` and the first store of the new match.
- `GetRoomByID` and `GetRoomByCode` expire a room without clearing its invitations; the sweep's
  `ExpireRooms` does not find it again, so a guest keeps an invitation to a room that is over.
- Expiry and the sweep's closing of a room publish no event of the room: an open room page
  goes on showing the room as waiting.
- A page that was cut off while the match ended does not show the result.
- With stalls, a `match_start` that stands still for a whole turn between the row's
  update and the mutex clears a match that has begun, or is over.
- `GetRoomByID` and `GetRoomByCode` expire a room by its id only
  (`LOBBY/repository.go:220`): a join that commits between their read and their write is
  expired with the room. `RoomSeats` has the step.

## 5. Theorems

| Theorem | Module | States | Hypotheses beside the module's assumption |
|---|---|---|---|
| `TypeCorrect` | `MatchServerProofs` | `Spec => []TypeOK` | - |
| `StoredAlwaysSound` | `MatchServerProofs` | `Spec => []StoredIsSound` | - |
| `CacheMatchesRow` | `MatchServerLockProofs` | `Spec => []CacheIsStored` | `~CueStates` |
| `RowGetsNewer` | `MatchServerLockProofs` | `Spec => RowOnlyGetsNewer` | `~CueStates` |
| `MatchesAreDealt` | `MatchServerLockProofs` | `Spec => []MatchIsDealt` | `~CueStates` |
| `FinishedHasResult` | `MatchServerLockProofs` | `Spec => []FinishedRoomHasResult` | `~CueStates`, `~Stalls` |
| `ServerImplementsTurns` | `MatchServerLockProofs` | `Spec => ImplementsTurns` | `~CueStates`, `~Stalls`, no leave and no failed read in the budget |
| `RoomTypes` | `RoomRegistryProofs` | `Spec => []TypeOK` | - |
| `MatchesHaveTwoPlayers` | `RoomRegistryProofs` | `Spec => []TwoPlayersPlay` | - |
| `MarksAreOnesOwn` | `RoomRegistryProofs` | `Spec => []NoInheritedMark` | - |
| `NoDeadlock` | `RoomRegistryProofs` | `Spec => []NoLockCycle` | - |
| `OpponentsJoinOnce` | `RoomRegistryProofs` | `Spec => []JoinedOnce` | - |
| `NobodyInTwoRooms` | `RoomRegistryProofs` | `Spec => []OneActiveRoom` | `~LateVacates` |
| `RegistryImplementsSeats` | `RoomRegistryProofs` | `Spec => ImplementsSeats` | `~LateVacates` |
| `RenewalAlwaysPending` | `SessionProofs` | `Spec => []RenewalIsPending` | - |
| `ActiveAlwaysHasProfile` | `SessionProofs` | `Spec => []ActiveHasProfile` | - |
| `OneActiveInFamily` | `SessionProofs` | `Spec => []OneActiveToken` | - |
| `NobodyIsThrownOut` | `SessionProofs` | `Spec => StaysIn` | `OneFault` |
| `PagesAndStoreAgree` | `InvitationsProofs` | `Spec => []InvitesAgree` | - |
| `FullRoomsInviteNobody` | `InvitationsProofs` | `Spec => []FullRoomInvitesNobody` | - |
| `TypesHold` | `RoomPageProofs` | `Spec => []TypeOK` | - |
| `PageShowsTheRoom` | `RoomPageProofs` | `Spec => []ViewAgrees` | - |
| `ConnectedAreSpared` | `RoomPageProofs` | `Spec => SparesConnected` | - |
| `AimedTablesWereThere` | `GameClientProofs` | `Spec => []AimsAtTable` | `Ordinary` |
| `TablesArePlayed` | `GameClientProofs` | `Spec => TableIsPlayed` | `Ordinary` |
| `ShotsWereSeen` | `GameClientProofs` | `Spec => ShotsAreSeen` | `Ordinary` |
| `AcceptedSnapshotsShow` | `GameClientProofs` | `Spec => []AcceptedIsShown` | - |
| `OneIsNewer` | `GameClientProofs` | of two different snapshot versions exactly one is the newer | - |
| `PageShowsTheChat` | `PagePartsProofs` | `ChatSpec => []ChatIsWhole` | - |
| `ListIsFresh` | `PagePartsProofs` | `HomeSpec => []HomeIsFresh` | - |
| `ReportsAreTrue` | `PagePartsProofs` | `TableSpec => []ReportIsTrue` | - |
| `PaceIsKept` | `PagePartsProofs` | `TableSpec => []TimeIsPlayed` | - |
| `OwnAimIsKept` | `PagePartsProofs` | `CueSpec => []MyAimIsMine` | - |
| `CueTypes`, `ChatTypes`, `HomeTypes`, `TableTypesHold` | `PagePartsProofs` | the types of each part | - |
| `PartsTypes` | `PagePartsProofs` | `PartsSpec => []TypesOK` | - |

They hold for all sets of balls, goroutines, rooms, requests, tabs, all durations and all
bounds, from assumptions that say what the constants are: finite, disjoint or distinct
sets and numbers (`RulesAssumption`, `ServerAssumption`, `RegistryAssumption`,
`SessionAssumption`, `ClientAssumption`, `InvitationsAssumption`, `RoomPageAssumption`, `ChatAssumption`,
`CueAssumption`, `TableAssumption`).

The other hypotheses are the code's own limits, each shown by TLC to be needed:

- `~CueStates`: without the unlocked reads of `cue_state`, which fill the cache.
- `~Stalls`: no goroutine stands still past a deadline or past a leave and a new join.
  What is proved of cache, row and deal does not need it.
- No leave, no failed read: `ServerImplementsTurns` is false with either (section 4). Crashes,
  failed writes, rematches, any number of timers' goroutines are allowed.
- `Ordinary` is `Mishaps \subseteq {"gap", "oneShot"}`: each of the other six makes one of the
  three properties false (section 2). Breaks, lost messages, reloads between shots, timeouts
  and rematches are in; renewals of the access token during a match are not.
- `OneFault` is `MaxFaults <= 1 /\ Retry <= Grace`. The code repeats a lost refresh after 10 s
  and takes a rotated token for a repeated request during 15 s. TLC shows `StaysIn` false with
  two faults (the repetition is lost too, the next one comes after 20 s, `RevokeFamily` ends the
  session) and with a repetition after the grace.
- `~LateVacates`: the code does vacate late (`rooms_twice`). `OpponentsJoinOnce` says what is
  left without the hypothesis: nobody is the *opponent* in two active rooms.

### Arguments

*Match types.* One lemma per rule (`PassTurnType`, `ShotResultType`, ...) says that it
makes a snapshot of a snapshot; one per building block of the goroutines
(`StageType`, `FailType`, ...) what they leave; one per group of actions that it
keeps `TypeOK`.

*Soundness.* `StoredIsSound` is not inductive: a goroutine writes a snapshot that
it computed some steps ago from one that it read before that, with the room's
row it read at first. `IInv` adds that every snapshot a goroutine holds is sound
(`HeldIsSound`), that every copy of the row that is used knows the opponent
(`WorkKnowsOpponent`), and that the row does while it is playing or finished
(`RoomHasOpponent`): without an opponent, a black ball pocketed by the creator
would have no winner. The rules' lemmas carry the weight: `ScoreOfSunkBalls` (the
points before plus those of the shot are the points after, because sunk balls stay
sunk) and `UndecidedShot` (a result without a winner leaves both sets of balls and the
black one open).

*The mutex.* `LockInv`: only the goroutine that holds `matchStateMu` is inside a section
(`MutexInv`), each step has the jobs that lead to it (`StepsInv`), and cache, row and the
snapshot in the holder's hands stand to each other as that step says (`HoldsInv`): at
"decide" all three are the same, at "persist" the held one is in the cache and newer than
the row, or a deal. Cache and row then agree when nobody holds the lock
(`CacheMatchesRow`), and what a step stores is newer than what it replaces, or is the deal
of a match just opened (`RowGetsNewer`, an action property from the same invariant). A
leave, which takes no lock, may empty cache and row at any step: each part says so.

*The deal.* `DealInv`: a match that is open and not dealt has a goroutine on its way to
deal it. That it is not refused follows from `LockInv`: it finds the cache empty.

*The result.* `ResultInv`, as long as nobody left and no read failed: from the storing of the
winning snapshot on, every other goroutine is at a step from which it can only find out
that the match is over (`FinishInv`), and so it is until the next match has been cleared for
(`FinishedInv`, `RematchInv`); and while a `match_start` waits for the lock, what others deal
is the first snapshot, and no deadline passes (`StartInv`).

*Refinement.* `TurnInv`: what a goroutine is about to store is the first table of the match,
or one move of the game away from the stored one, although it was computed some steps
before. Each action is then a move of `MatchTurns`, or leaves `status`, `opening` and `Table`
alone (`Taken`): one lemma a group of actions, and `ServerImplementsTurns` puts them under the
box.

*Rooms.* `IInv` of `RoomRegistryProofs`: what a row says on its own (`RowOK`), that what a
transaction's SELECT found stays true as long as it holds the row's lock
(`SelectHolds`), that only transactions past their SELECT hold locks (`RowLocksHeld`),
and that who holds a user waits for greater ones only (`UserLocksInOrder`). `NoDeadlock`
then needs no bound on the number of requests: in a circle the users waited for would
grow for ever (`NoGreatest`). `SeatInv` adds what a user's lock keeps: what `Check` found of
the user's other rooms is still so at the write (`CheckedFree`). From it follow `OpponentsJoinOnce`, and
without late vacating `NobodyInTwoRooms` and the steps of `RegistryImplementsSeats`.

*Session.* Every action of the services takes one call from one step to the next and leaves
the tabs alone (`Served`), so `RenewalIsPending` with the types is inductive: a call that
is delivered leaves a timer, a retry or a signed-out tab. `ActiveHasProfile` needs that
a call at the step of activation comes after its profile row (`ProfileInv`).
`OneActiveToken` needs that an undisturbed account has one call at a time, and that between
the revocation of a token and the creation of its successor the family has no active one
(`AloneInv`). That a new family is a new one (`NewFamilyIsNew`) is proved by counting the
tokens in use, because tokens are used again. `StaysIn`, for any number of tabs that share the
cookie, needs to know what became of the browser's token (`CookieInv`): it is active; or over,
by a logout; or a call is rotating it (`Rotating`); or its successor was lost (`LostItsNext`).
In the last case a refresh repeats the request, or a timeout will while the grace lasts (age and
ticks left add up to no more), and its family still has an active token to rotate. So a refresh is
refused only after a logout, and only that makes a tab anonymous (`CallKnows`, `StaysInStep`).

*Invitations.* The three maps of the store change together (`MapsAgree`). `AgreeInv` splits
`InvitesAgree` in what is on the screen and void (`NothingVoid`) and what is kept and not on it
(`NothingMissing`): the one only while a handler is on the way to say so, or another
invitation to take its place, the other only while it is on its way. `FullInv`: whoever
fills or ends a room clears its invitations next, but for a reader that expires it.

*Game client.* `GamePage` and `SnookerMatch` each keep the version of the last snapshot they
took, compare with a copy of the same order, and forget it at a `match_start`: the one
when the message comes, the other in an effect of a later render. `FilterInv` says that
the second version is not after the first, except between the two moments, so that what
passes the first comparison passes the second (`ShowsEffect`); that is where the order has
to be transitive (`NewerIsTransitive`). What remains is the guard on the shot's number: a
snapshot older than a shot begun here is not shown. The theorem needs no
restriction on `Mishaps`; no run states its property.

*Tables.* What the page shows was read some steps ago from a lobby that has gone on, so
`TablesInv` follows a table from the lobby to the page and back. On the way in: behind the last
`match_start` in the inbox (`Late`) everything is of the present match and not ahead of it
(`Recent`, `Known`), before it everything is of an earlier one (`Past`), and no shot comes behind
the snapshot of the turn it was played in (`OrderInv`); a page that hears is going to hear of the
present turn (`AnswerInv`): the request is on its way, or the answer is read, published or taken.
On the page: a page that has the snapshot of the present turn shows the lobby's table or is
about to, in the next render (`ShowsInv`), and its table is always one that the lobby had
(`TableInv`). On the way out: a shot of this player that the lobby would still start was aimed
at the table as it is, with nothing between (`AimInv`). Once it has started, the page that plays
it is in one of four phases, announced, striking, rolling or resting (`ShotInv`), and each says
which table is on the screen, what was heard of the shot and what may be reported; so a result
that the lobby accepts is the table it had and the shot on it (`ResultIsPlayed`). `AimsAtTable`,
`ShotsAreSeen` and `TableIsPlayed` are `TableInv`, `AimInv` and `ShotInv` read at one step. What
a render does is the longest part: the effects are taken apart in their order, one lemma for what
each of them leaves of the page's fields (`RendersTable`, `RendersShot`, `RendersKeep`).

*Room page.* `Typed` says what every field is, an event under way included. `ConnInv`: a
connection ends once, what is scheduled for one comes after its end, the page's has not
ended, and the mark of the player is that of one which has; so a due close or release whose
connection is still the row's cannot be that of the page (`ConnectedAreSpared`). `ViewAgrees`
is not inductive: it says nothing while events are under way. `ViewInv` says where they
lead (`Leads`): the last of them that brings the whole room, or what the page shows if there
is none, with the disconnections after it, is the room as it is, unless the room's closing is
among them, or the page `stale`. Each step of the row appends an event that tells of it
(`ViewTold`), or makes the page stale; an event with the whole room mends that; each
message taken leaves the rest leading there (`LeadsOn`), and so does an answer to `getRoom`
that is not stale, whose marks are among those to come (`LeadsFromWhatIs`).

*Chat, home page, balls.* `ChatInv`: what the page has, what waits for a name and what is on
the wire are the stream up to the place the wire has reached, but for what its queue
dropped, without repetitions; that a sequence without repetitions is as long as its set is large is counted
(`LengthOfSet`). `HomeInv`: every list on its way was read at a state of the room that it
names, and the latest state is shown or on its way. `TableInv`: one part per phase of a
shot (striking, moving, resting, hashing, told), each saying which balls fell. That no ball is
faster than the shot (`TableTypesHold`) is a bound on the sum of all speeds, since balls that meet
pass speed on; instead of summing, `Shared` deals the units `1 .. MaxSpeed` out to the balls,
none to two of them: a meeting deals the units of two balls anew (`CollidedIsShared`).

*Cue.* `CueInv`: a page whose player has the turn aims with an aim of theirs, a message of a link
is of its player, and a shot is told with an aim of who took it. A render handles all the messages
that came since the last one, one after the other (the recursive function `Handled`), then runs the
effects. What it leaves is an induction over the inbox, which the provers do not offer with an
operator as parameter; `AllNumbers` derives it from the order of the naturals (`SmallestOf`: a set
without a smallest element is empty), first for the function's existence (`HandledExists`),
then for what every message keeps (`AllHandled`).

### Only model-checked

- Liveness: `TurnsEnd`, `RequestsEnd`, `CatchesUp`, `OwnShotIsReported`, `OutEverywhere`,
  `SeatIsFreed`, `PlayersReachTheGame`, `InvitedIsTold`, `AimIsFollowed`. Fairness and ENABLED are
  out of the prover's reach.

## 6. Not modelled

Numbers of the table's physics (floating point), drawing, camera and layout; passwords,
the JWT and OAuth; avatars; XP awards (one call a match without a retry, one increment a
participant); the rate limiter (a counter under one mutex); `ResetRoom` and the
`room_reset` event (nothing calls or publishes them); deployment; the `game-core`
prototype, which no service uses and whose engine does not parse
(`game-core/src/physics/engine.ts:251`).

## 7. Plan

Every invariant and every action property that a run checks is a theorem, and so are both
refinements; liveness stays with TLC. To model: rate limiter and XP awards, should they get state
that two requests share.
