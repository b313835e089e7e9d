------------------------------ MODULE RoomPage ------------------------------
(***************************************************************************)
(* A room before and after its match: the page on which a player waits for *)
(* the other one (LobbyRoomPage.tsx) and that player's connections to the  *)
(* room in the lobby service (HandleWS, presenceTracker): how one takes    *)
(* another one's place, how a lost one is marked and its player put out    *)
(* after a while, what is published meanwhile, and what the page makes of  *)
(* it.  The player is the room's creator or its opponent; the other one is *)
(* an environment that does whatever the service lets it do.               *)
(*                                                                         *)
(* Connections are numbered in the order in which the browser opens them,  *)
(* the opponents' sittings in the order of the joins.  A step that writes  *)
(* the room also publishes the event of the write.  What the page sends is *)
(* served at once; what it receives waits in its inbox.  No clock: the     *)
(* 750 ms of the handoff and the 10 s of a mark may take any time.         *)
(***************************************************************************)
EXTENDS Naturals, Sequences

CONSTANTS
    Creator, Opponent,  \* the two players
    MaxConns,           \* bounds: the page's connections, ...
    MaxTabs,            \* ... tabs, one after the other, ...
    MaxInbox,           \* ... events on their way to the page, ...
    MaxActs             \* ... and what may happen again and again: tokens renewed,
                        \* opponents who sit down, matches, ready or not, ...

ASSUME RoomPageAssumption ==
    /\ Creator # Opponent
    /\ {MaxConns, MaxTabs, MaxInbox, MaxActs} \subseteq Nat /\ MaxTabs > 0

VARIABLES
    me,        \* the player of the page
    row,       \* the room's row
    sits,      \* how many opponents have sat down
    matches,   \* how many matches have started
    conn,      \* the player's connections, as HandleWS met them
    presence,  \* activeRoomConnections: the player's connection, or 0
    due,       \* connections whose delayed close or release is scheduled
    page,      \* the player's page
    acts       \* how much of that has happened

room    == <<row, sits, matches>>
sockets == <<conn, presence, due>>
vars    == <<me, room, sockets, page, acts>>

Users == {Creator, Opponent}
Other == CHOOSE u \in Users : u # me
Conns == 1 .. MaxConns

NoView == [status |-> "none", seat |-> 0, gone |-> {}]

\* toRoomResponse.
ViewOf(r) == [status |-> r.status, seat |-> r.seat, gone |-> r.gone]

NoConn == [tab |-> 0, step |-> "free", plays |-> FALSE, read |-> NoView]

\* The last field is history: while the page hears, the room has changed without
\* an event on its way to it, and none has brought the whole room since (stale).
AwayPage == [at |-> "away", tab |-> 1, conn |-> 0, answer |-> NoView, view |-> NoView,
             ready |-> {}, inbox |-> <<>>, stale |-> FALSE]

\* The row's connection is that of me, or 0.
Init ==
    /\ me \in Users
    /\ row = [status |-> "waiting", seat |-> 0, gone |-> {}, conn |-> 0]
    /\ sits = 0 /\ matches = 0 /\ due = {} /\ acts = 0
    /\ conn = [c \in Conns |-> NoConn]
    /\ presence = 0
    /\ page = AwayPage

Seated(r, u) == r.status # "expired" /\ (u = Creator \/ r.seat # 0)
IsOpen(p)    == p.conn # 0 /\ conn[p.conn].step = "open"
Hears        == page.at = "room" /\ IsOpen(page)

\* A bound of the model.
Acts == acts < MaxActs /\ acts' = acts + 1

-----------------------------------------------------------------------------
(***************************************************************************)
(* Publication.  A page that is subscribed gets the event, unless the      *)
(* queue of its socket is full (enqueueWS); an event with the whole room   *)
(* makes up for what it did not hear.                                      *)
(***************************************************************************)
Event(type, user) == [type |-> type, user |-> user, view |-> NoView, on |-> FALSE]
RoomEvent(type, user, r) == [Event(type, user) EXCEPT !.view = ViewOf(r)]

Gets(p, e) ==
    IF p.at = "room" /\ IsOpen(p)
    THEN {[p EXCEPT !.inbox = @ \o <<e>>, !.stale = @ /\ e.view = NoView],
          [p EXCEPT !.stale = TRUE]}
    ELSE {p}

PublishFor(p, e) ==
    /\ page' \in Gets(p, e)
    /\ Len(page'.inbox) <= MaxInbox

Publish(e) == PublishFor(page, e)

\* The room changes, and nobody is told.
Untold == page' = IF Hears THEN [page EXCEPT !.stale = TRUE] ELSE page

-----------------------------------------------------------------------------
(***************************************************************************)
(* The page's own life.                                                    *)
(***************************************************************************)
IsFresh(c) == conn[c].step = "free" /\ \A d \in Conns : d < c => conn[d].step # "free"

\* RegisterRoomConnectionIfFree: the same tab takes its own place over.
IsFree(tab) == presence # 0 => conn[presence].tab = tab

\* HandleWS, until it lets the connection in; and new WebSocket(...).  That the
\* old socket was closed is noticed by the service some time later.
Opens(p) ==
    /\ \/ \E c \in Conns :
             /\ IsFresh(c)
             /\ page' = [p EXCEPT !.conn = c, !.inbox = <<>>, !.stale = FALSE]
             /\ \/ /\ row.status # "expired" /\ IsFree(p.tab)
                   /\ presence' = c
                   /\ conn' = [conn EXCEPT ![c] = [tab |-> p.tab, step |-> "registered",
                                                   plays |-> Seated(row, me), read |-> ViewOf(row)]]
                \/ /\ row.status = "expired" \/ ~IsFree(p.tab)
                   /\ conn' = [conn EXCEPT ![c].step = "refused"] /\ UNCHANGED presence
       \/ /\ ~ \E c \in Conns : IsFresh(c)
          /\ page' = [p EXCEPT !.conn = 0, !.inbox = <<>>, !.stale = FALSE]
          /\ UNCHANGED <<conn, presence>>
    /\ UNCHANGED due

\* The page gives way to another one: its effects are cleaned up.  The game's
\* page opens the room's socket, too.
Away(p) == [AwayPage EXCEPT !.tab = p.tab]
Plays   == Opens([Away(page) EXCEPT !.at = "game"])

\* The page is opened, in the tab of before or in another one; getRoom's answer
\* opens the socket.
Enter ==
    /\ page.at = "away" /\ Seated(row, me)
    /\ \E tab \in {page.tab, page.tab + 1} :
          LET p == [AwayPage EXCEPT !.at = "room", !.tab = tab, !.view = ViewOf(row)]
          IN  /\ tab <= MaxTabs
              /\ \/ row.status = "playing" /\ Opens([p EXCEPT !.at = "game", !.view = NoView])
                 \/ row.status # "playing" /\ Opens(p)
    /\ UNCHANGED <<me, room, acts>>

\* The session's token is renewed: both effects run again.
Renew ==
    /\ page.at = "room"
    /\ Acts
    /\ Opens([page EXCEPT !.answer = ViewOf(row)])
    /\ UNCHANGED <<me, room>>

\* getRoom's answer, meanwhile.
LoadAnswered ==
    /\ page.answer # NoView
    /\ \/ page.answer.status = "playing" /\ Plays
       \/ /\ page.answer.status # "playing"
          /\ page' = [page EXCEPT !.answer = NoView, !.view = page.answer,
                                  !.stale = Hears /\ (@ \/ page.answer # ViewOf(row))]
          /\ UNCHANGED sockets
    /\ UNCHANGED <<me, room, acts>>

\* The socket breaks: the page does not notice.
Break ==
    /\ Hears
    /\ page' = [page EXCEPT !.conn = 0, !.inbox = <<>>, !.stale = FALSE]
    /\ UNCHANGED <<me, room, sockets, acts>>

\* The tab is closed, or shows another page.
GoAway ==
    /\ page.at # "away"
    /\ page' = Away(page)
    /\ UNCHANGED <<me, room, sockets, acts>>

-----------------------------------------------------------------------------
(***************************************************************************)
(* HandleWS, from there on.                                                *)
(***************************************************************************)
Step(c, step) == conn' = [conn EXCEPT ![c].step = step]

\* Mutant: the mark stays.
ReconnectedStillMarked(r, c) == [r EXCEPT !.conn = c]

\* MarkCreatorConnected, MarkOpponentConnected: a mark goes.
Reconnected(r, c) == [r EXCEPT !.conn = c, !.gone = @ \ {me}]

MarkConnected(c) ==
    /\ conn[c].step = "registered"
    /\ \/ /\ conn[c].plays /\ Seated(row, me)
          /\ row' = Reconnected(row, c)
          /\ conn' = [conn EXCEPT ![c].step = "marked", ![c].read = ViewOf(row')]
          /\ Publish(RoomEvent("reconnected", me, row'))
       \/ /\ ~(conn[c].plays /\ Seated(row, me))
          /\ Step(c, "marked") /\ UNCHANGED <<row, page>>
    /\ UNCHANGED <<me, sits, matches, presence, due, acts>>

\* The subscription, and room_state with the room as it was read before.
Subscribe(c) ==
    /\ conn[c].step = "marked"
    /\ conn' = [conn EXCEPT ![c].step = "open", ![c].read = NoView]
    /\ page' = IF page.at = "room" /\ page.conn = c
               THEN [page EXCEPT !.inbox = <<[Event("room_state", me) EXCEPT !.view = conn[c].read]>>,
                                 !.stale = conn[c].read # ViewOf(row)]
               ELSE page
    /\ UNCHANGED <<me, room, presence, due, acts>>

\* MarkCreatorDisconnected, MarkOpponentDisconnected: only the connection
\* that the row names.
Marks(c) == conn[c].plays /\ Seated(row, me) /\ row.conn = c

\* Mutant: no delayed close or release is scheduled.
SchedulesNone(c) == due

\* scheduleOwnerDisconnectClose, scheduleOpponentDisconnectRelease.
Schedules(c) == due \cup {c}

\* A socket has ended: after the handoff's grace the player is marked, and the
\* close or release scheduled; then the connection gives up its place.
Disconnected(c) ==
    /\ conn[c].step = "open" /\ page.conn # c
    /\ conn' = [conn EXCEPT ![c] = [NoConn EXCEPT !.step = "gone"]]
    /\ presence' = IF presence = c THEN 0 ELSE presence
    /\ \/ /\ Marks(c)
          /\ row' = [row EXCEPT !.gone = @ \cup {me}]
          /\ due' = Schedules(c)
          /\ Publish(Event("disconnected", me))
       \/ /\ ~Marks(c)
          /\ UNCHANGED <<row, due, page>>
    /\ UNCHANGED <<me, sits, matches, acts>>

Closed(r)  == [r EXCEPT !.status = "expired", !.conn = 0, !.gone = {}]
Vacated(r) == [r EXCEPT !.status = "waiting", !.seat = 0, !.gone = @ \ {Opponent},
                        !.conn = IF me = Opponent THEN 0 ELSE @]

\* What becomes of the room without u.
Without(r, u)  == IF u = Creator THEN Closed(r) ELSE Vacated(r)
Farewell(u, r) == IF u = Creator THEN Event("room_closed", u) ELSE RoomEvent("player_left", u, r)

\* Mutant: it does not ask whether the player is back.
IsOverdueAnyway(c) == Seated(row, me)

\* CloseRoomIfCreatorDisconnected, ReleaseOpponentIfDisconnected: the mark is
\* as old as the timeout only if it is this connection's.
IsOverdue(c) == Seated(row, me) /\ me \in row.gone /\ row.conn = c

PutOut(c) ==
    /\ c \in due
    /\ due' = due \ {c}
    /\ \/ /\ IsOverdue(c)
          /\ row' = Without(row, me)
          /\ Publish(Farewell(me, row'))
       \/ /\ ~IsOverdue(c)
          /\ UNCHANGED <<row, page>>
    /\ UNCHANGED <<me, sits, matches, conn, presence, acts>>

-----------------------------------------------------------------------------
(***************************************************************************)
(* The lifecycle of the room, on behalf of whoever asks the service for    *)
(* rooms (expireRoomsAndCleanup).  It publishes nothing when a room        *)
(* expires, nor when it closes the room of a creator who is gone.          *)
(***************************************************************************)
Lives == UNCHANGED <<me, sits, matches, sockets, acts>>

\* GetRoomByID, GetRoomByCode, ExpireRooms: past its expires_at.
Expires ==
    /\ row.status = "waiting" /\ row.seat = 0
    /\ row' = [row EXCEPT !.status = "expired"]
    /\ Untold /\ Lives

\* CloseRoomsWithExpiredCreatorDisconnect.
SweepCloses ==
    /\ row.status # "expired" /\ Creator \in row.gone
    /\ row' = Closed(row)
    /\ Untold /\ Lives

\* ReleaseRoomsWithExpiredOpponentDisconnect.  It looks for such rooms and writes
\* them in one step here: RoomRegistry has them apart.
SweepReleases ==
    /\ Seated(row, Opponent) /\ Opponent \in row.gone
    /\ row' = Vacated(row)
    /\ Publish(RoomEvent("player_left", Opponent, row'))
    /\ Lives

-----------------------------------------------------------------------------
(***************************************************************************)
(* The other player, and the match.                                        *)
(***************************************************************************)
Publishes(e) ==
    /\ Publish(e)
    /\ UNCHANGED <<me, sockets>>

OtherReconnects ==
    /\ Seated(row, Other) /\ Other \in row.gone
    /\ row' = [row EXCEPT !.gone = @ \ {Other}]
    /\ Publishes(RoomEvent("reconnected", Other, row'))
    /\ UNCHANGED <<sits, matches>>

OtherDisconnects ==
    /\ Seated(row, Other) /\ Other \notin row.gone
    /\ row' = [row EXCEPT !.gone = @ \cup {Other}]
    /\ Publishes(Event("disconnected", Other))
    /\ UNCHANGED <<sits, matches>>

\* LeaveRoom, or the delayed close or release; the creator may also close the
\* room.
OtherLeaves ==
    /\ Seated(row, Other)
    /\ row' = Without(row, Other)
    /\ Publishes(Farewell(Other, row'))
    /\ UNCHANGED <<sits, matches>>

\* JoinRoom.
Sits(r) == [r EXCEPT !.seat = sits']

OtherJoins ==
    /\ Other = Opponent
    /\ row.status = "waiting" /\ row.seat = 0 /\ sits' = sits + 1
    /\ row' = Sits(row)
    /\ Publishes(RoomEvent("player_joined", Other, row'))
    /\ UNCHANGED matches

\* promoteRoomWebSocketFromEvent: the socket that the newcomer had as a
\* spectator becomes the player's.
Promoted(c) == conn[c].step = "open" /\ ~conn[c].plays

\* The player joins from another page and enters next.
Join ==
    /\ me = Opponent /\ page.at = "away" /\ Acts
    /\ row.status = "waiting" /\ row.seat = 0 /\ sits' = sits + 1
    /\ \/ \E c \in Conns :
             /\ Promoted(c)
             /\ row' = Reconnected(Sits(row), c)
             /\ conn' = [conn EXCEPT ![c].plays = TRUE]
       \/ /\ ~ \E c \in Conns : Promoted(c)
          /\ row' = Sits(row) /\ UNCHANGED conn
    /\ UNCHANGED <<me, matches, presence, due, page>>

\* player_ready.
ReadyEvent(u, on) == [Event("player_ready", u) EXCEPT !.on = on]

OtherIsReady ==
    /\ Seated(row, Other) /\ row.status = "waiting"
    /\ \E on \in BOOLEAN : Publishes(ReadyEvent(Other, on))
    /\ UNCHANGED <<row, sits, matches>>

\* StartRoom: who is ready is not asked.
Startable(r) == r.status = "waiting" /\ r.seat # 0 /\ r.gone = {}
Started(r)   == [r EXCEPT !.status = "playing"]

Starts(u) ==
    /\ u = Creator /\ Startable(row)
    /\ matches' = matches + 1
    /\ row' = Started(row)
    /\ Publishes(RoomEvent("match_start", u, row'))
    /\ UNCHANGED sits

\* StartRematchRoom, when both have asked (MatchServer, GameClient): the marks go.
Replays ==
    /\ row.status = "finished" /\ row.seat # 0 /\ Acts
    /\ matches' = matches + 1
    /\ row' = [Started(row) EXCEPT !.gone = {}]
    /\ Publishes(RoomEvent("match_start", Creator, row'))
    /\ UNCHANGED sits

\* FinishRoom and match_finished.
Finish ==
    /\ row.status = "playing"
    /\ row' = [row EXCEPT !.status = "finished"]
    /\ Publishes(RoomEvent("match_finished", Creator, row'))
    /\ UNCHANGED <<sits, matches, acts>>

-----------------------------------------------------------------------------
(***************************************************************************)
(* What the page does with an event (ws.onmessage).                        *)
(***************************************************************************)
\* Mutant: it shows the room, and waits for match_start to leave it.
ShowsOnly(p, e) == [p EXCEPT !.view = e.view]

\* applyRoomUpdate.
Shows(p, e) == [p EXCEPT !.view = e.view, !.at = IF e.view.status = "playing" THEN "game" ELSE @]

OnPlayerLeft(p, e) == [Shows(p, e) EXCEPT !.ready = @ \ {Opponent}]

\* Mutant: the one who is back takes the error off the page only.
OnReconnectedOnly(p, e) == p

OnReconnected(p, e) == Shows(p, e)

OnDisconnected(p, e) ==
    [p EXCEPT !.view.gone = @ \cup {e.user},
              !.ready = IF e.user = Opponent THEN @ \ {Opponent} ELSE @]

OnMessage(p, e) ==
    CASE e.type \in {"room_state", "player_joined"} -> Shows(p, e)
      [] e.type = "reconnected"       -> OnReconnected(p, e)
      [] e.type = "disconnected"      -> OnDisconnected(p, e)
      [] e.type = "player_left"       -> OnPlayerLeft(p, e)
      [] e.type = "player_ready"      -> [p EXCEPT !.ready = IF e.on THEN @ \cup {e.user} ELSE @ \ {e.user}]
      [] e.type = "match_start"       -> [p EXCEPT !.view = e.view, !.at = "game"]
      [] e.type = "match_finished"    -> [p EXCEPT !.view = e.view, !.ready = {}]
      [] e.type = "room_closed"       -> [p EXCEPT !.at = "away"]

Deliver ==
    LET p == OnMessage([page EXCEPT !.inbox = Tail(@)], Head(page.inbox))
    IN  /\ Hears /\ page.inbox # <<>>
        /\ \/ p.at = "game" /\ Plays
           \/ p.at = "away" /\ page' = Away(p) /\ UNCHANGED sockets
           \/ p.at = "room" /\ page' = p /\ UNCHANGED sockets
        /\ UNCHANGED <<me, room, acts>>

-----------------------------------------------------------------------------
(***************************************************************************)
(* The page's buttons.  What they send is lost unless the socket is open.  *)
(***************************************************************************)
\* Not loading: the room is on the screen.
IsShown   == page.at = "room" /\ page.answer = NoView
TakesPart == me = Creator \/ page.view.seat # 0

\* Not between the opening of the socket and the first read of the service,
\* when a message would wait.
IsSettled == page.conn # 0 => conn[page.conn].step # "marked"

\* The button is there before a match, and on for those who are connected.
canToggleReady(p) == p.view.status \in {"waiting", "expired"} /\ me \notin p.view.gone

\* handleToggleReady, player_ready.
ToggleReady ==
    /\ IsShown /\ TakesPart /\ IsSettled
    /\ canToggleReady(page)
    /\ Acts
    /\ LET on == me \notin page.ready
           p  == [page EXCEPT !.ready = IF on THEN @ \cup {me} ELSE @ \ {me}]
       IN  \/ /\ Hears /\ Seated(row, me)
              /\ PublishFor(p, ReadyEvent(me, on))
           \/ /\ ~(Hears /\ Seated(row, me))
              /\ page' = p
    /\ UNCHANGED <<me, row, sits, matches, sockets>>

canStartMatch(p) == p.view.status = "waiting" /\ p.view.gone = {} /\ p.ready = Users

\* handleStartMatch.
StartMatch == IsShown /\ canStartMatch(page) /\ Hears /\ Starts(me) /\ UNCHANGED acts

\* handleLeaveRoom, and then the page goes home.
LeaveRoom ==
    /\ IsShown /\ TakesPart
    /\ page' = Away(page)
    /\ \/ Seated(row, me) /\ row' = Without(row, me)
       \/ ~Seated(row, me) /\ UNCHANGED row
    /\ UNCHANGED <<me, sits, matches, sockets, acts>>

\* The creator's button after a match.
canCloseRoom(p) == me = Creator /\ p.view.status = "finished"

\* handleCloseRoom, room_close_request.
CloseRoom ==
    /\ IsShown /\ canCloseRoom(page) /\ Hears
    /\ row.status # "expired"
    /\ row' = Closed(row)
    /\ Publishes(Event("room_closed", me))
    /\ UNCHANGED <<sits, matches, acts>>

-----------------------------------------------------------------------------
Serves(c) == MarkConnected(c) \/ Subscribe(c) \/ Disconnected(c) \/ PutOut(c)

OtherActs ==
    \/ Acts /\ (OtherReconnects \/ OtherDisconnects \/ OtherIsReady \/ OtherJoins)
    \/ (OtherLeaves \/ Starts(Other)) /\ UNCHANGED acts

Next ==
    \/ Enter \/ Renew \/ LoadAnswered \/ Break \/ GoAway
    \/ \E c \in Conns : Serves(c)
    \/ Expires \/ SweepCloses \/ SweepReleases
    \/ OtherActs \/ Join \/ Finish \/ Replays \/ Deliver
    \/ ToggleReady \/ StartMatch \/ LeaveRoom \/ CloseRoom

Spec == Init /\ [][Next]_vars

\* What is on its way arrives, and the service's goroutines run.  A connection
\* takes four steps at most: fairness to all of them is fairness to each.
Fairness ==
    /\ WF_vars(LoadAnswered) /\ WF_vars(Deliver)
    /\ WF_vars(\E c \in Conns : Serves(c))
FairSpec == Spec /\ Fairness

-----------------------------------------------------------------------------
(***************************************************************************)
(* Properties.                                                             *)
(***************************************************************************)
Statuses == {"waiting", "playing", "finished", "expired"}
Views == [status : Statuses, seat : 0 .. MaxActs, gone : SUBSET Users] \cup {NoView}

\* Types; the mark of the player is that of a connection which is gone.
TypeOK ==
    /\ row.status \in Statuses /\ row.seat \in 0 .. sits /\ row.conn \in 0 .. MaxConns
    /\ me \in row.gone => row.conn # 0 /\ conn[row.conn].step = "gone"
    /\ due \subseteq Conns
    /\ page.at \in {"away", "room", "game"} /\ page.tab \in 1 .. MaxTabs /\ page.conn \in 0 .. MaxConns
    /\ page.answer \in Views /\ page.view \in Views
    /\ page.ready \subseteq Users

\* Once the events on their way have come, an open page shows the room as it
\* is: who sits there, who is gone, and whether it waits, plays or is over; unless
\* the room has since expired, was closed by the sweep, or an event was dropped.
ViewAgrees ==
    Hears /\ page.inbox = <<>> /\ page.answer = NoView /\ ~page.stale => page.view = ViewOf(row)

\* While the connection that the row names is the page's, its player is not
\* put out by a delayed close or release, whichever of the player's earlier
\* connections end and when.
SparesConnected ==
    [][\A c \in due \ due' : Seated(row, me) /\ ~Seated(row', me) => page.conn # row.conn]_vars

\* A seat whose last connection is lost is freed, or taken again, in a room
\* without a rematch, which takes the marks away.
Deserted == Seated(row, me) /\ row.conn # 0 /\ page.conn # row.conn /\ matches < 2
SeatIsFreed == Deserted ~> ~Deserted

\* Once the match is on, a page that hears of it goes there: by match_start, or by
\* any later event with the whole room if that one was dropped.
Waits == Hears /\ ~page.stale /\ row.status = "playing"
PlayersReachTheGame == Waits ~> ~Waits
=============================================================================
