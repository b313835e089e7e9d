------------------------------ MODULE HomeFeed ------------------------------
(***************************************************************************)
(* The list of public rooms on the home page (HomePage.tsx), of which one  *)
(* room is followed here.  Whatever changes a room reads the list again    *)
(* and publishes it (handler.go: broadcastPublicRooms), a new socket is    *)
(* sent the list (ws_handler.go: HandlePublicRoomsWS) and the page may ask *)
(* for it over HTTP.  Each of these reads first and tells later, at its    *)
(* own pace.  How the rooms themselves change is in RoomRegistry.          *)
(***************************************************************************)
EXTENDS Naturals, Sequences, FiniteSets

CONSTANTS
    Creators,       \* who may have created the room; "me" is the user of the page
    MaxChanges,     \* bounds: changes of the room, broken sockets and visits together,
    MaxFetches      \* requests over HTTP

VARIABLES
    row,        \* the room; at counts its changes
    tellers,    \* broadcasts, and the snapshot for the page's new socket, on their way
    home        \* the page, its socket and its request

homeVars == <<row, tellers, home>>

Users == {"me", "you"}
Listed(r) ==
    IF r.status = "ended" THEN {}
    ELSE {[status |-> r.status, creator |-> r.creator, opponent |-> r.opponent,
           gone |-> r.gone]}

\* A list as it was read, with the number of the room's last change at the time.
ReadList == [at |-> row.at, list |-> Listed(row)]
Unread == [at |-> 0, list |-> {}]

Closed == [socket |-> "down", in |-> <<>>]
NewPage(r) ==
    [page |-> "home", socket |-> "down", in |-> <<>>, fetch |-> "none", answer |-> Unread,
     rooms |-> {}, last |-> 0, best |-> 0, lobbyError |-> FALSE]

HomeInit ==
    /\ row \in [status : {"waiting"}, creator : Creators, opponent : {"nobody"},
                gone : {{}}, at : {1}, quiet : {FALSE}, steps : {0}, fetches : {0}]
    /\ tellers = {}
    /\ home = NewPage(row)

----------------------------------------------------------------------------
(* The room and who tells of it.                                           *)

Set(r, status, opponent, gone) ==
    [r EXCEPT !.status = status, !.opponent = opponent, !.gone = gone, !.at = @ + 1]

\* The room after a player came or went, one's disconnection was marked or its mark cleared,
\* and the match began, was over or was played again.
Changed(r) ==
    LET open == r.status = "waiting" /\ r.opponent = "nobody"
        others == Users \ {r.creator}
        present == {r.creator, r.opponent} \ {"nobody"} IN
    (IF open THEN {Set(r, "waiting", u, r.gone) : u \in others} ELSE {})
    \union (IF r.opponent # "nobody"
            THEN {Set(r, "waiting", "nobody", r.gone \ {r.opponent})} ELSE {})
    \union {Set(r, r.status, r.opponent, g) : g \in {r.gone \union {u} : u \in present}
                                                 \union {r.gone \ {u} : u \in present}}
    \union (IF r.status = "waiting" /\ r.opponent # "nobody"
            THEN {Set(r, "playing", r.opponent, r.gone)} ELSE {})
    \union (IF r.status = "playing" THEN {Set(r, "finished", r.opponent, r.gone)} ELSE {})
    \union (IF r.status = "finished" THEN {Set(r, "playing", r.opponent, {})} ELSE {})
    \union {Set(r, "ended", r.opponent, r.gone)}

Teller(to, id) == [to |-> to, id |-> id, pc |-> "reads", found |-> Unread]

\* A change is followed by a broadcast, of its request, its socket or its timer.
ChangesTo(r) ==
    /\ row' = [r EXCEPT !.steps = @ + 1]
    /\ tellers' = tellers \union {Teller("all", r.at)}

RoomChanges ==
    /\ row.status # "ended"
    /\ row.steps < MaxChanges
    /\ \E r \in Changed(row) \ {Set(row, row.status, row.opponent, row.gone)} : ChangesTo(r)
    /\ UNCHANGED home

\* GetRoomByID finds the room overdue and expires it: nobody is told.
ExpiresUntold ==
    /\ row.status = "waiting" /\ row.opponent = "nobody"
    /\ row' = [row EXCEPT !.status = "ended", !.quiet = TRUE]
    /\ UNCHANGED <<tellers, home>>

ListPublicRooms(t) ==
    /\ t.pc = "reads"
    /\ tellers' = (tellers \ {t}) \union {[t EXCEPT !.pc = "tells", !.found = ReadList]}
    /\ UNCHANGED <<row, home>>

\* The page hears from its subscription on, and then of its own snapshot too.
Publish(t) ==
    /\ t.pc = "tells"
    /\ tellers' = tellers \ {t}
    /\ home' = IF home.socket = "up" THEN [home EXCEPT !.in = Append(@, t.found)] ELSE home
    /\ UNCHANGED row

----------------------------------------------------------------------------
(* The page's socket.                                                      *)

\* HandlePublicRoomsWS subscribes and then sends the list; a room that this expires is one of
\* RoomChanges.
connectRoomsWS ==
    /\ home.page = "home" /\ home.socket = "down"
    /\ home' = [home EXCEPT !.socket = "up"]
    /\ tellers' = tellers \union {Teller("me", row.steps)}
    /\ UNCHANGED row

WithoutSocket == {t \in tellers : t.to = "all"}

\* Also when the token is renewed: the effect opens another socket, and asks over HTTP.
BreakSocket ==
    /\ home.socket = "up"
    /\ row.steps < MaxChanges
    /\ row' = [row EXCEPT !.steps = @ + 1]
    /\ tellers' = WithoutSocket
    /\ home' = [home EXCEPT !.socket = "down", !.in = <<>>]

\* Mutant: without the disconnections.
sameRoomListButMarks(list, next) ==
    {[r EXCEPT !.gone = {}] : r \in list} = {[r EXCEPT !.gone = {}] : r \in next}

sameRoomList(list, next) == list = next

\* setRooms, of a list from the socket or from the request.
ShowsList(h, found) ==
    [h EXCEPT !.rooms = IF sameRoomList(@, found.list) THEN @ ELSE found.list,
              !.last = found.at,
              !.best = IF found.at > @ THEN found.at ELSE @]

Receive ==
    /\ home.in # <<>>
    /\ home' = [ShowsList(home, Head(home.in)) EXCEPT !.in = Tail(@)]
    /\ UNCHANGED <<row, tellers>>

----------------------------------------------------------------------------
(* The page's request: on its first render, and with the button Atualizar. *)

fetchRooms ==
    /\ home.page = "home" /\ home.fetch = "none"
    /\ row.fetches < MaxFetches
    /\ row' = [row EXCEPT !.fetches = @ + 1]
    /\ home' = [home EXCEPT !.fetch = "asked"]
    /\ UNCHANGED tellers

FetchIsServed ==
    /\ home.fetch = "asked"
    /\ home' = [home EXCEPT !.fetch = "served", !.answer = ReadList]
    /\ UNCHANGED <<row, tellers>>

FetchAnswered ==
    /\ \/ /\ home.fetch = "served"
          /\ home' = [ShowsList(home, home.answer) EXCEPT !.fetch = "none", !.answer = Unread]
       \/ /\ home.fetch \in {"asked", "served"}
          /\ home' = [home EXCEPT !.fetch = "none", !.answer = Unread]
    /\ UNCHANGED <<row, tellers>>

----------------------------------------------------------------------------
(* The buttons of the room, as the page knows it.                          *)

canPlay(room) == room.gone = {} /\ room.status = "waiting" /\ room.opponent = "nobody"
canReconnect(room) == "me" \in room.gone

\* Jogar gives way to Reconectar.
offersPlay(room) == canPlay(room) /\ ~canReconnect(room)

\* Mutant: the effect cleans nothing up.
LeavesOpen(h) == [h EXCEPT !.page = "room"]

\* The page goes, with its socket and whatever its request will find.
Leaves(h) == [NewPage(row) EXCEPT !.page = "room"]

\* handleJoinPublicRoom: the room may have changed since the page was told of it.
JoinRoom ==
    /\ \E room \in home.rooms : offersPlay(room)
    /\ IF row.status = "waiting" /\ row.opponent = "nobody" /\ row.creator # "me"
       THEN /\ row.steps < MaxChanges
            /\ row' = [Set(row, "waiting", "me", row.gone) EXCEPT !.steps = @ + 1]
            /\ tellers' = WithoutSocket \union {Teller("all", row'.at)}
            /\ home' = Leaves(home)
       ELSE /\ home' = [home EXCEPT !.lobbyError = TRUE]
            /\ UNCHANGED <<row, tellers>>

\* handleWatchPublicRoom, of Assistir and of Reconectar.
WatchRoom ==
    /\ home.rooms # {}
    /\ home' = Leaves(home)
    /\ tellers' = WithoutSocket
    /\ UNCHANGED row

Returns ==
    /\ home.page = "room"
    /\ row.steps < MaxChanges
    /\ row' = [row EXCEPT !.steps = @ + 1]
    /\ home' = NewPage(row)
    /\ UNCHANGED tellers

HomeNext ==
    \/ RoomChanges \/ ExpiresUntold
    \/ \E t \in tellers : ListPublicRooms(t) \/ Publish(t)
    \/ connectRoomsWS \/ BreakSocket \/ Receive
    \/ fetchRooms \/ FetchIsServed \/ FetchAnswered
    \/ JoinRoom \/ WatchRoom \/ Returns

HomeSpec == HomeInit /\ [][HomeNext]_homeVars

----------------------------------------------------------------------------
(* Properties.                                                             *)

HomeTypeOK ==
    /\ row.status \in {"waiting", "playing", "finished", "ended"}
    /\ row.gone \subseteq {row.creator, row.opponent}
    /\ row.opponent = "nobody" => row.status \in {"waiting", "ended"}
    /\ \A t \in tellers : t.found.at <= row.at
    /\ home.page = "room" => home.socket = "down" /\ home.rooms = {}
    /\ home.best <= row.at

\* With its socket open and nothing on the way, the page shows the room as it is, unless the
\* lists crossed and an older one came after the newest, or the room expired untold.
AtRest ==
    /\ home.socket = "up" /\ home.in = <<>> /\ home.fetch = "none"
    /\ tellers = {}
HomeIsFresh ==
    AtRest /\ ~row.quiet =>
        /\ home.best = row.at
        /\ home.last = home.best => home.rooms = Listed(row)
=============================================================================
