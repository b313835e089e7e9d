-------------------------- MODULE GameClientProofs --------------------------
(***************************************************************************)
(* Theorems about GameClient.  For all bounds and all mishaps: the order   *)
(* of the snapshots, which GamePage and SnookerMatch each have a copy of,  *)
(* is a strict order; what GamePage accepts, SnookerMatch shows.  For all  *)
(* bounds and the mishaps "gap" and "oneShot": whoever aims looks at the   *)
(* lobby's table, a shot is played once, on the table that the shooter     *)
(* saw, and shots of others begin on tables that were shown.               *)
(***************************************************************************)
EXTENDS GameClient, TLAPS

\* GamePage and SnookerMatch compare versions each on its own and forget the last one each on
\* its own, at another moment: what the one takes, the other shows at the next render, unless
\* a later shot has begun here.
AcceptedIsShown ==
    view = next /\ view.page = "match" /\ view.snap # NoSnap
    => \/ refs.shown = Version(view.snap)
       \/ view.snap.shot < refs.shotSeq

-----------------------------------------------------------------------------
(***************************************************************************)
(* The inductive invariant: types, ...                                     *)
(***************************************************************************)
Phases == {"aiming", "moving", "finished"}
LobbySnaps ==
    [match : Nat, shot : Nat, turn : Nat, at : Nat, player : Players, status : Phases,
     balls : Seq(Nat)]
Snaps    == LobbySnaps \cup {NoSnap}
Versions == [shot : Int, turn : Nat, at : Nat, status : Phases \cup {"none"}]
Shots    == [match : Nat, seq : Nat, shooter : Players]
RoomStatuses == {"unknown", "waiting", "playing", "finished", "expired"}
Rooms    == [status : RoomStatuses, gone : BOOLEAN]

\* A message to the browser; a game_state_sync has a snapshot of the lobby.
EventTypes ==
    {"room_state", "player_disconnected", "player_reconnected", "player_left", "room_closed",
     "match_start", "match_finished", "rematch_requested", "shot_started", "turn_timeout"}
InMessages ==
    [type : EventTypes \cup {"game_state_sync"}, snap : Snaps, shot : Shots, room : Rooms]
Fits(m) == m \in InMessages /\ (m.type = "game_state_sync" => m.snap \in LobbySnaps)
Fitting(msgs) == msgs \in Seq(InMessages) /\ \A i \in 1 .. Len(msgs) : Fits(msgs[i])

OutTypes == {"request_game_state", "shot_started", "shot_result_submitted", "rematch_request"}
OutMessages == [type : OutTypes, seq : Nat, balls : Seq(Nat)]

ServerTyped(s) ==
    s \in [room : RoomStatuses, gone : BOOLEAN, asked : BOOLEAN, snap : LobbySnaps,
           read : SUBSET [by : Players, snap : LobbySnaps], breaks : Nat, unheard : BOOLEAN]

LinkTyped(l) ==
    /\ l \in [st : {"none", "opening", "open", "retry", "dead"}, sub : {"none", "greeted", "on"},
              greeting : Rooms, in : Seq(InMessages), out : Seq(OutMessages), mine : Nat]
    /\ Fitting(l.in)

States ==
    [page : {"loading", "match", "left", "error"}, room : Rooms, snap : Snaps, shot : Shots,
     summary : BOOLEAN, asked : BOOLEAN, fresh : SUBSET {"reset", "snap", "shot"},
     aiming : BOOLEAN, animating : BOOLEAN,
     shotId : Nat, turn : Players,
     status : {"aiming", "striking", "moving", "finished", "none"}]
RefRecords ==
    [accepted : Versions, shown : Versions, shotSeq : Nat, lastShot : Nat, pending : Shots,
     balls : Seq(Nat), report : Shots]
Pairs == [n : States, r : RefRecords]

Typed ==
    /\ ServerTyped(server)
    /\ LinkTyped(link)
    /\ next \in States /\ view \in States
    /\ refs \in RefRecords

(***************************************************************************)
(* ... and where the two versions are in relation to each other.           *)
(***************************************************************************)
NotAfter(v, w) == v = w \/ isNewerSnapshot(w, v)

ShownOf(n, r) == n.snap = NoSnap \/ r.shown = Version(n.snap) \/ n.snap.shot < r.shotSeq

FilterInv ==
    /\ view.fresh = {}
    /\ refs.accepted = Version(next.snap)
    /\ view.page = "match" =>
        /\ "reset" \notin next.fresh => NotAfter(refs.shown, refs.accepted)
        /\ "reset" \in next.fresh => next.snap = NoSnap \/ "snap" \in next.fresh
        /\ "reset" \notin next.fresh /\ "snap" \notin next.fresh => ShownOf(next, refs)

-----------------------------------------------------------------------------
(***************************************************************************)
(* The order of the versions.                                              *)
(***************************************************************************)
LEMMA RankTyped == ASSUME NEW status PROVE snapshotStatusRank(status) \in 0 .. 4
BY DEF snapshotStatusRank

LEMMA RankTells ==
    ASSUME NEW a \in Phases \cup {"none"}, NEW b \in Phases \cup {"none"},
           snapshotStatusRank(a) = snapshotStatusRank(b)
    PROVE  a = b
BY DEF snapshotStatusRank, Phases

LEMMA NewerIsTransitive ==
    ASSUME NEW u \in Versions, NEW v \in Versions, NEW w \in Versions,
           isNewerSnapshot(v, u), isNewerSnapshot(w, v)
    PROVE  isNewerSnapshot(w, u)
<1> DEFINE rank(x) == snapshotStatusRank(x.status)
<1>1. rank(u) \in Int /\ rank(v) \in Int /\ rank(w) \in Int
  BY RankTyped
<1>2. /\ u.shot \in Int /\ v.shot \in Int /\ w.shot \in Int
      /\ u.turn \in Int /\ v.turn \in Int /\ w.turn \in Int
      /\ u.at \in Int /\ v.at \in Int /\ w.at \in Int
  BY DEF Versions
<1> QED BY <1>1, <1>2, SMT DEF isNewerSnapshot

\* Of two different versions exactly one is the newer: the browser never takes two snapshots
\* for each newer than the other, nor one that it has for newer than itself.
THEOREM OneIsNewer ==
    ASSUME NEW v \in Versions, NEW w \in Versions
    PROVE  /\ ~isNewerSnapshot(v, v)
           /\ ~(isNewerSnapshot(v, w) /\ isNewerSnapshot(w, v))
           /\ v # w => isNewerSnapshot(v, w) \/ isNewerSnapshot(w, v)
<1> DEFINE rank(x) == snapshotStatusRank(x.status)
<1>1. rank(v) \in Int /\ rank(w) \in Int
  BY RankTyped
<1>2. /\ v.shot \in Int /\ w.shot \in Int /\ v.turn \in Int /\ w.turn \in Int
      /\ v.at \in Int /\ w.at \in Int
  BY DEF Versions
<1>3. ~isNewerSnapshot(v, v) /\ ~(isNewerSnapshot(v, w) /\ isNewerSnapshot(w, v))
  BY <1>1, <1>2, SMT DEF isNewerSnapshot
<1>4. ASSUME ~isNewerSnapshot(v, w), ~isNewerSnapshot(w, v) PROVE v = w
  <2>1. v.shot = w.shot /\ v.turn = w.turn /\ v.at = w.at /\ rank(v) = rank(w)
    BY <1>1, <1>2, <1>4, SMT DEF isNewerSnapshot
  <2>2. v.status = w.status
    BY <2>1, RankTells DEF Versions
  <2> QED BY <2>1, <2>2 DEF Versions
<1> QED BY <1>3, <1>4

LEMMA NotAfterNewer ==
    ASSUME NEW u \in Versions, NEW v \in Versions, NEW w \in Versions,
           NotAfter(u, v), isNewerSnapshot(w, v)
    PROVE  NotAfter(u, w)
BY NewerIsTransitive DEF NotAfter

LEMMA VersionTyped == ASSUME NEW s \in Snaps PROVE Version(s) \in Versions
BY DEF Version, Snaps, LobbySnaps, NoSnap, Snap, Versions, Phases

\* A snapshot of the lobby is newer than none, and compared as its version is.
LEMMA LobbyIsNewer ==
    ASSUME NEW s \in LobbySnaps
    PROVE  /\ s # NoSnap
           /\ isNewerSnapshot(Version(s), NoVersion)
           /\ \A v \in Versions : isNewerSnapshot(s, v) <=> isNewerSnapshot(Version(s), v)
<1>1. s.shot \in Nat /\ NoSnap.shot = -1 /\ NoVersion.shot = -1
  BY DEF LobbySnaps, NoSnap, Snap, NoVersion, Version
<1>2. Version(s).shot = s.shot /\ Version(s).turn = s.turn /\ Version(s).at = s.at
      /\ Version(s).status = s.status
  BY DEF Version
<1>3. s # NoSnap
  BY <1>1
<1>4. isNewerSnapshot(Version(s), NoVersion)
  BY <1>1, <1>2 DEF isNewerSnapshot
<1>5. ASSUME NEW v \in Versions PROVE isNewerSnapshot(s, v) <=> isNewerSnapshot(Version(s), v)
  BY <1>2 DEF isNewerSnapshot
<1> QED BY <1>3, <1>4, <1>5

-----------------------------------------------------------------------------
(***************************************************************************)
(* Types.                                                                  *)
(***************************************************************************)
LEMMA Constants == Me \in Players /\ Other \in Players /\ Creator \in Players
BY ClientAssumption DEF Players

LEMMA NothingTyped ==
    /\ NoSnap \in Snaps /\ NoShot \in Shots /\ NoRoom \in Rooms /\ NoVersion \in Versions
    /\ EmptyPage \in States /\ EmptyRefs \in RefRecords
<1>1. NoSnap \in Snaps /\ NoShot \in Shots /\ NoRoom \in Rooms
  BY Constants DEF Snaps, NoShot, Shot, Shots, NoRoom, Room, Rooms, RoomStatuses
<1>2. NoVersion \in Versions
  BY <1>1, VersionTyped DEF NoVersion
<1>3. EmptyPage \in States
  BY <1>1, Constants DEF EmptyPage, States
<1>4. EmptyRefs \in RefRecords
  BY <1>1, <1>2 DEF EmptyRefs, RefRecords
<1> QED BY <1>1, <1>2, <1>3, <1>4

LEMMA EmptyFits == Fitting(<<>>)
BY DEF Fitting

LEMMA NoLinkTyped == LinkTyped(NoLink)
BY NothingTyped, EmptyFits DEF LinkTyped, NoLink

LEMMA MessagesFit ==
    /\ \A s \in LobbySnaps : Fits(GameStateSync(s))
    /\ \A shot \in Shots : Fits(ShotStarted(shot))
    /\ \A r \in Rooms, type \in EventTypes : Fits(RoomEvent(type, r))
    /\ Fits(Message("turn_timeout", NoSnap, NoShot, NoRoom))
<1> USE NothingTyped DEF Fits, InMessages, Message, EventTypes
<1>1. \A s \in LobbySnaps : Fits(GameStateSync(s))
  BY DEF GameStateSync, Snaps
<1>2. \A shot \in Shots : Fits(ShotStarted(shot))
  BY DEF ShotStarted
<1>3. \A r \in Rooms, type \in EventTypes : Fits(RoomEvent(type, r))
  BY DEF RoomEvent
<1>4. Fits(Message("turn_timeout", NoSnap, NoShot, NoRoom))
  OBVIOUS
<1> QED BY <1>1, <1>2, <1>3, <1>4

LEMMA OneFits == ASSUME NEW m, Fits(m) PROVE Fitting(<<m>>)
BY DEF Fitting, Fits

LEMMA TwoFit == ASSUME NEW m, NEW k, Fits(m), Fits(k) PROVE Fitting(<<m, k>>)
<1>1. <<m, k>> \in Seq(InMessages) /\ Len(<<m, k>>) = 2
  BY DEF Fits
<1>2. \A i \in 1 .. 2 : Fits(<<m, k>>[i])
  OBVIOUS
<1> QED BY <1>1, <1>2 DEF Fitting

LEMMA JoinedFit == ASSUME NEW a, NEW b, Fitting(a), Fitting(b) PROVE Fitting(a \o b)
<1>1. a \o b \in Seq(InMessages) /\ Len(a \o b) = Len(a) + Len(b)
  BY DEF Fitting
<1>2. ASSUME NEW i \in 1 .. Len(a \o b) PROVE Fits((a \o b)[i])
  <2>1. Len(a) \in Nat /\ Len(b) \in Nat
    BY DEF Fitting
  <2>2. CASE i <= Len(a)
    BY <1>1, <2>1, <2>2 DEF Fitting
  <2>3. CASE i > Len(a)
    <3>1. i - Len(a) \in 1 .. Len(b) /\ (a \o b)[i] = b[i - Len(a)]
      BY <1>1, <2>1, <2>3 DEF Fitting
    <3> QED BY <3>1 DEF Fitting
  <2> QED BY <2>1, <2>2, <2>3
<1> QED BY <1>1, <1>2 DEF Fitting

LEMMA RestFits ==
    ASSUME NEW a, Fitting(a), a # <<>>
    PROVE  Fits(Head(a)) /\ Fitting(Tail(a))
<1>1. Head(a) = a[1] /\ 1 \in 1 .. Len(a) /\ Tail(a) \in Seq(InMessages)
  BY DEF Fitting
<1>2. ASSUME NEW i \in 1 .. Len(Tail(a)) PROVE Fits(Tail(a)[i])
  <2>1. i + 1 \in 1 .. Len(a) /\ Tail(a)[i] = a[i + 1]
    BY DEF Fitting
  <2> QED BY <2>1 DEF Fitting
<1> QED BY <1>1, <1>2 DEF Fitting

LEMMA PublishedTyped ==
    ASSUME NEW l, LinkTyped(l), NEW msgs, Fitting(msgs)
    PROVE  LinkTyped(Published(l, msgs))
<1>1. Fitting(l.in \o msgs)
  BY JoinedFit DEF LinkTyped
<1>2. l.in \o msgs \in Seq(InMessages)
  BY <1>1 DEF Fitting
<1> QED BY <1>1, <1>2 DEF LinkTyped, Published

LEMMA ActsTyped ==
    ASSUME Typed, NEW msgs, Fitting(msgs), Acts(msgs), ServerTyped(server')
    PROVE  Typed'
BY PublishedTyped DEF Typed, Acts, browser

LEMMA ServesTyped ==
    ASSUME Typed, NEW type, NEW msgs, Fitting(msgs), Serves(type, msgs), ServerTyped(server')
    PROVE  Typed'
<1> DEFINE l == Published(link, msgs)
<1>1. LinkTyped(l)
  BY PublishedTyped DEF Typed
<1>2. Tail(link.out) \in Seq(OutMessages) /\ l.out = link.out /\ link.mine \in Nat
      /\ l.mine = link.mine
  BY DEF Typed, LinkTyped, Published, Serves
<1>3. server'.snap.shot \in Nat
  BY DEF ServerTyped, LobbySnaps
<1> HIDE DEF l
<1>4. LinkTyped(link')
  BY <1>1, <1>2, <1>3 DEF Serves, LinkTyped, l
<1> QED BY <1>4 DEF Serves, Typed, browser

-----------------------------------------------------------------------------
(***************************************************************************)
(* Types: the lobby's steps.                                               *)
(***************************************************************************)
LEMMA SnapsTyped ==
    ASSUME NEW s \in LobbySnaps
    PROVE  /\ [s EXCEPT !.at = 1] \in LobbySnaps
           /\ Passed(s) \in LobbySnaps
           /\ Started(s) \in LobbySnaps
           /\ \A balls \in Seq(Nat) : Won(s, balls) \in LobbySnaps
           /\ \A balls \in Seq(Nat) : Ended(s, balls) \subseteq LobbySnaps
<1>1. \A p \in Players : Opposite(p) \in Players
  BY Constants DEF Opposite
<1>2. s.player \in Players /\ s.turn + 1 \in Nat /\ s.shot + 1 \in Nat
  BY DEF LobbySnaps
<1>3. [s EXCEPT !.at = 1] \in LobbySnaps
  BY DEF LobbySnaps
<1>4. Passed(s) \in LobbySnaps
  BY <1>1, <1>2 DEF LobbySnaps, Passed, Phases
<1>5. Started(s) \in LobbySnaps
  BY <1>2 DEF LobbySnaps, Started, Phases
<1>6. ASSUME NEW balls \in Seq(Nat)
      PROVE  Won(s, balls) \in LobbySnaps /\ Ended(s, balls) \subseteq LobbySnaps
  <2>1. Won(s, balls) \in LobbySnaps
    BY DEF LobbySnaps, Won, Phases
  <2>2. [Passed(s) EXCEPT !.balls = balls] \in LobbySnaps
    BY <1>4 DEF LobbySnaps
  <2>3. [s EXCEPT !.status = "aiming", !.turn = @ + 1, !.at = 0, !.balls = balls] \in LobbySnaps
    BY <1>2 DEF LobbySnaps, Phases
  <2> QED BY <2>1, <2>2, <2>3 DEF Ended
<1> QED BY <1>3, <1>4, <1>5, <1>6

LEMMA FirstTyped == ASSUME NEW n \in Nat PROVE FirstSnap(n) \in LobbySnaps
BY Constants DEF FirstSnap, Snap, LobbySnaps, Phases

LEMMA ActiveTyped ==
    ASSUME NEW s \in LobbySnaps
    PROVE  Shot(s.match, s.shot, s.player) \in Shots
BY DEF Shot, Shots, LobbySnaps

LEMMA InitTyped == Init => Typed
<1> SUFFICES ASSUME Init PROVE Typed
  OBVIOUS
<1>1. FirstSnap(1) \in LobbySnaps
  BY FirstTyped
<1>2. ServerTyped(server)
  BY <1>1 DEF Init, ServerTyped, RoomStatuses
<1> QED BY <1>2, NoLinkTyped, NothingTyped DEF Init, Typed

\* A break is counted, and whether the end of the match went unheard is kept.
LEMMA CountedTyped ==
    ASSUME ServerTyped(server), NEW told \in BOOLEAN,
           server' = [server EXCEPT !.breaks = @ + 1, !.unheard = told]
    PROVE  ServerTyped(server') /\ server'.snap = server.snap /\ server'.room = server.room
                                /\ server'.gone = server.gone /\ server'.read = server.read
                                /\ server'.asked = server.asked
<1> DEFINE n == server.breaks + 1
<1>1. n \in Nat
  BY DEF ServerTyped
<1>2. server' = [server EXCEPT !.breaks = n, !.unheard = told]
  BY DEF ServerTyped
<1> HIDE DEF n
<1> QED BY <1>1, <1>2 DEF ServerTyped

LEMMA EndLostTyped ==
    ASSUME ServerTyped(server)
    PROVE  (server.unheard \/ EndLost) \in BOOLEAN
BY DEF EndLost

LEMMA LobbyTyped == ASSUME Typed, Lobby PROVE Typed'
<1> USE DEF Typed
<1>a. /\ ServerTyped(server) /\ server.snap \in LobbySnaps
      /\ server.read \in SUBSET [by : Players, snap : LobbySnaps] /\ server.breaks \in Nat
  BY DEF ServerTyped
<1>b. server.snap.match \in Nat
  BY <1>a DEF LobbySnaps
<1>0. /\ server.snap \in LobbySnaps /\ ServerTyped(server)
      /\ server.read \subseteq [by : Players, snap : LobbySnaps]
      /\ server.breaks + 1 \in Nat /\ server.snap.match + 1 \in Nat
  BY <1>a, <1>b
<1>1. ASSUME ServerTyped(server') PROVE ServerRoom' \in Rooms /\ ActiveShot' \in Shots
                                        /\ server'.snap \in LobbySnaps
  BY <1>1, ActiveTyped DEF ServerTyped, ServerRoom, ActiveShot, Room, Rooms
<1>2. CASE StartClock
  <2>1. ServerTyped(server')
    BY <1>0, <1>2, SnapsTyped DEF StartClock, ServerTyped
  <2> QED BY <1>1, <1>2, <2>1, MessagesFit, OneFits, ActsTyped DEF StartClock
<1>3. CASE TurnTimeout
  <2>1. ServerTyped(server')
    BY <1>0, <1>3, SnapsTyped DEF TurnTimeout, ServerTyped
  <2> QED BY <1>1, <1>3, <2>1, MessagesFit, TwoFit, ActsTyped DEF TurnTimeout
<1>4. CASE OtherShoots
  <2>1. ServerTyped(server')
    BY <1>0, <1>4, SnapsTyped DEF OtherShoots, ServerTyped
  <2> QED BY <1>1, <1>4, <2>1, MessagesFit, OneFits, ActsTyped DEF OtherShoots
<1>5. CASE ShotTimeout
  <2>1. ServerTyped(server')
    BY <1>0, <1>5, SnapsTyped DEF ShotTimeout, ServerTyped
  <2> QED BY <1>1, <1>5, <2>1, MessagesFit, OneFits, ActsTyped DEF ShotTimeout
<1>6. CASE OtherResult
  <2> DEFINE balls == Append(server.snap.balls, server.snap.shot)
  <2>1. balls \in Seq(Nat)
    BY <1>0 DEF LobbySnaps
  <2> HIDE DEF balls
  <2>2. CASE /\ \E s \in Ended(server.snap, balls) : server' = [server EXCEPT !.snap = s]
             /\ Acts(<<GameStateSync(server'.snap)>>)
    <3>1. ServerTyped(server')
      BY <1>0, <2>1, <2>2, SnapsTyped DEF ServerTyped
    <3> QED BY <1>1, <2>2, <3>1, MessagesFit, OneFits, ActsTyped
  <2>3. CASE /\ server' = [server EXCEPT !.snap = Won(@, balls), !.room = "finished",
                                         !.unheard = Unheard]
             /\ Acts(<<GameStateSync(server'.snap), MatchFinished>>)
    <3>1. ServerTyped(server')
      <4> DEFINE told == Unheard
      <4>1. told \in BOOLEAN
        BY DEF Unheard
      <4>2. Won(server.snap, balls) \in LobbySnaps
        BY <1>0, <2>1, SnapsTyped
      <4>3. server' = [server EXCEPT !.snap = Won(server.snap, balls), !.room = "finished",
                                     !.unheard = told]
        BY <1>0, <2>3 DEF ServerTyped
      <4> HIDE DEF told
      <4> QED BY <1>0, <4>1, <4>2, <4>3 DEF ServerTyped, RoomStatuses
    <3>2. Fits(MatchFinished)
      BY <1>0, MessagesFit DEF MatchFinished, ServerTyped, Room, Rooms, RoomStatuses, EventTypes
    <3> QED BY <1>1, <2>3, <3>1, <3>2, MessagesFit, TwoFit, ActsTyped
  <2> QED BY <1>6, <2>2, <2>3 DEF OtherResult, balls
<1>7. CASE Rematch
  <2>1. ServerTyped(server')
    BY <1>0, <1>7, FirstTyped DEF Rematch, ServerTyped, RoomStatuses
  <2> QED BY <1>1, <1>7, <2>1, MessagesFit, TwoFit, ActsTyped DEF Rematch, EventTypes
<1>8. CASE OtherGone
  <2>1. ServerTyped(server')
    BY <1>0, <1>8 DEF OtherGone, ServerTyped
  <2> QED BY <1>8, <2>1, NothingTyped, MessagesFit, OneFits, ActsTyped DEF OtherGone, EventTypes
<1>9. CASE OtherBack
  <2>1. ServerTyped(server')
    BY <1>0, <1>9 DEF OtherBack, ServerTyped
  <2> QED BY <1>1, <1>9, <2>1, MessagesFit, OneFits, ActsTyped DEF OtherBack, EventTypes
<1>10. CASE OtherRequests
  <2>1. Read(Other) \in [by : Players, snap : LobbySnaps]
    BY <1>0, Constants DEF Read
  <2>2. ServerTyped(server')
    BY <1>0, <1>10, <2>1 DEF OtherRequests, ServerTyped
  <2> QED BY <1>10, <2>2, EmptyFits, ActsTyped DEF OtherRequests
<1>11. CASE PublishRead
  <2>1. PICK r \in server.read :
            /\ server' = [server EXCEPT !.read = @ \ {r}]
            /\ Acts(IF r.snap.status = "moving"
                    THEN <<GameStateSync(r.snap),
                           ShotStarted(Shot(r.snap.match, r.snap.shot, r.snap.player))>>
                    ELSE <<GameStateSync(r.snap)>>)
    BY <1>11 DEF PublishRead
  <2>2. r.snap \in LobbySnaps
    BY <1>0
  <2>3. ServerTyped(server')
    BY <1>0, <2>1 DEF ServerTyped
  <2>4. Fits(GameStateSync(r.snap))
        /\ Fits(ShotStarted(Shot(r.snap.match, r.snap.shot, r.snap.player)))
    BY <2>2, ActiveTyped, MessagesFit
  <2>5. CASE r.snap.status = "moving"
    BY <2>1, <2>3, <2>4, <2>5, TwoFit, ActsTyped
  <2>6. CASE r.snap.status # "moving"
    BY <2>1, <2>3, <2>4, <2>6, OneFits, ActsTyped
  <2> QED BY <2>5, <2>6
<1>12. CASE RoomEnds
  <2>1. ServerTyped(server')
    BY <1>0, <1>12 DEF RoomEnds, ServerTyped, RoomStatuses
  <2>2. Fits(RoomEvent("player_left", ServerRoom')) /\ Fits(RoomEvent("room_closed", NoRoom))
    BY <1>1, <2>1, NothingTyped, MessagesFit DEF EventTypes
  <2> QED BY <1>12, <2>1, <2>2, OneFits, ActsTyped DEF RoomEnds
<1> QED BY <1>2, <1>3, <1>4, <1>5, <1>6, <1>7, <1>8, <1>9, <1>10, <1>11, <1>12 DEF Lobby

LEMMA ServeTyped == ASSUME Typed, Serve PROVE Typed'
<1> USE DEF Typed
<1>1. /\ ServerTyped(server) /\ server.snap \in LobbySnaps /\ server.gone \in BOOLEAN
      /\ server.read \in SUBSET [by : Players, snap : LobbySnaps]
  BY DEF ServerTyped
<1>2. ASSUME ServerTyped(server') PROVE ActiveShot' \in Shots /\ server'.snap \in LobbySnaps
  BY <1>2, ActiveTyped DEF ServerTyped, ActiveShot
<1>3. CASE RequestGameState
  <2>1. Read(Me) \in [by : Players, snap : LobbySnaps]
    BY <1>1, Constants DEF Read
  <2>2. ServerTyped(server')
    BY <1>1, <1>3, <2>1 DEF RequestGameState, ServerTyped
  <2> QED BY <1>3, <2>2, EmptyFits, ServesTyped DEF RequestGameState
<1>4. CASE ServeShot
  <2>1. CASE /\ server' = [server EXCEPT !.snap = Started(@)]
             /\ Serves("shot_started", <<ShotStarted(ActiveShot')>>)
    <3>1. ServerTyped(server')
      BY <1>1, <2>1, SnapsTyped DEF ServerTyped
    <3> QED BY <1>2, <2>1, <3>1, MessagesFit, OneFits, ServesTyped
  <2>2. CASE Serves("shot_started", <<>>) /\ UNCHANGED server
    BY <1>1, <2>2, EmptyFits, ServesTyped
  <2> QED BY <1>4, <2>1, <2>2 DEF ServeShot
<1>5. CASE ServeResult
  <2> DEFINE r == Head(link.out)
  <2>1. r.balls \in Seq(Nat)
    <3>1. link.out # <<>> /\ link.out \in Seq(OutMessages)
      BY <1>5 DEF ServeResult, LinkTyped
    <3>2. r \in OutMessages
      BY <3>1
    <3> QED BY <3>2 DEF OutMessages
  <2> HIDE DEF r
  <2>2. CASE /\ \E s \in Ended(server.snap, r.balls) : server' = [server EXCEPT !.snap = s]
             /\ Serves("shot_result_submitted", <<GameStateSync(server'.snap)>>)
    <3>1. ServerTyped(server')
      BY <1>1, <2>1, <2>2, SnapsTyped DEF ServerTyped
    <3> QED BY <1>2, <2>2, <3>1, MessagesFit, OneFits, ServesTyped
  <2>3. CASE /\ server' = [server EXCEPT !.snap = Won(@, r.balls), !.room = "finished"]
             /\ Serves("shot_result_submitted", <<GameStateSync(server'.snap), MatchFinished>>)
    <3>1. ServerTyped(server')
      BY <1>1, <2>1, <2>3, SnapsTyped DEF ServerTyped, RoomStatuses
    <3>2. Fits(MatchFinished)
      BY <1>1, MessagesFit DEF MatchFinished, Room, Rooms, RoomStatuses, EventTypes
    <3> QED BY <1>2, <2>3, <3>1, <3>2, MessagesFit, TwoFit, ServesTyped
  <2>4. CASE Serves("shot_result_submitted", <<>>) /\ UNCHANGED server
    BY <1>1, <2>4, EmptyFits, ServesTyped
  <2> QED BY <1>5, <2>2, <2>3, <2>4 DEF ServeResult, r
<1>6. CASE ServeRematch
  <2>1. ServerTyped(server')
    BY <1>1, <1>6 DEF ServeRematch, ServerTyped
  <2>2. Fitting(<<RoomEvent("rematch_requested", NoRoom)>>)
    BY NothingTyped, MessagesFit, OneFits DEF EventTypes
  <2> QED BY <1>6, <2>1, <2>2, EmptyFits, ServesTyped DEF ServeRematch
<1> QED BY <1>3, <1>4, <1>5, <1>6 DEF Serve

-----------------------------------------------------------------------------
(***************************************************************************)
(* Types: the socket and the page.                                         *)
(***************************************************************************)
LEMMA EmptyOut == <<>> \in Seq(OutMessages) /\ <<Asks("request_game_state")>> \in Seq(OutMessages)
<1>1. Asks("request_game_state") \in OutMessages
  BY DEF Asks, OutMessages, OutTypes
<1> QED BY <1>1

LEMMA SentTyped ==
    ASSUME Typed, NEW m \in OutMessages, sendWS(m)
    PROVE  LinkTyped(link')
<1>1. Append(link.out, m) \in Seq(OutMessages)
  BY DEF Typed, LinkTyped
<1> QED BY <1>1 DEF sendWS, Typed, LinkTyped

LEMMA ServerRoomTyped == ASSUME Typed PROVE ServerRoom \in Rooms
BY DEF Typed, ServerTyped, ServerRoom, Room, Rooms

LEMMA SocketTyped == ASSUME Typed, Socket PROVE Typed'
<1> USE DEF Typed
<1>1. NoLink \in [st : {"none", "opening", "open", "retry", "dead"},
                  sub : {"none", "greeted", "on"}, greeting : Rooms, in : Seq(InMessages),
                  out : Seq(OutMessages), mine : Nat]
      /\ Fitting(NoLink.in) /\ NoLink.in = <<>>
  BY NoLinkTyped DEF LinkTyped, NoLink
<1>2. CASE Connect
  <2>1. LinkTyped(link')
    BY <1>1, <1>2 DEF Connect, LinkTyped
  <2> QED BY <1>2, <2>1 DEF Connect, browser
<1>3. CASE Opened
  <2>1. LinkTyped(link')
    BY <1>3, EmptyOut DEF Opened, LinkTyped
  <2> QED BY <1>3, <2>1 DEF Opened, browser
<1>4. CASE Greet
  <2>1. LinkTyped(link')
    BY <1>4, ServerRoomTyped DEF Greet, LinkTyped
  <2> QED BY <1>4, <2>1 DEF Greet, browser
<1>5. CASE Subscribe
  <2>1. link.greeting \in Rooms
    BY DEF LinkTyped
  <2>2. Fitting(<<RoomEvent("room_state", link.greeting)>>)
    BY <2>1, MessagesFit, OneFits DEF EventTypes
  <2>3. <<RoomEvent("room_state", link.greeting)>> \in Seq(InMessages)
    BY <2>2 DEF Fitting
  <2>4. LinkTyped(link')
    BY <1>5, <2>2, <2>3, NothingTyped DEF Subscribe, LinkTyped
  <2> QED BY <1>5, <2>4 DEF Subscribe, browser
<1>6. CASE Break
  <2>1. LinkTyped(link')
    BY <1>1, <1>6 DEF Break, LinkTyped
  <2>2. ServerTyped(server')
    BY <1>6, EndLostTyped, CountedTyped DEF Break
  <2> QED BY <1>6, <2>1, <2>2 DEF Break, browser
<1>7. CASE Refused
  <2>1. LinkTyped(link')
    BY <1>1, <1>7 DEF Refused, LinkTyped
  <2>2. ServerTyped(server')
    BY <1>7 DEF Refused, ServerTyped
  <2>3. next' \in States
    BY <1>7 DEF Refused, States
  <2> QED BY <1>7, <2>1, <2>2, <2>3 DEF Refused
<1> QED BY <1>2, <1>3, <1>4, <1>5, <1>6, <1>7 DEF Socket

LEMMA AcceptedTyped ==
    ASSUME Typed, NEW m, Fits(m), m.type = "game_state_sync", acceptSnapshot(m)
    PROVE  next' \in States /\ refs' \in RefRecords
<1>1. m.snap \in LobbySnaps
  BY DEF Fits
<1>2. m.snap \in Snaps /\ Version(m.snap) \in Versions
  BY <1>1, VersionTyped DEF Snaps
<1>3. CASE isNewerSnapshot(m.snap, refs.accepted)
  <2> DEFINE fresh == next.fresh \cup {"snap"}
             summary == next.summary \/ m.snap.status = "finished"
  <2>0. fresh \in SUBSET {"reset", "snap", "shot"} /\ summary \in BOOLEAN
    BY DEF Typed, States
  <2>3. next' = [next EXCEPT !.snap = m.snap, !.fresh = fresh, !.summary = summary]
    BY <1>3 DEF acceptSnapshot
  <2> HIDE DEF fresh, summary
  <2>1. next' \in States
    BY <1>2, <2>0, <2>3 DEF Typed, States
  <2>2. refs' \in RefRecords
    BY <1>2, <1>3 DEF Typed, RefRecords, acceptSnapshot
  <2> QED BY <2>1, <2>2
<1>4. CASE ~isNewerSnapshot(m.snap, refs.accepted)
  BY <1>4 DEF Typed, acceptSnapshot
<1> QED BY <1>3, <1>4

LEMMA ReceivedTyped ==
    ASSUME Typed, NEW m, Fits(m), OnMessage(m)
    PROVE  next' \in States /\ refs' \in RefRecords
<1> USE DEF Typed
<1>1. m.room \in Rooms /\ m.shot \in Shots /\ m.type \in EventTypes \cup {"game_state_sync"}
  BY DEF Fits, InMessages
<1>2. CASE m.type \in {"room_state", "player_reconnected", "player_left"}
  <2>1. Gone(next, m.room) \in States
    BY <1>1 DEF Gone, States
  <2> QED BY <1>2, <2>1 DEF OnMessage
<1>3. CASE m.type = "player_disconnected"
  <2>1. [next.room EXCEPT !.gone = TRUE] \in Rooms
    BY DEF States, Rooms
  <2>2. next' = [next EXCEPT !.room = [next.room EXCEPT !.gone = TRUE]] /\ refs' = refs
    BY <1>3 DEF OnMessage
  <2> QED BY <2>1, <2>2 DEF States
<1>4. CASE m.type = "shot_started"
  <2> DEFINE fresh == next.fresh \cup {"shot"}
  <2>1. fresh \in SUBSET {"reset", "snap", "shot"}
    BY DEF States
  <2>2. next' = [next EXCEPT !.shot = m.shot, !.fresh = fresh] /\ refs' = refs
    BY <1>4 DEF OnMessage
  <2> HIDE DEF fresh
  <2> QED BY <1>1, <2>1, <2>2 DEF States
<1>5. CASE m.type = "turn_timeout"
  BY <1>5, NothingTyped DEF OnMessage, States
<1>6. CASE m.type = "game_state_sync"
  BY <1>6, AcceptedTyped DEF OnMessage
<1>7. CASE m.type = "match_finished"
  BY <1>1, <1>7 DEF OnMessage, MatchFinishes, States
<1>8. CASE m.type = "match_start"
  <2>1. StartsMatch(m)
    BY <1>8 DEF OnMessage
  <2>2. next' \in States
    BY <1>1, <2>1, NothingTyped DEF StartsMatch, States
  <2>3. refs' \in RefRecords
    BY <2>1, NothingTyped DEF StartsMatch, RefRecords
  <2> QED BY <2>2, <2>3
<1>9. CASE m.type = "rematch_requested"
  BY <1>9 DEF OnMessage, RematchRequested, States
<1>10. CASE m.type = "room_closed"
  BY <1>10 DEF OnMessage, States
<1> QED BY <1>1, <1>2, <1>3, <1>4, <1>5, <1>6, <1>7, <1>8, <1>9, <1>10 DEF EventTypes

LEMMA DeliverTyped == ASSUME Typed, Deliver PROVE Typed'
<1>1. Fits(Head(link.in)) /\ Fitting(Tail(link.in))
  BY RestFits DEF Deliver, Typed, LinkTyped
<1>2. next' \in States /\ refs' \in RefRecords
  BY <1>1, ReceivedTyped DEF Deliver
<1>3. LinkTyped(link')
  BY <1>1 DEF Deliver, Typed, LinkTyped, Fitting
<1> QED BY <1>2, <1>3 DEF Deliver, Typed

-----------------------------------------------------------------------------
(***************************************************************************)
(* SnookerMatch's effects: types, and what they do to the two versions.    *)
(***************************************************************************)
LEMMA PairTyped == ASSUME NEW c \in Pairs PROVE c.n \in States /\ c.r \in RefRecords
BY DEF Pairs

LEMMA ResetEffect ==
    ASSUME NEW c \in Pairs
    PROVE  /\ resetMatch(c) \in Pairs
           /\ resetMatch(c).n.snap = c.n.snap /\ resetMatch(c).n.fresh = c.n.fresh
           /\ resetMatch(c).r.accepted = c.r.accepted
           /\ resetMatch(c).r.shown = NoVersion /\ resetMatch(c).r.shotSeq = 0
<1>1. c.n \in States /\ c.r \in RefRecords
  BY PairTyped
<1>2. Rack(c.n) \in States /\ Rack(c.n).snap = c.n.snap /\ Rack(c.n).fresh = c.n.fresh
      /\ Rack(c.n).page = c.n.page
  BY <1>1, Constants DEF Rack, States
<1>3. /\ resetMatch(c).r \in RefRecords
      /\ resetMatch(c).r.accepted = c.r.accepted
      /\ resetMatch(c).r.shown = NoVersion /\ resetMatch(c).r.shotSeq = 0
  <2> DEFINE r == [c.r EXCEPT !.balls = <<>>, !.shotSeq = 0, !.pending = NoShot, !.lastShot = 0,
                              !.shown = NoVersion]
  <2>0. NoVersion \in Versions /\ NoShot \in Shots /\ <<>> \in Seq(Nat)
    BY NothingTyped
  <2>1. r.accepted = c.r.accepted /\ r.shown = NoVersion /\ r.shotSeq = 0
    BY <1>1 DEF RefRecords
  <2>3. r \in RefRecords
    BY <1>1, <2>0 DEF RefRecords
  <2> HIDE DEF r
  <2>2. resetMatch(c).r = r
    BY DEF resetMatch, r
  <2> QED BY <2>1, <2>2, <2>3
<1>4. resetMatch(c).n = Rack(c.n)
  BY DEF resetMatch
<1>5. resetMatch(c) \in Pairs
  BY <1>2, <1>3, <1>4 DEF resetMatch, Pairs
<1> QED BY <1>2, <1>3, <1>4, <1>5

\* A snapshot that is not older than the last one shown is shown, or a later shot has begun.
LEMMA ShowsEffect ==
    ASSUME NEW c \in Pairs, NEW s \in LobbySnaps, NotAfter(c.r.shown, Version(s))
    PROVE  /\ showsSnapshot(c, s) \in Pairs
           /\ showsSnapshot(c, s).n.snap = c.n.snap /\ showsSnapshot(c, s).n.fresh = c.n.fresh
           /\ showsSnapshot(c, s).r.accepted = c.r.accepted
           /\ \/ showsSnapshot(c, s).r.shown = Version(s)
              \/ /\ s.shot < showsSnapshot(c, s).r.shotSeq
                 /\ NotAfter(showsSnapshot(c, s).r.shown, Version(s))
<1> DEFINE d == showsSnapshot(c, s)
<1>1. c.n \in States /\ c.r \in RefRecords
  BY PairTyped
<1>2. /\ s \in Snaps /\ Version(s) \in Versions /\ c.r.shown \in Versions
      /\ c.r.shotSeq \in Nat /\ s.shot \in Nat /\ s.player \in Players
      /\ s.status \in Phases /\ s.balls \in Seq(Nat)
  BY <1>1, VersionTyped DEF Snaps, LobbySnaps, RefRecords
<1>3. CASE ~isNewerSnapshotVersion(s, c.r.shown) \/ s.shot < c.r.shotSeq
  <2>1. d = c
    BY <1>2, <1>3 DEF showsSnapshot
  <2>2. CASE s.shot < c.r.shotSeq
    BY <2>1, <2>2
  <2>3. CASE ~isNewerSnapshotVersion(s, c.r.shown)
    <3>1. ~isNewerSnapshot(Version(s), c.r.shown)
      BY <1>2, <2>3, LobbyIsNewer DEF isNewerSnapshotVersion
    <3> QED BY <2>1, <3>1 DEF NotAfter
  <2> QED BY <1>3, <2>2, <2>3
<1>4. CASE ~(~isNewerSnapshotVersion(s, c.r.shown) \/ s.shot < c.r.shotSeq)
  <2>0. isNewerSnapshotVersion(s, c.r.shown) /\ s.shot >= c.r.shotSeq
    BY <1>1, <1>2, <1>4 DEF RefRecords
  <2>1. CASE s.status = "moving"
    <3>1. d = [c EXCEPT !.r = [c.r EXCEPT !.shown = Version(s)]]
      BY <1>4, <2>0, <2>1 DEF showsSnapshot
    <3>2. [c.r EXCEPT !.shown = Version(s)] \in RefRecords
      BY <1>1, <1>2 DEF RefRecords
    <3>3. d \in Pairs /\ d.n = c.n /\ d.r = [c.r EXCEPT !.shown = Version(s)]
      BY <3>1, <3>2 DEF Pairs
    <3>4. d.r.shown = Version(s) /\ d.r.accepted = c.r.accepted
      BY <1>1, <3>3 DEF RefRecords
    <3> QED BY <3>3, <3>4
  <2>2. CASE s.status # "moving"
    <3> DEFINE n == [c.n EXCEPT !.turn = s.player, !.status = s.status, !.aiming = TRUE,
                                !.animating = FALSE]
               r == [c.r EXCEPT !.shown = Version(s), !.balls = s.balls, !.shotSeq = s.shot,
                                !.pending = NoShot]
    <3>1. d = [n |-> n, r |-> r]
      BY <1>4, <2>2 DEF showsSnapshot
    <3>2. n \in States /\ n.snap = c.n.snap /\ n.fresh = c.n.fresh
      BY <1>1, <1>2 DEF States, Phases
    <3>3. r \in RefRecords /\ r.shown = Version(s) /\ r.accepted = c.r.accepted
      BY <1>1, <1>2, NothingTyped DEF RefRecords
    <3> HIDE DEF n, r
    <3>4. d \in Pairs /\ d.n = n /\ d.r = r
      BY <3>1, <3>2, <3>3 DEF Pairs
    <3> QED BY <3>2, <3>3, <3>4
  <2> QED BY <2>1, <2>2
<1> QED BY <1>3, <1>4

LEMMA BeginsEffect ==
    ASSUME NEW c \in Pairs, NEW shot \in Shots
    PROVE  /\ beginShot(c, shot) \in Pairs
           /\ beginShot(c, shot).n.snap = c.n.snap /\ beginShot(c, shot).n.fresh = c.n.fresh
           /\ beginShot(c, shot).r.accepted = c.r.accepted
           /\ beginShot(c, shot).r.shown = c.r.shown
           /\ beginShot(c, shot).r.shotSeq >= c.r.shotSeq
<1>1. c.n \in States /\ c.r \in RefRecords
  BY PairTyped
<1>2. shot.seq \in Nat /\ shot.shooter \in Players /\ c.n.shotId + 1 \in Nat
      /\ c.r.shotSeq \in Nat
  BY <1>1 DEF Shots, States, RefRecords
<1>3. CASE shot.seq <= c.r.lastShot
  BY <1>2, <1>3 DEF beginShot
<1>4. CASE ~(shot.seq <= c.r.lastShot)
  <2> DEFINE n == [c.n EXCEPT !.turn = shot.shooter, !.status = "striking", !.animating = TRUE,
                              !.shotId = @ + 1]
             q == IF shot.seq > c.r.shotSeq THEN shot.seq ELSE c.r.shotSeq
             r == [c.r EXCEPT !.lastShot = shot.seq, !.pending = shot, !.shotSeq = q]
  <2>1. beginShot(c, shot) = [n |-> n, r |-> r]
    BY <1>4 DEF beginShot
  <2>2. n \in States /\ n.snap = c.n.snap /\ n.fresh = c.n.fresh
    BY <1>1, <1>2 DEF States
  <2>3. q \in Nat /\ q >= c.r.shotSeq
    BY <1>2
  <2> HIDE DEF q
  <2>4. r \in RefRecords /\ r.shown = c.r.shown /\ r.accepted = c.r.accepted /\ r.shotSeq = q
    BY <1>1, <1>2, <2>3 DEF RefRecords
  <2> HIDE DEF n, r
  <2>5. beginShot(c, shot) \in Pairs /\ beginShot(c, shot).n = n /\ beginShot(c, shot).r = r
    BY <2>1, <2>2, <2>4 DEF Pairs
  <2> QED BY <2>2, <2>3, <2>4, <2>5
<1> QED BY <1>3, <1>4

(***************************************************************************)
(* A render.                                                               *)
(***************************************************************************)
Freshened == [next EXCEPT !.fresh = {}]

LEMMA FreshenedTyped ==
    ASSUME next \in States
    PROVE  /\ Freshened \in States /\ Freshened.fresh = {} /\ Freshened.snap = next.snap
           /\ Freshened.page = next.page
BY DEF Freshened, States

\* What the effects leave: the fields of next that they do not set, and the versions.
LEMMA RenderEffect ==
    ASSUME Typed, FilterInv, Render, next.page = "match"
    PROVE  /\ next' \in States /\ refs' \in RefRecords
           /\ next'.snap = next.snap /\ next'.fresh = {} /\ refs'.accepted = refs.accepted
           /\ ShownOf(next', refs') /\ NotAfter(refs'.shown, refs'.accepted)
<1> DEFINE mounted == view.page # "match"
           c0 == [n |-> Freshened, r |-> refs]
           resets == mounted \/ "reset" \in next.fresh
           c1 == IF resets THEN resetMatch(c0) ELSE c0
           shows == (mounted \/ "snap" \in next.fresh) /\ next.snap # NoSnap
           c2 == IF shows THEN showsSnapshot(c1, next.snap) ELSE c1
           begins == (mounted \/ "shot" \in next.fresh) /\ next.shot # NoShot
           c3 == IF begins THEN beginShot(c2, next.shot) ELSE c2
           snap == next.snap
           version == Version(next.snap)
<1>1. next' = c3.n /\ refs' = c3.r
  BY DEF Render, Freshened
<1>2. c0 \in Pairs /\ c0.n.snap = snap /\ c0.n.fresh = {} /\ c0.r = refs
  BY FreshenedTyped DEF Typed, Pairs
<1>3. /\ snap \in Snaps /\ version \in Versions /\ next.shot \in Shots
      /\ snap = NoSnap \/ snap \in LobbySnaps
      /\ refs.accepted = version /\ refs.shotSeq \in Nat
  BY VersionTyped DEF Typed, States, Snaps, FilterInv, RefRecords
<1>4. snap = NoSnap => version = NoVersion
  BY DEF NoVersion
<1>5. snap # NoSnap => isNewerSnapshot(version, NoVersion)
  BY <1>3, LobbyIsNewer
<1> HIDE DEF c0
<1>6. /\ c1 \in Pairs /\ c1.n.snap = snap /\ c1.n.fresh = {} /\ c1.r.accepted = version
      /\ NotAfter(c1.r.shown, version)
      /\ ~shows => ShownOf(c1.n, c1.r)
  <2>1. CASE resets
    <3>1. c1 = resetMatch(c0)
      BY <2>1
    <3>2. /\ c1 \in Pairs /\ c1.n.snap = snap /\ c1.n.fresh = {}
          /\ c1.r.accepted = version /\ c1.r.shown = NoVersion
      BY <1>2, <1>3, <3>1, ResetEffect
    <3>3. NotAfter(NoVersion, version)
      BY <1>4, <1>5 DEF NotAfter
    <3>4. ~shows => snap = NoSnap
      BY <2>1 DEF FilterInv
    <3> QED BY <3>2, <3>3, <3>4 DEF ShownOf
  <2>2. CASE ~resets
    <3>1. c1 = c0 /\ view.page = "match" /\ "reset" \notin next.fresh
      BY <2>2
    <3>2. NotAfter(refs.shown, version)
      BY <1>3, <3>1 DEF FilterInv
    <3>3. ~shows => ShownOf(next, refs)
      BY <3>1 DEF FilterInv, ShownOf
    <3> QED BY <1>2, <1>3, <3>1, <3>2, <3>3 DEF ShownOf
  <2> QED BY <2>1, <2>2
<1> HIDE DEF c1
<1>7. /\ c2 \in Pairs /\ c2.n.snap = snap /\ c2.n.fresh = {} /\ c2.r.accepted = version
      /\ NotAfter(c2.r.shown, version)
      /\ ShownOf(c2.n, c2.r)
  <2>1. CASE shows
    <3>1. c2 = showsSnapshot(c1, snap) /\ snap \in LobbySnaps
      BY <1>3, <2>1
    <3>2. /\ c2 \in Pairs /\ c2.n.snap = snap /\ c2.n.fresh = {} /\ c2.r.accepted = version
          /\ \/ c2.r.shown = version
             \/ snap.shot < c2.r.shotSeq /\ NotAfter(c2.r.shown, version)
      BY <1>6, <3>1, ShowsEffect
    <3> QED BY <3>2 DEF ShownOf, NotAfter
  <2>2. CASE ~shows
    BY <1>6, <2>2
  <2> QED BY <2>1, <2>2
<1> HIDE DEF c2
<1>8. /\ c3 \in Pairs /\ c3.n.snap = snap /\ c3.n.fresh = {} /\ c3.r.accepted = version
      /\ NotAfter(c3.r.shown, version)
      /\ ShownOf(c3.n, c3.r)
  <2>1. CASE begins
    <3>1. c3 = beginShot(c2, next.shot)
      BY <2>1
    <3>2. /\ c3 \in Pairs /\ c3.n.snap = snap /\ c3.n.fresh = {} /\ c3.r.accepted = version
          /\ c3.r.shown = c2.r.shown /\ c3.r.shotSeq >= c2.r.shotSeq
      BY <1>3, <1>7, <3>1, BeginsEffect
    <3>3. c3.r.shotSeq \in Nat /\ c2.r.shotSeq \in Nat /\ snap.shot \in Int
      BY <1>3, <1>7, <3>2, PairTyped DEF RefRecords, Snaps, LobbySnaps, NoSnap, Snap
    <3>4. ShownOf(c3.n, c3.r)
      BY <1>7, <3>2, <3>3 DEF ShownOf
    <3> QED BY <1>7, <3>2, <3>4
  <2>2. CASE ~begins
    BY <1>7, <2>2
  <2> QED BY <2>1, <2>2
<1> HIDE DEF c3
<1> QED BY <1>1, <1>3, <1>8, PairTyped

LEMMA RenderTyped == ASSUME Typed, FilterInv, Render PROVE Typed'
<1>1. next \in States /\ Freshened \in States
  BY FreshenedTyped DEF Typed
<1>2. view' \in States /\ server' = server /\ link' = link
  BY <1>1 DEF Render, Freshened
<1>3. CASE next.page = "match"
  BY <1>2, <1>3, RenderEffect DEF Typed
<1>4. CASE next.page # "match"
  <2>1. next' = Freshened /\ refs' = refs
    BY <1>4 DEF Render, Freshened
  <2> QED BY <1>1, <1>2, <2>1 DEF Typed
<1> QED BY <1>3, <1>4

LEMMA PageTyped == ASSUME Typed, FilterInv, Page PROVE Typed'
<1> USE DEF Typed
<1>1. CASE loadRoom
  <2> DEFINE summary == next.summary \/ server.room = "finished"
             page == IF server.room \in {"waiting", "expired"} THEN "left" ELSE "match"
  <2>1. summary \in BOOLEAN /\ page \in {"loading", "match", "left", "error"}
    BY DEF States
  <2>2. next' = [next EXCEPT !.room = ServerRoom, !.summary = summary, !.page = page]
    BY <1>1 DEF loadRoom
  <2> HIDE DEF summary, page
  <2>3. next' \in States
    BY <2>1, <2>2, ServerRoomTyped DEF States
  <2> QED BY <1>1, <2>3 DEF loadRoom
<1>2. CASE Reload
  <2>1. ServerTyped(server')
    BY <1>2, CountedTyped DEF Reload
  <2> QED BY <1>2, <2>1, NoLinkTyped, NothingTyped DEF Reload
<1>3. CASE TokenRefreshed
  <2>1. ServerTyped(server')
    BY <1>3, CountedTyped DEF TokenRefreshed
  <2>2. NoLink \in [st : {"none", "opening", "open", "retry", "dead"},
                    sub : {"none", "greeted", "on"}, greeting : Rooms, in : Seq(InMessages),
                    out : Seq(OutMessages), mine : Nat]
        /\ Fitting(NoLink.in)
    BY NoLinkTyped DEF LinkTyped
  <2>3. LinkTyped(link')
    BY <1>3, <2>2 DEF TokenRefreshed, LinkTyped
  <2>4. next' \in States
    BY <1>3 DEF TokenRefreshed, States
  <2> QED BY <1>3, <2>1, <2>3, <2>4 DEF TokenRefreshed
<1>4. CASE Deliver
  BY <1>4, DeliverTyped
<1>5. CASE Render
  BY <1>5, RenderTyped
<1> QED BY <1>1, <1>2, <1>3, <1>4, <1>5 DEF Page

LEMMA TableTyped == ASSUME Typed, Table PROVE Typed'
<1> USE DEF Typed
<1>1. CASE handleCueContact
  <2>1. next' \in States
    BY <1>1 DEF handleCueContact, States
  <2> QED BY <1>1, <2>1 DEF handleCueContact
<1>2. CASE handleSimulationStopped
  <2> DEFINE balls == Append(refs.balls, refs.pending.seq)
             report == IF refs.pending # NoShot /\ refs.pending.shooter = Me
                       THEN refs.pending ELSE NoShot
  <2>1. refs.pending \in Shots /\ refs.balls \in Seq(Nat)
    BY DEF RefRecords
  <2>2. balls \in Seq(Nat) /\ report \in Shots
    BY <2>1, NothingTyped DEF Shots
  <2>3. next' = [next EXCEPT !.aiming = TRUE, !.status = "moving"]
        /\ refs' = [refs EXCEPT !.balls = balls, !.report = report]
    BY <1>2 DEF handleSimulationStopped
  <2> HIDE DEF balls, report
  <2>4. next' \in States
    BY <2>3 DEF States
  <2>5. refs' \in RefRecords
    BY <2>2, <2>3 DEF RefRecords
  <2> QED BY <1>2, <2>4, <2>5 DEF handleSimulationStopped
<1>3. CASE onShotResult
  <2>1. refs.report.seq \in Nat /\ refs.balls \in Seq(Nat)
    BY DEF RefRecords, Shots
  <2>2. [type |-> "shot_result_submitted", seq |-> refs.report.seq, balls |-> refs.balls]
            \in OutMessages
    BY <2>1 DEF OutMessages, OutTypes
  <2>3. LinkTyped(link')
    BY <1>3, <2>2, SentTyped DEF onShotResult
  <2>4. refs' \in RefRecords
    BY <1>3, NothingTyped DEF onShotResult, RefRecords
  <2> QED BY <1>3, <2>3, <2>4 DEF onShotResult
<1> QED BY <1>1, <1>2, <1>3 DEF Table

LEMMA PlayerTyped == ASSUME Typed, Player PROVE Typed'
<1> USE DEF Typed
<1>1. CASE handleShoot
  <2>1. refs.shotSeq \in Nat /\ refs.balls \in Seq(Nat)
    BY DEF RefRecords
  <2>2. [type |-> "shot_started", seq |-> refs.shotSeq, balls |-> refs.balls] \in OutMessages
    BY <2>1 DEF OutMessages, OutTypes
  <2> QED BY <1>1, <2>2, SentTyped DEF handleShoot, browser
<1>2. CASE handleRequestRematch
  <2>1. Asks("rematch_request") \in OutMessages
    BY DEF Asks, OutMessages, OutTypes
  <2>2. next' \in States
    BY <1>2 DEF handleRequestRematch, States
  <2> QED BY <1>2, <2>1, <2>2, SentTyped DEF handleRequestRematch
<1> QED BY <1>1, <1>2 DEF Player

-----------------------------------------------------------------------------
(***************************************************************************)
(* The versions.                                                           *)
(***************************************************************************)
LEMMA InitFilter == Init => FilterInv
<1> SUFFICES ASSUME Init PROVE FilterInv
  OBVIOUS
<1>1. view.fresh = {} /\ view.page = "loading" /\ refs.accepted = NoVersion /\ next.snap = NoSnap
  BY DEF Init, EmptyPage, EmptyRefs
<1> QED BY <1>1 DEF FilterInv, NoVersion

\* A step that leaves the snapshot, what is fresh, and the refs that tell of it.
LEMMA FilterKept ==
    ASSUME FilterInv, view' = view, next'.snap = next.snap, next'.fresh = next.fresh,
           refs'.accepted = refs.accepted, refs'.shown = refs.shown,
           refs'.shotSeq = refs.shotSeq
    PROVE  FilterInv'
BY DEF FilterInv, ShownOf

LEMMA AcceptKeeps ==
    ASSUME Typed, FilterInv, view' = view, NEW m, Fits(m), m.type = "game_state_sync",
           acceptSnapshot(m)
    PROVE  FilterInv'
<1>1. CASE isNewerSnapshot(m.snap, refs.accepted)
  <2>1. /\ m.snap \in LobbySnaps /\ Version(m.snap) \in Versions
        /\ refs.accepted \in Versions /\ refs.shown \in Versions
    BY VersionTyped DEF Fits, Snaps, Typed, RefRecords
  <2>2. /\ refs'.accepted = Version(m.snap) /\ refs'.shown = refs.shown
        /\ next'.snap = m.snap /\ next'.fresh = next.fresh \cup {"snap"}
    BY <1>1 DEF acceptSnapshot, Typed, States, RefRecords
  <2>3. isNewerSnapshot(Version(m.snap), refs.accepted)
    BY <1>1, <2>1, LobbyIsNewer
  <2>4. ASSUME view.page = "match", "reset" \notin next.fresh
        PROVE  NotAfter(refs.shown, Version(m.snap))
    BY <2>1, <2>3, <2>4, NotAfterNewer DEF FilterInv
  <2> QED BY <2>2, <2>4 DEF FilterInv
<1>2. CASE ~isNewerSnapshot(m.snap, refs.accepted)
  BY <1>2, FilterKept DEF acceptSnapshot
<1> QED BY <1>1, <1>2

LEMMA ReceiveKeeps ==
    ASSUME Typed, FilterInv, view' = view, NEW m, Fits(m), OnMessage(m)
    PROVE  FilterInv'
<1> USE DEF Typed
<1>1. m.type \in EventTypes \cup {"game_state_sync"}
  BY DEF Fits, InMessages
<1>2. CASE m.type \in {"room_state", "player_reconnected", "player_left"}
  <2>1. next' = Gone(next, m.room) /\ refs' = refs
    BY <1>2 DEF OnMessage
  <2>2. next'.snap = next.snap /\ next'.fresh = next.fresh
    BY <2>1 DEF Gone, States
  <2> QED BY <2>1, <2>2, FilterKept
<1>3. CASE m.type = "player_disconnected"
  <2>1. next'.snap = next.snap /\ next'.fresh = next.fresh /\ refs' = refs
    BY <1>3 DEF OnMessage, States
  <2> QED BY <2>1, FilterKept
<1>4. CASE m.type = "shot_started"
  <2>1. next'.snap = next.snap /\ next'.fresh = next.fresh \cup {"shot"} /\ refs' = refs
    BY <1>4 DEF OnMessage, States
  <2> QED BY <2>1 DEF FilterInv, ShownOf
<1>5. CASE m.type = "turn_timeout"
  <2>1. next'.snap = next.snap /\ next'.fresh = next.fresh /\ refs' = refs
    BY <1>5 DEF OnMessage, States
  <2> QED BY <2>1, FilterKept
<1>6. CASE m.type = "game_state_sync"
  BY <1>6, AcceptKeeps DEF OnMessage
<1>7. CASE m.type = "match_finished"
  <2>1. next'.snap = next.snap /\ next'.fresh = next.fresh /\ refs' = refs
    BY <1>7 DEF OnMessage, MatchFinishes, States
  <2> QED BY <2>1, FilterKept
<1>8. CASE m.type = "match_start"
  <2>1. StartsMatch(m)
    BY <1>8 DEF OnMessage
  <2>2. next'.snap = NoSnap /\ next'.fresh = next.fresh \cup {"reset"}
    BY <2>1 DEF StartsMatch, States
  <2>3. refs'.accepted = NoVersion
    BY <2>1 DEF StartsMatch, RefRecords
  <2> QED BY <2>2, <2>3 DEF FilterInv, NoVersion
<1>9. CASE m.type = "rematch_requested"
  <2>1. next'.snap = next.snap /\ next'.fresh = next.fresh /\ refs' = refs
    BY <1>9 DEF OnMessage, RematchRequested, States
  <2> QED BY <2>1, FilterKept
<1>10. CASE m.type = "room_closed"
  <2>1. next'.snap = next.snap /\ next'.fresh = next.fresh /\ refs' = refs
    BY <1>10 DEF OnMessage, States
  <2> QED BY <2>1, FilterKept
<1> QED BY <1>1, <1>2, <1>3, <1>4, <1>5, <1>6, <1>7, <1>8, <1>9, <1>10 DEF EventTypes

LEMMA RenderKeeps == ASSUME Typed, FilterInv, Render PROVE FilterInv'
<1>1. view' = Freshened /\ Freshened.fresh = {} /\ Freshened.snap = next.snap
      /\ Freshened.page = next.page
  BY FreshenedTyped DEF Render, Freshened, Typed
<1>2. CASE next.page = "match"
  <2>1. /\ next'.snap = next.snap /\ next'.fresh = {} /\ refs'.accepted = refs.accepted
        /\ ShownOf(next', refs') /\ NotAfter(refs'.shown, refs'.accepted)
    BY <1>2, RenderEffect
  <2> QED BY <1>1, <2>1 DEF FilterInv
<1>3. CASE next.page # "match"
  <2>1. next' = Freshened /\ refs' = refs
    BY <1>3 DEF Render, Freshened
  <2> QED BY <1>1, <1>3, <2>1 DEF FilterInv
<1> QED BY <1>2, <1>3

LEMMA PageKeeps == ASSUME Typed, FilterInv, Page PROVE FilterInv'
<1>1. CASE loadRoom
  <2>1. next'.snap = next.snap /\ next'.fresh = next.fresh /\ refs' = refs /\ view' = view
    BY <1>1 DEF loadRoom, Typed, States
  <2> QED BY <2>1, FilterKept
<1>2. CASE Reload
  BY <1>2 DEF Reload, FilterInv, EmptyPage, EmptyRefs, NoVersion
<1>3. CASE TokenRefreshed
  <2>1. next'.snap = next.snap /\ next'.fresh = next.fresh /\ refs' = refs /\ view' = view
    BY <1>3 DEF TokenRefreshed, Typed, States
  <2> QED BY <2>1, FilterKept
<1>4. CASE Deliver
  <2>1. Fits(Head(link.in))
    BY <1>4, RestFits DEF Deliver, Typed, LinkTyped
  <2> QED BY <1>4, <2>1, ReceiveKeeps DEF Deliver
<1>5. CASE Render
  BY <1>5, RenderKeeps
<1> QED BY <1>1, <1>2, <1>3, <1>4, <1>5 DEF Page

LEMMA TableKeeps == ASSUME Typed, FilterInv, Table PROVE FilterInv'
<1> USE DEF Typed
<1>1. CASE handleCueContact
  <2>1. next'.snap = next.snap /\ next'.fresh = next.fresh /\ refs' = refs /\ view' = view
    BY <1>1 DEF handleCueContact, States
  <2> QED BY <2>1, FilterKept
<1>2. CASE handleSimulationStopped
  <2>1. next'.snap = next.snap /\ next'.fresh = next.fresh /\ view' = view
    BY <1>2 DEF handleSimulationStopped, States
  <2>2. refs'.accepted = refs.accepted /\ refs'.shown = refs.shown /\ refs'.shotSeq = refs.shotSeq
    BY <1>2 DEF handleSimulationStopped, RefRecords
  <2> QED BY <2>1, <2>2, FilterKept
<1>3. CASE onShotResult
  <2>1. refs'.accepted = refs.accepted /\ refs'.shown = refs.shown /\ refs'.shotSeq = refs.shotSeq
    BY <1>3 DEF onShotResult, RefRecords
  <2> QED BY <1>3, <2>1, FilterKept DEF onShotResult
<1> QED BY <1>1, <1>2, <1>3 DEF Table

LEMMA OthersKeep ==
    ASSUME Typed, FilterInv, Lobby \/ Serve \/ Socket \/ Player
    PROVE  FilterInv'
<1> USE DEF Typed
<1>1. CASE UNCHANGED browser
  BY <1>1, FilterKept DEF browser
<1>2. CASE Refused \/ handleRequestRematch
  <2>1. next'.snap = next.snap /\ next'.fresh = next.fresh /\ refs' = refs /\ view' = view
    BY <1>2 DEF Refused, handleRequestRematch, States
  <2> QED BY <2>1, FilterKept
<1>3. Lobby => UNCHANGED browser
  BY DEF Lobby, Acts, StartClock, TurnTimeout, OtherShoots, ShotTimeout, OtherResult, Rematch,
         OtherGone, OtherBack, OtherRequests, PublishRead, RoomEnds
<1>4. Serve => UNCHANGED browser
  BY DEF Serve, Serves, RequestGameState, ServeShot, ServeResult, ServeRematch
<1>5. Socket => UNCHANGED browser \/ Refused
  BY DEF Socket, Connect, Opened, Greet, Subscribe, Break
<1>6. Player => UNCHANGED browser \/ handleRequestRematch
  BY DEF Player, handleShoot
<1> QED BY <1>1, <1>2, <1>3, <1>4, <1>5, <1>6

-----------------------------------------------------------------------------
(***************************************************************************)
(* The theorem.                                                            *)
(***************************************************************************)
ClientInv == Typed /\ FilterInv

LEMMA ClientStep == ClientInv /\ [Next]_vars => ClientInv'
<1> SUFFICES ASSUME Typed, FilterInv, [Next]_vars PROVE Typed' /\ FilterInv'
  BY DEF ClientInv
<1>1. CASE Lobby
  BY <1>1, LobbyTyped, OthersKeep
<1>2. CASE Serve
  BY <1>2, ServeTyped, OthersKeep
<1>3. CASE Socket
  BY <1>3, SocketTyped, OthersKeep
<1>4. CASE Page
  BY <1>4, PageTyped, PageKeeps
<1>5. CASE Table
  BY <1>5, TableTyped, TableKeeps
<1>6. CASE Player
  BY <1>6, PlayerTyped, OthersKeep
<1>7. CASE UNCHANGED vars
  <2>1. server' = server /\ link' = link /\ next' = next /\ view' = view /\ refs' = refs
    BY <1>7 DEF vars
  <2> QED BY <2>1, FilterKept DEF Typed
<1> QED BY <1>1, <1>2, <1>3, <1>4, <1>5, <1>6, <1>7 DEF Next

LEMMA ClientInvariance == Spec => []ClientInv
<1>1. Init => ClientInv
  BY InitTyped, InitFilter DEF ClientInv
<1> QED BY <1>1, ClientStep, PTL DEF Spec

\* Whatever the browser misses, and whatever comes twice, late or out of order: the snapshot
\* that the page has accepted is the one on the table, or a later shot has begun there.
THEOREM AcceptedSnapshotsShow == Spec => []AcceptedIsShown
<1>1. ClientInv => AcceptedIsShown
  BY DEF ClientInv, FilterInv, ShownOf, AcceptedIsShown
<1> QED BY <1>1, ClientInvariance, PTL

-----------------------------------------------------------------------------
(***************************************************************************)
(* Tables.  What the lobby has published and the browser has not read yet  *)
(* is of the present match only behind the last match_start among it.      *)
(***************************************************************************)
\* The mishaps under which the three properties are proved.
Ordinary == Mishaps \subseteq {"gap", "oneShot"}

InPlay == server.room = "playing"
Aimed  == InPlay /\ server.snap.status = "aiming"
Over   == {"waiting", "expired"}

Clean(q)   == \A i \in 1 .. Len(q) : q[i].type # "match_start"
Late(q, i) == \A j \in 1 .. Len(q) : j > i => q[j].type # "match_start"

\* v is the lobby's record, s a snapshot that it published or read before.
OfMatch(v, s) == s.match = v.snap.match /\ IsPrefix(s.balls, v.snap.balls)

Known(v, s) ==
    /\ s.turn <= v.snap.turn /\ s.shot <= v.snap.shot
    /\ s.turn = v.snap.turn =>
        /\ s.balls = v.snap.balls /\ s.player = v.snap.player
        /\ \/ s.shot = v.snap.shot /\ s.status = v.snap.status
           \/ s.shot = v.snap.shot - 1 /\ s.status = "aiming" /\ v.snap.status = "moving"
    /\ s.turn < v.snap.turn /\ v.snap.status = "moving" => s.shot < v.snap.shot

Current(v, s) == s.match = v.snap.match /\ s.turn = v.snap.turn /\ s.shot = v.snap.shot

Taken(v, s) == OfMatch(v, s) /\ (v.room = "playing" => Known(v, s))

Told == {"room_state", "player_reconnected", "match_start"}
Ends == {"match_finished", "player_left", "room_closed"}

Recent(v, m) ==
    /\ m.type = "game_state_sync" => Taken(v, m.snap)
    /\ v.room = "playing" =>
        /\ m.type = "shot_started" => m.shot.match = v.snap.match /\ m.shot.seq <= v.snap.shot
        /\ m.type \in Told => m.room.status = "playing"
        /\ m.type \notin Ends

Past(v, m) == m.type = "game_state_sync" => m.snap.match < v.snap.match

\* That the room is over is told of a room that is.
Closes(m) == m.type = "room_closed" \/ m.room.status \in Over

ReadsInv(v) ==
    /\ v.snap.match >= 1
    /\ \A r \in v.read :
        /\ Taken(v, r.snap)
        /\ v.room = "playing" /\ r.snap.status = "moving" =>
                r.snap.turn = v.snap.turn /\ v.snap.status = "moving"

InboxInv(v, q) ==
    \A i \in 1 .. Len(q) :
        /\ Late(q, i) => Recent(v, q[i])
        /\ ~Late(q, i) => Past(v, q[i])
        /\ Closes(q[i]) => v.room \in Over

AcceptedInv(v, q, s) ==
    s # NoSnap =>
        /\ Clean(q) => Taken(v, s)
        /\ ~Clean(q) => s.match < v.snap.match

\* No shot follows the snapshot of the turn that it was played in.
OrderInv(v, q) ==
    v.room = "playing" /\ v.snap.status = "aiming" =>
        \A i \in 1 .. Len(q), j \in 1 .. Len(q) :
            Late(q, i) /\ q[i].type = "game_state_sync" /\ Current(v, q[i].snap) /\ j > i
            => q[j].type # "shot_started"

\* A page that hears is going to hear of the present turn.
Has(q, type) == \E i \in 1 .. Len(q) : q[i].type = type
OnItsWay(v, q) ==
    \E i \in 1 .. Len(q) :
        Late(q, i) /\ q[i].type = "game_state_sync" /\ Current(v, q[i].snap)
AnswerInv(v, l, s) ==
    l.sub = "on" /\ v.room = "playing" /\ v.snap.status = "aiming" =>
        \/ Has(l.out, "request_game_state")
        \/ \E r \in v.read : r.by = Me /\ Current(v, r.snap)
        \/ OnItsWay(v, l.in)
        \/ Clean(l.in) /\ Current(v, s)

(***************************************************************************)
(* The socket and the page.                                                *)
(***************************************************************************)
LinkInv ==
    /\ link.sub # "on" => link.in = <<>>
    /\ link.st # "open" => link.sub = "none" /\ link.out = <<>>
    /\ link.sub = "greeted" /\ InPlay => link.greeting.status = "playing"
    /\ link.sub = "greeted" /\ link.greeting.status \in Over => server.room \in Over
    /\ link.st = "open" /\ link.sub # "on" /\ InPlay => Has(link.out, "request_game_state")

PageInv ==
    /\ next.fresh # {} => \E x \in next.fresh : next.fresh = {x}
    /\ view.page = "match" /\ cue.striking => view.animating
    /\ next.page = "error" => link.st = "dead"
    /\ next.page = "left" => server.room \in Over
    /\ InPlay /\ Clean(link.in) /\ next.page \in {"match", "error"} =>
            next.room.status = "playing"
    /\ InPlay /\ next.page = "loading" =>
            next = EmptyPage /\ view = EmptyPage /\ link.st = "none"
    /\ InPlay /\ Clean(link.in) /\ view.page # "match" /\ next.page = "match" =>
            link.st = "none" /\ next.snap = NoSnap /\ next.shot = NoShot

\* What is fresh was not shown yet.
FreshInv ==
    view.page = "match" /\ "reset" \notin next.fresh /\ "snap" \in next.fresh =>
        isNewerSnapshot(refs.accepted, refs.shown)

NumbersInv ==
    InPlay /\ Clean(link.in) /\ view.page = "match" =>
        /\ "reset" \notin next.fresh =>
            refs.shotSeq <= server.snap.shot /\ refs.lastShot <= server.snap.shot
        /\ "shot" \in next.fresh => next.shot.seq <= server.snap.shot

\* The page shows the table of the turn, or is about to show it.
Open == view.page = "match" /\ next.page = "match"
Ready ==
    /\ refs.balls = server.snap.balls /\ refs.pending = NoShot
    /\ next.turn = server.snap.player /\ next.status = "aiming"
    /\ next.aiming /\ ~next.animating
ShowsInv ==
    Aimed /\ Clean(link.in) /\ Open /\ Current(server, next.snap) =>
        /\ ~Has(link.in, "shot_started")
        /\ "shot" \notin next.fresh /\ "reset" \notin next.fresh
        /\ "snap" \in next.fresh \/ Ready

TableInv ==
    Clean(link.in) /\ view.page = "match" /\ "reset" \notin next.fresh
        /\ next.status = "aiming"
    => IsPrefix(refs.balls, server.snap.balls)

(***************************************************************************)
(* A shot of this player: on its way to the lobby, ...                     *)
(***************************************************************************)
NoResult == ~Has(link.out, "shot_result_submitted")
AimInv ==
    TimedSnap /\ server.snap.player = Me /\ Has(link.out, "shot_started") =>
        /\ Clean(link.in) /\ Open /\ Current(server, next.snap)
        /\ Ready /\ refs.report = NoShot
        /\ \A i \in 1 .. Len(link.out) : link.out[i].type = "shot_started" =>
            /\ link.out[i].balls = server.snap.balls
            /\ \A j \in 1 .. Len(link.out) : j > i =>
                    link.out[j].type # "shot_result_submitted"

(***************************************************************************)
(* ... and started: announced, played, at rest, and reported.              *)
(***************************************************************************)
Mine   == InPlay /\ server.snap.status = "moving" /\ server.snap.player = Me
Played == Append(server.snap.balls, server.snap.shot)

Announced ==
    /\ refs.lastShot < server.snap.shot /\ refs.shotSeq < server.snap.shot
    /\ refs.pending = NoShot /\ refs.balls = server.snap.balls
    /\ refs.report = NoShot /\ NoResult
    /\ next.aiming /\ ~next.animating
Begun ==
    refs.lastShot = server.snap.shot /\ refs.shotSeq = server.snap.shot /\ refs.pending = ActiveShot
Striking ==
    /\ Begun /\ refs.balls = server.snap.balls
    /\ refs.report = NoShot /\ NoResult
    /\ next.aiming /\ next.animating
Rolling ==
    /\ Begun /\ refs.balls = server.snap.balls
    /\ refs.report = NoShot /\ NoResult
    /\ ~next.aiming /\ ~next.animating
Resting ==
    /\ Begun /\ refs.balls = Played
    /\ refs.report \in {NoShot, ActiveShot}
    /\ next.aiming /\ ~next.animating

ShotInv ==
    Mine =>
        /\ Clean(link.in) /\ "reset" \notin next.fresh
        /\ next.snap.turn = server.snap.turn
        /\ \A i \in 1 .. Len(link.in) :
                link.in[i].type = "shot_started" => link.in[i].shot = ActiveShot
        /\ "shot" \in next.fresh => next.shot = ActiveShot
        /\ \A i \in 1 .. Len(link.out) : link.out[i].type = "shot_result_submitted" =>
                link.out[i].seq = server.snap.shot /\ link.out[i].balls = Played
        /\ next.page \in {"match", "error"}
        /\ next.page = "match" =>
            view.page = "match" /\ (Announced \/ Striking \/ Rolling \/ Resting)

WireInv ==
    /\ ReadsInv(server)
    /\ InboxInv(server, link.in)
    /\ AcceptedInv(server, link.in, next.snap)
    /\ OrderInv(server, link.in)
    /\ AnswerInv(server, link, next.snap)

-----------------------------------------------------------------------------
(***************************************************************************)
(* Sequences.                                                              *)
(***************************************************************************)
LEMMA PrefixPoints ==
    ASSUME NEW s \in Seq(Nat), NEW t \in Seq(Nat)
    PROVE  IsPrefix(s, t) <=> Len(s) <= Len(t) /\ \A i \in 1 .. Len(s) : s[i] = t[i]
<1>1. ASSUME Len(s) <= Len(t)
      PROVE  SubSeq(s, 1, Len(s)) = SubSeq(t, 1, Len(s)) <=> \A i \in 1 .. Len(s) : s[i] = t[i]
  <2>1. SubSeq(s, 1, Len(s)) = [i \in 1 .. Len(s) |-> s[i]]
        /\ SubSeq(t, 1, Len(s)) = [i \in 1 .. Len(s) |-> t[i]]
    BY <1>1
  <2> QED BY <2>1
<1> QED BY <1>1 DEF IsPrefix

LEMMA PrefixFacts ==
    ASSUME NEW s \in Seq(Nat)
    PROVE  /\ IsPrefix(s, s) /\ IsPrefix(<<>>, s)
           /\ \A k \in Nat : IsPrefix(s, Append(s, k))
<1>1. ASSUME NEW k \in Nat PROVE IsPrefix(s, Append(s, k))
  <2> DEFINE t == Append(s, k)
  <2>1. t \in Seq(Nat) /\ Len(s) <= Len(t) /\ \A i \in 1 .. Len(s) : s[i] = t[i]
    OBVIOUS
  <2> HIDE DEF t
  <2>2. IsPrefix(s, t)
    BY <2>1, PrefixPoints
  <2> QED BY <2>2 DEF t
<1>2. IsPrefix(<<>>, s)
  <2> DEFINE e == <<>>
  <2>1. e \in Seq(Nat) /\ Len(e) <= Len(s) /\ \A i \in 1 .. Len(e) : e[i] = s[i]
    OBVIOUS
  <2> HIDE DEF e
  <2>2. IsPrefix(e, s)
    BY <2>1, PrefixPoints
  <2> QED BY <2>2 DEF e
<1>3. IsPrefix(s, s)
  BY PrefixPoints
<1> QED BY <1>1, <1>2, <1>3

LEMMA PrefixTransitive ==
    ASSUME NEW s \in Seq(Nat), NEW t \in Seq(Nat), NEW u \in Seq(Nat),
           IsPrefix(s, t), IsPrefix(t, u)
    PROVE  IsPrefix(s, u)
BY PrefixPoints

\* What is added at the end, and what is taken from the head.
LEMMA JoinedPoints ==
    ASSUME NEW q \in Seq(InMessages), NEW p \in Seq(InMessages)
    PROVE  /\ q \o p \in Seq(InMessages) /\ Len(q \o p) = Len(q) + Len(p)
           /\ Len(q) \in Nat /\ Len(p) \in Nat
           /\ \A i \in 1 .. Len(q) : (q \o p)[i] = q[i]
           /\ \A i \in 1 .. Len(p) : (q \o p)[Len(q) + i] = p[i]
           /\ \A i \in 1 .. Len(q \o p) : i > Len(q) => i - Len(q) \in 1 .. Len(p)
                                                  /\ (q \o p)[i] = p[i - Len(q)]
OBVIOUS

LEMMA TailPoints ==
    ASSUME NEW M, NEW q \in Seq(M), q # <<>>
    PROVE  /\ Tail(q) \in Seq(M) /\ Len(q) \in Nat /\ Len(q) >= 1 /\ Len(Tail(q)) = Len(q) - 1
           /\ Head(q) = q[1] /\ Head(q) \in M
           /\ \A i \in 1 .. Len(Tail(q)) : i + 1 \in 1 .. Len(q) /\ Tail(q)[i] = q[i + 1]
           /\ \A i \in 1 .. Len(q) : i > 1 => i - 1 \in 1 .. Len(Tail(q)) /\ Tail(q)[i - 1] = q[i]
OBVIOUS


LEMMA LateJoined ==
    ASSUME NEW q \in Seq(InMessages), NEW p \in Seq(InMessages), Clean(p)
    PROVE  /\ Clean(q \o p) <=> Clean(q)
           /\ \A i \in 1 .. Len(q) : Late(q \o p, i) <=> Late(q, i)
           /\ \A i \in 1 .. Len(q \o p) : i > Len(q) => Late(q \o p, i)
<1>1. Clean(q \o p) <=> Clean(q)
  BY JoinedPoints DEF Clean
<1>2. ASSUME NEW i \in 1 .. Len(q) PROVE Late(q \o p, i) <=> Late(q, i)
  <2>1. ASSUME Late(q \o p, i) PROVE Late(q, i)
    BY <2>1, JoinedPoints DEF Late
  <2>2. ASSUME Late(q, i), NEW j \in 1 .. Len(q \o p), j > i
        PROVE  (q \o p)[j].type # "match_start"
    BY <2>2, JoinedPoints DEF Late, Clean
  <2> QED BY <2>1, <2>2 DEF Late
<1>3. ASSUME NEW i \in 1 .. Len(q \o p), i > Len(q) PROVE Late(q \o p, i)
  BY <1>3, JoinedPoints DEF Late, Clean
<1> QED BY <1>1, <1>2, <1>3

LEMMA LateTail ==
    ASSUME NEW q \in Seq(InMessages), q # <<>>
    PROVE  /\ Clean(Tail(q)) <=> Late(q, 1)
           /\ Clean(q) <=> Late(q, 1) /\ Head(q).type # "match_start"
           /\ \A i \in 1 .. Len(Tail(q)) : Late(Tail(q), i) <=> Late(q, i + 1)
<1>1. Clean(Tail(q)) <=> Late(q, 1)
  <2>1. ASSUME Clean(Tail(q)), NEW j \in 1 .. Len(q), j > 1 PROVE q[j].type # "match_start"
    BY <2>1, TailPoints DEF Clean
  <2>2. ASSUME Late(q, 1), NEW i \in 1 .. Len(Tail(q)) PROVE Tail(q)[i].type # "match_start"
    BY <2>2, TailPoints DEF Late
  <2> QED BY <2>1, <2>2 DEF Clean, Late
<1>2. Clean(q) <=> Late(q, 1) /\ Head(q).type # "match_start"
  BY TailPoints DEF Clean, Late
<1>3. ASSUME NEW i \in 1 .. Len(Tail(q)) PROVE Late(Tail(q), i) <=> Late(q, i + 1)
  <2>1. ASSUME Late(Tail(q), i), NEW j \in 1 .. Len(q), j > i + 1 PROVE q[j].type # "match_start"
    <3>1. j - 1 \in 1 .. Len(Tail(q)) /\ j - 1 > i /\ Tail(q)[j - 1] = q[j]
      BY <2>1, TailPoints
    <3> QED BY <2>1, <3>1 DEF Late
  <2>2. ASSUME Late(q, i + 1), NEW j \in 1 .. Len(Tail(q)), j > i
        PROVE  Tail(q)[j].type # "match_start"
    <3>1. j + 1 \in 1 .. Len(q) /\ j + 1 > i + 1 /\ Tail(q)[j] = q[j + 1]
      BY <2>2, TailPoints
    <3> QED BY <2>2, <3>1 DEF Late
  <2> QED BY <2>1, <2>2 DEF Late
<1> QED BY <1>1, <1>2, <1>3

LEMMA CleanIsLate ==
    ASSUME NEW q \in Seq(InMessages), Clean(q), NEW i \in 1 .. Len(q)
    PROVE  Late(q, i)
BY DEF Clean, Late

-----------------------------------------------------------------------------
(***************************************************************************)
(* What a step of the lobby does to the match: nothing that is told apart, *)
(* a shot begins, a turn begins, the match is over; or the next one opens. *)
(***************************************************************************)
Kept(v, w) ==
    /\ w.snap.turn = v.snap.turn /\ w.snap.shot = v.snap.shot
    /\ w.snap.status = v.snap.status /\ w.snap.player = v.snap.player
    /\ w.snap.balls = v.snap.balls

Begins(v, w) ==
    /\ w.snap.turn = v.snap.turn /\ w.snap.shot = v.snap.shot + 1
    /\ v.snap.status = "aiming" /\ w.snap.status = "moving"
    /\ w.snap.player = v.snap.player /\ w.snap.balls = v.snap.balls

Turns(v, w) ==
    /\ w.snap.turn = v.snap.turn + 1 /\ w.snap.shot = v.snap.shot
    /\ w.snap.status = "aiming"
    /\ v.snap.status = "moving" => \A r \in v.read : r.snap.status # "moving"

Goes(v, w) ==
    /\ w.snap.match = v.snap.match /\ IsPrefix(v.snap.balls, w.snap.balls)
    /\ w.room = "playing" =>
        v.room = "playing" /\ (Kept(v, w) \/ Begins(v, w) \/ Turns(v, w))
    /\ v.room \in Over => w.room \in Over
    /\ \A r \in w.read : r \in v.read \/ r.snap = w.snap

Opens(v, w) ==
    /\ v.room = "finished" /\ w.room = "playing"
    /\ w.snap = FirstSnap(v.snap.match + 1) /\ w.read = {}

LEMMA SnapFields ==
    ASSUME NEW s \in LobbySnaps
    PROVE  /\ s.match \in Nat /\ s.shot \in Nat /\ s.turn \in Nat /\ s.at \in Nat
           /\ s.player \in Players /\ s.status \in Phases /\ s.balls \in Seq(Nat)
           /\ s # NoSnap
BY LobbyIsNewer DEF LobbySnaps

LEMMA ServerFields ==
    ASSUME NEW v, ServerTyped(v)
    PROVE  /\ v.snap \in LobbySnaps /\ v.room \in RoomStatuses
           /\ v.gone \in BOOLEAN /\ v.asked \in BOOLEAN /\ v.breaks \in Nat
           /\ v.unheard \in BOOLEAN
           /\ v.read \in SUBSET [by : Players, snap : LobbySnaps]
           /\ \A r \in v.read : r.snap \in LobbySnaps /\ r.by \in Players
BY DEF ServerTyped

LEMMA TakenSelf == ASSUME NEW v, ServerTyped(v) PROVE Taken(v, v.snap)
<1>1. v.snap \in LobbySnaps
  BY ServerFields
<1> QED BY <1>1, SnapFields, PrefixFacts DEF Taken, OfMatch, Known

LEMMA TakenStays ==
    ASSUME NEW v, ServerTyped(v), NEW w, ServerTyped(w), Goes(v, w), NEW s \in LobbySnaps,
           Taken(v, s)
    PROVE  Taken(w, s)
<1>1. v.snap \in LobbySnaps /\ w.snap \in LobbySnaps
  BY ServerFields
<1>2. OfMatch(w, s)
  BY <1>1, SnapFields, PrefixTransitive DEF Taken, OfMatch, Goes
<1>3. ASSUME w.room = "playing" PROVE Known(w, s)
  <2>1. Known(v, s) /\ (Kept(v, w) \/ Begins(v, w) \/ Turns(v, w))
    BY <1>3 DEF Goes, Taken
  <2>2. /\ s.turn \in Nat /\ s.shot \in Nat /\ v.snap.turn \in Nat /\ v.snap.shot \in Nat
        /\ w.snap.turn \in Nat /\ w.snap.shot \in Nat
    BY <1>1, SnapFields
  <2>3. CASE Kept(v, w)
    BY <2>1, <2>2, <2>3 DEF Known, Kept
  <2>4. CASE Begins(v, w)
    BY <2>1, <2>2, <2>4 DEF Known, Begins
  <2>5. CASE Turns(v, w)
    BY <2>1, <2>2, <2>5 DEF Known, Turns
  <2> QED BY <2>1, <2>3, <2>4, <2>5
<1> QED BY <1>2, <1>3 DEF Taken

LEMMA ReadsStay ==
    ASSUME NEW v, ServerTyped(v), NEW w, ServerTyped(w), Goes(v, w), ReadsInv(v)
    PROVE  ReadsInv(w)
<1>1. v.snap \in LobbySnaps /\ w.snap \in LobbySnaps
  BY ServerFields
<1>2. w.snap.match >= 1
  BY DEF Goes, ReadsInv
<1>3. ASSUME NEW r \in w.read
      PROVE  /\ Taken(w, r.snap)
             /\ w.room = "playing" /\ r.snap.status = "moving" =>
                    r.snap.turn = w.snap.turn /\ w.snap.status = "moving"
  <2>1. CASE r.snap = w.snap
    BY <2>1, TakenSelf
  <2>2. CASE r \in v.read
    <3>1. Taken(w, r.snap)
      BY <2>2, ServerFields, TakenStays DEF ReadsInv
    <3>2. ASSUME w.room = "playing", r.snap.status = "moving"
          PROVE  r.snap.turn = w.snap.turn /\ w.snap.status = "moving"
      <4>1. r.snap.turn = v.snap.turn /\ v.snap.status = "moving"
        BY <2>2, <3>2 DEF ReadsInv, Goes
      <4>2. ~Turns(v, w) /\ ~Begins(v, w)
        BY <2>2, <3>2, <4>1 DEF Turns, Begins
      <4> QED BY <3>2, <4>1, <4>2 DEF Goes, Kept
    <3> QED BY <3>1, <3>2
  <2> QED BY <2>1, <2>2 DEF Goes
<1> QED BY <1>2, <1>3 DEF ReadsInv

LEMMA RecentStays ==
    ASSUME NEW v, ServerTyped(v), NEW w, ServerTyped(w), Goes(v, w), NEW m, Fits(m)
    PROVE  /\ Recent(v, m) => Recent(w, m)
           /\ Past(v, m) => Past(w, m)
<1>1. ASSUME Recent(v, m) PROVE Recent(w, m)
  <2>1. ASSUME m.type = "game_state_sync" PROVE Taken(w, m.snap)
    BY <1>1, <2>1, TakenStays DEF Recent, Fits
  <2>2. ASSUME w.room = "playing" PROVE v.room = "playing" /\ v.snap.shot <= w.snap.shot
                                        /\ w.snap.match = v.snap.match
    <3>1. v.snap.shot \in Nat /\ w.snap.shot \in Nat
      BY ServerFields, SnapFields
    <3> QED BY <2>2, <3>1 DEF Goes, Kept, Begins, Turns
  <2>3. m.shot.seq \in Nat /\ v.snap.shot \in Nat /\ w.snap.shot \in Nat
    BY ServerFields, SnapFields DEF Fits, InMessages, Shots
  <2> QED BY <1>1, <2>1, <2>2, <2>3 DEF Recent
<1>2. Past(v, m) => Past(w, m)
  BY DEF Past, Goes
<1> QED BY <1>1, <1>2

\* What the lobby says: of the match as it is, and of no shot before it is struck.
Tells(w, p) ==
    /\ Fitting(p) /\ Clean(p)
    /\ \A i \in 1 .. Len(p) :
        /\ Recent(w, p[i])
        /\ Closes(p[i]) => w.room \in Over
        /\ p[i].type = "shot_started" /\ w.room = "playing" => w.snap.status = "moving"

LEMMA TellsNothing == ASSUME NEW w PROVE Tells(w, <<>>)
BY EmptyFits DEF Tells, Clean

LEMMA InboxStays ==
    ASSUME NEW v, ServerTyped(v), NEW w, ServerTyped(w), Goes(v, w),
           NEW q, Fitting(q), InboxInv(v, q), NEW p, Tells(w, p)
    PROVE  InboxInv(w, q \o p)
<1>1. q \in Seq(InMessages) /\ p \in Seq(InMessages) /\ Clean(p) /\ Fitting(p)
  BY DEF Fitting, Tells
<1>2. SUFFICES ASSUME NEW i \in 1 .. Len(q \o p)
               PROVE  /\ Late(q \o p, i) => Recent(w, (q \o p)[i])
                      /\ ~Late(q \o p, i) => Past(w, (q \o p)[i])
                      /\ Closes((q \o p)[i]) => w.room \in Over
  BY DEF InboxInv
<1>3. CASE i \in 1 .. Len(q)
  <2>1. (q \o p)[i] = q[i] /\ (Late(q \o p, i) <=> Late(q, i))
    BY <1>1, <1>3, JoinedPoints, LateJoined
  <2>2. Fits(q[i])
    BY <1>3 DEF Fitting
  <2>3. /\ Late(q, i) => Recent(v, q[i])
        /\ ~Late(q, i) => Past(v, q[i])
        /\ Closes(q[i]) => v.room \in Over
    BY <1>3 DEF InboxInv
  <2>4. /\ Recent(v, q[i]) => Recent(w, q[i])
        /\ Past(v, q[i]) => Past(w, q[i])
    BY <2>2, RecentStays
  <2> QED BY <2>1, <2>3, <2>4 DEF Goes
<1>4. CASE i > Len(q)
  <2>1. i - Len(q) \in 1 .. Len(p) /\ (q \o p)[i] = p[i - Len(q)] /\ Late(q \o p, i)
    BY <1>1, <1>4, JoinedPoints, LateJoined
  <2> QED BY <2>1 DEF Tells
<1> QED BY <1>1, <1>3, <1>4, JoinedPoints

LEMMA AcceptedStays ==
    ASSUME NEW v, ServerTyped(v), NEW w, ServerTyped(w), Goes(v, w),
           NEW q, Fitting(q), NEW p, Tells(w, p),
           NEW s \in Snaps, AcceptedInv(v, q, s)
    PROVE  AcceptedInv(w, q \o p, s)
<1>1. Clean(q \o p) <=> Clean(q)
  BY LateJoined DEF Fitting, Tells
<1>2. s # NoSnap => s \in LobbySnaps
  BY DEF Snaps
<1> QED BY <1>1, <1>2, TakenStays DEF AcceptedInv, Goes

LEMMA OrderStays ==
    ASSUME NEW v, ServerTyped(v), NEW w, ServerTyped(w), Goes(v, w),
           NEW q, Fitting(q), InboxInv(v, q), OrderInv(v, q), NEW p, Tells(w, p)
    PROVE  OrderInv(w, q \o p)
<1>1. q \in Seq(InMessages) /\ p \in Seq(InMessages) /\ Clean(p)
  BY DEF Fitting, Tells
<1>2. SUFFICES ASSUME w.room = "playing", w.snap.status = "aiming",
                      NEW i \in 1 .. Len(q \o p), NEW j \in 1 .. Len(q \o p),
                      Late(q \o p, i), (q \o p)[i].type = "game_state_sync",
                      Current(w, (q \o p)[i].snap), j > i
               PROVE  (q \o p)[j].type # "shot_started"
  BY DEF OrderInv
<1>3. CASE j > Len(q)
  <2>1. j - Len(q) \in 1 .. Len(p) /\ (q \o p)[j] = p[j - Len(q)]
    BY <1>1, <1>3, JoinedPoints
  <2> QED BY <1>2, <2>1 DEF Tells
<1>4. CASE ~(j > Len(q))
  <2>1. i \in 1 .. Len(q) /\ j \in 1 .. Len(q)
    BY <1>1, <1>2, <1>4, JoinedPoints
  <2>2. (q \o p)[i] = q[i] /\ (q \o p)[j] = q[j] /\ Late(q, i)
    BY <1>1, <1>2, <2>1, JoinedPoints, LateJoined
  <2>3. v.room = "playing" /\ ~Begins(v, w) /\ (Kept(v, w) \/ Turns(v, w))
    BY <1>2 DEF Goes, Begins
  <2>4. CASE Kept(v, w)
    <3>1. Current(v, q[i].snap) /\ v.snap.status = "aiming"
      BY <1>2, <2>2, <2>4 DEF Current, Kept, Goes
    <3> QED BY <1>2, <2>1, <2>2, <2>3, <3>1 DEF OrderInv
  <2>5. CASE Turns(v, w)
    <3>1. Known(v, q[i].snap)
      BY <1>2, <2>1, <2>2, <2>3 DEF InboxInv, Recent, Taken
    <3>2. q[i].snap.turn \in Nat /\ v.snap.turn \in Nat
      BY <1>2, <2>1, <2>2, ServerFields, SnapFields DEF Fitting, Fits
    <3> QED BY <1>2, <2>2, <2>5, <3>1, <3>2 DEF Known, Turns, Current
  <2> QED BY <2>3, <2>4, <2>5
<1> QED BY <1>3, <1>4

-----------------------------------------------------------------------------
(***************************************************************************)
(* The next match opens.                                                   *)
(***************************************************************************)
Opening(v, w) == <<RoomEvent("match_start", Room(w.room, w.gone)), GameStateSync(w.snap)>>

LEMMA OpeningPoints ==
    ASSUME NEW v, NEW w, ServerTyped(w)
    PROVE  LET p == Opening(v, w)
           IN  /\ p \in Seq(InMessages) /\ Fitting(p) /\ Len(p) = 2
               /\ p[1] = RoomEvent("match_start", Room(w.room, w.gone))
               /\ p[1].type = "match_start" /\ p[1].room.status = w.room
               /\ p[2] = GameStateSync(w.snap)
               /\ p[2].type = "game_state_sync" /\ p[2].snap = w.snap /\ p[2].room = NoRoom
<1>1. Fits(RoomEvent("match_start", Room(w.room, w.gone))) /\ Fits(GameStateSync(w.snap))
  BY MessagesFit, ServerFields DEF Room, Rooms, EventTypes
<1>2. Fitting(Opening(v, w))
  BY <1>1, TwoFit DEF Opening
<1> QED BY <1>2 DEF Opening, Fitting, RoomEvent, GameStateSync, Message, Room

LEMMA TwoJoined ==
    ASSUME NEW q \in Seq(InMessages), NEW o \in Seq(InMessages), Len(o) = 2
    PROVE  /\ Len(q \o o) = Len(q) + 2 /\ Len(q) \in Nat
           /\ \A i \in 1 .. Len(q) : (q \o o)[i] = q[i]
           /\ (q \o o)[Len(q) + 1] = o[1] /\ (q \o o)[Len(q) + 2] = o[2]
           /\ \A i \in 1 .. Len(q \o o) :
                i \in 1 .. Len(q) \/ i = Len(q) + 1 \/ i = Len(q) + 2
<1>1. 1 \in 1 .. Len(o) /\ 2 \in 1 .. Len(o)
  OBVIOUS
<1>2. /\ Len(q \o o) = Len(q) + Len(o) /\ Len(q) \in Nat
      /\ \A i \in 1 .. Len(q) : (q \o o)[i] = q[i]
  BY JoinedPoints
<1>3. (q \o o)[Len(q) + 1] = o[1] /\ (q \o o)[Len(q) + 2] = o[2]
  BY <1>1, JoinedPoints
<1>4. \A i \in 1 .. Len(q \o o) : i \in 1 .. Len(q) \/ i = Len(q) + 1 \/ i = Len(q) + 2
  BY <1>2
<1> QED BY <1>2, <1>3, <1>4

LEMMA LateOpened ==
    ASSUME NEW q \in Seq(InMessages), NEW v, NEW w, ServerTyped(w)
    PROVE  LET p == q \o Opening(v, w)
           IN  /\ ~Clean(p)
               /\ \A i \in 1 .. Len(q) : ~Late(p, i)
               /\ Late(p, Len(q) + 1) /\ Late(p, Len(q) + 2)
<1> DEFINE o == Opening(v, w)
           p == q \o o
<1>1. /\ o \in Seq(InMessages) /\ Len(o) = 2
      /\ o[1].type = "match_start" /\ o[2].type # "match_start"
  BY OpeningPoints
<1> HIDE DEF o
<1>2. /\ Len(p) = Len(q) + 2 /\ Len(q) \in Nat
      /\ p[Len(q) + 1] = o[1] /\ p[Len(q) + 2] = o[2]
  BY <1>1, TwoJoined
<1> HIDE DEF p
<1>3. ~Clean(p) /\ \A i \in 1 .. Len(q) : ~Late(p, i)
  BY <1>1, <1>2 DEF Clean, Late
<1>4. Late(p, Len(q) + 1) /\ Late(p, Len(q) + 2)
  BY <1>1, <1>2 DEF Late
<1> QED BY <1>3, <1>4 DEF p, o

LEMMA OpenedFirst ==
    ASSUME NEW v, ServerTyped(v), NEW w, Opens(v, w), ReadsInv(v)
    PROVE  /\ w.snap.match = v.snap.match + 1 /\ w.snap.status = "aiming" /\ w.snap.at = 0
           /\ v.snap.match \in Nat /\ w.snap.match \in Nat /\ ReadsInv(w)
           /\ w.snap.match > v.snap.match
<1>1. v.snap.match \in Nat /\ v.snap.match >= 1
  BY ServerFields, SnapFields DEF ReadsInv
<1> QED BY <1>1 DEF Opens, FirstSnap, Snap, ReadsInv

LEMMA InboxOpens ==
    ASSUME NEW v, ServerTyped(v), NEW w, ServerTyped(w), Opens(v, w), ReadsInv(v),
           NEW q, Fitting(q), InboxInv(v, q)
    PROVE  InboxInv(w, q \o Opening(v, w))
<1> DEFINE o == Opening(v, w)
           p == q \o o
<1>1. /\ q \in Seq(InMessages)
      /\ o \in Seq(InMessages) /\ Len(o) = 2
      /\ o[1].type = "match_start" /\ o[1].room.status = w.room
      /\ o[2].type = "game_state_sync" /\ o[2].snap = w.snap /\ o[2].room = NoRoom
  BY OpeningPoints DEF Fitting
<1>2. /\ Len(p) = Len(q) + 2 /\ Len(q) \in Nat
      /\ \A i \in 1 .. Len(q) : p[i] = q[i]
      /\ p[Len(q) + 1] = o[1] /\ p[Len(q) + 2] = o[2]
  BY <1>1, TwoJoined
<1>3. /\ \A i \in 1 .. Len(q) : ~Late(p, i)
      /\ Late(p, Len(q) + 1) /\ Late(p, Len(q) + 2)
  BY <1>1, LateOpened
<1>4. w.room = "playing" /\ w.snap.match = v.snap.match + 1 /\ v.snap.match \in Nat
  BY OpenedFirst DEF Opens
<1> HIDE DEF o, p
<1>5. ASSUME NEW i \in 1 .. Len(q)
      PROVE  Past(w, q[i]) /\ ~Closes(q[i])
  <2>1. Fits(q[i])
    BY DEF Fitting
  <2>2. ASSUME q[i].type = "game_state_sync" PROVE q[i].snap.match < w.snap.match
    <3>1. q[i].snap.match \in Nat
      BY <2>1, <2>2, SnapFields DEF Fits
    <3>2. q[i].snap.match <= v.snap.match
      BY <1>4, <2>2, <3>1 DEF InboxInv, Recent, Past, Taken, OfMatch
    <3> QED BY <1>4, <3>1, <3>2
  <2> QED BY <2>2 DEF Past, InboxInv, Opens, Over
<1>6. Recent(w, o[1]) /\ ~Closes(o[1])
  BY <1>1, <1>4 DEF Recent, Closes, Over, Told, Ends
<1>7. Recent(w, o[2]) /\ ~Closes(o[2])
  BY <1>1, <1>4, TakenSelf DEF Recent, Closes, Over, Told, Ends, NoRoom, Room
<1>8. \A i \in 1 .. Len(p) : i \in 1 .. Len(q) \/ i = Len(q) + 1 \/ i = Len(q) + 2
  BY <1>2
<1>9. InboxInv(w, p)
  BY <1>2, <1>3, <1>5, <1>6, <1>7, <1>8 DEF InboxInv
<1> QED BY <1>9 DEF p, o

LEMMA AcceptedOpens ==
    ASSUME NEW v, ServerTyped(v), NEW w, ServerTyped(w), Opens(v, w), ReadsInv(v),
           NEW q, Fitting(q), NEW s \in Snaps, AcceptedInv(v, q, s)
    PROVE  AcceptedInv(w, q \o Opening(v, w), s)
<1>1. ~Clean(q \o Opening(v, w))
  BY LateOpened DEF Fitting
<1>2. ASSUME s # NoSnap PROVE s.match < w.snap.match
  <2>1. s.match \in Nat
    BY <1>2, SnapFields DEF Snaps
  <2>2. s.match <= v.snap.match /\ v.snap.match \in Nat /\ w.snap.match = v.snap.match + 1
    BY <1>2, <2>1, OpenedFirst DEF AcceptedInv, Taken, OfMatch
  <2> QED BY <2>1, <2>2
<1> QED BY <1>1, <1>2 DEF AcceptedInv

LEMMA OrderOpens ==
    ASSUME NEW v, ServerTyped(v), NEW w, ServerTyped(w), Opens(v, w),
           NEW q, Fitting(q)
    PROVE  OrderInv(w, q \o Opening(v, w)) /\ OnItsWay(w, q \o Opening(v, w))
<1> DEFINE o == Opening(v, w)
           p == q \o o
<1>1. /\ q \in Seq(InMessages)
      /\ o \in Seq(InMessages) /\ Len(o) = 2
      /\ o[1].type = "match_start" 
      /\ o[2].type = "game_state_sync" /\ o[2].snap = w.snap
  BY OpeningPoints DEF Fitting
<1>2. /\ Len(p) = Len(q) + 2 /\ Len(q) \in Nat
      /\ p[Len(q) + 1] = o[1] /\ p[Len(q) + 2] = o[2]
  BY <1>1, TwoJoined
<1>3. /\ \A i \in 1 .. Len(q) : ~Late(p, i)
      /\ Late(p, Len(q) + 1) /\ Late(p, Len(q) + 2)
  BY <1>1, LateOpened
<1> HIDE DEF o, p
<1>4. \A i \in 1 .. Len(p) : i \in 1 .. Len(q) \/ i = Len(q) + 1 \/ i = Len(q) + 2
  BY <1>2
<1>5. OrderInv(w, p)
  BY <1>1, <1>2, <1>3, <1>4 DEF OrderInv
<1>6. OnItsWay(w, p)
  <2>1. Len(q) + 2 \in 1 .. Len(p)
    BY <1>2
  <2> QED BY <1>1, <1>2, <1>3, <2>1 DEF OnItsWay, Current
<1> QED BY <1>5, <1>6 DEF p, o

-----------------------------------------------------------------------------
(***************************************************************************)
(* A snapshot of the present turn stays on its way, or the page has it.    *)
(***************************************************************************)
TellsTurn(w, p) ==
    \E i \in 1 .. Len(p) : p[i].type = "game_state_sync" /\ Current(w, p[i].snap)

LEMMA WayJoined ==
    ASSUME NEW w, NEW q \in Seq(InMessages), NEW p \in Seq(InMessages), Clean(p)
    PROVE  /\ OnItsWay(w, q) => OnItsWay(w, q \o p)
           /\ TellsTurn(w, p) => OnItsWay(w, q \o p)
<1>1. ASSUME OnItsWay(w, q) PROVE OnItsWay(w, q \o p)
  <2>1. PICK i \in 1 .. Len(q) :
            Late(q, i) /\ q[i].type = "game_state_sync" /\ Current(w, q[i].snap)
    BY <1>1 DEF OnItsWay
  <2>2. i \in 1 .. Len(q \o p) /\ (q \o p)[i] = q[i] /\ Late(q \o p, i)
    BY <2>1, JoinedPoints, LateJoined
  <2> QED BY <2>1, <2>2 DEF OnItsWay
<1>2. ASSUME TellsTurn(w, p) PROVE OnItsWay(w, q \o p)
  <2>1. PICK i \in 1 .. Len(p) : p[i].type = "game_state_sync" /\ Current(w, p[i].snap)
    BY <1>2 DEF TellsTurn
  <2>2. Len(q) + i \in 1 .. Len(q \o p) /\ Len(q) + i > Len(q) /\ (q \o p)[Len(q) + i] = p[i]
    BY <2>1, JoinedPoints
  <2>3. Late(q \o p, Len(q) + i)
    BY <2>2, LateJoined
  <2> QED BY <2>1, <2>2, <2>3 DEF OnItsWay
<1> QED BY <1>1, <1>2

LEMMA CurrentKept ==
    ASSUME NEW v, NEW w, Goes(v, w), Kept(v, w)
    PROVE  /\ \A s : Current(v, s) <=> Current(w, s)
           /\ \A q : OnItsWay(v, q) <=> OnItsWay(w, q)
BY DEF Current, Goes, Kept, OnItsWay

-----------------------------------------------------------------------------
(***************************************************************************)
(* The steps of the lobby, as the browser sees them.                       *)
(***************************************************************************)
Says(w, m) ==
    /\ Fits(m) /\ m.type # "match_start" /\ Recent(w, m)
    /\ Closes(m) => w.room \in Over
    /\ m.type = "shot_started" /\ w.room = "playing" => w.snap.status = "moving"

LEMMA OneTells == ASSUME NEW w, NEW m, Says(w, m) PROVE Tells(w, <<m>>)
<1>1. Fitting(<<m>>)
  BY OneFits DEF Says
<1>2. Len(<<m>>) = 1 /\ <<m>>[1] = m /\ \A i \in 1 .. 1 : i = 1
  OBVIOUS
<1> QED BY <1>1, <1>2 DEF Says, Tells, Clean

LEMMA TwoTell == ASSUME NEW w, NEW m, NEW k, Says(w, m), Says(w, k) PROVE Tells(w, <<m, k>>)
<1>1. Fitting(<<m, k>>)
  BY TwoFit DEF Says
<1>2. Len(<<m, k>>) = 2 /\ <<m, k>>[1] = m /\ <<m, k>>[2] = k
      /\ \A i \in 1 .. 2 : i = 1 \/ i = 2
  OBVIOUS
<1> QED BY <1>1, <1>2 DEF Says, Tells, Clean

LEMMA SyncSays ==
    ASSUME NEW w, NEW s \in LobbySnaps, Taken(w, s)
    PROVE  /\ Says(w, GameStateSync(s))
           /\ GameStateSync(s).type = "game_state_sync" /\ GameStateSync(s).snap = s
<1>1. Fits(GameStateSync(s))
  BY MessagesFit
<1> QED BY <1>1 DEF Says, GameStateSync, Message, Recent, Closes, NoRoom, Room, Over, Told, Ends

LEMMA ShotSays ==
    ASSUME NEW w, NEW shot \in Shots, shot.match = w.snap.match, shot.seq <= w.snap.shot,
           w.room = "playing" => w.snap.status = "moving"
    PROVE  /\ Says(w, ShotStarted(shot))
           /\ ShotStarted(shot).type = "shot_started" /\ ShotStarted(shot).shot = shot
<1>1. Fits(ShotStarted(shot))
  BY MessagesFit
<1> QED BY <1>1 DEF Says, ShotStarted, Message, Recent, Closes, NoRoom, Room, Over, Told, Ends

LEMMA RoomSays ==
    ASSUME NEW w, NEW r \in Rooms, NEW type \in EventTypes \ {"match_start", "shot_started"},
           w.room = "playing" => /\ type \in Told => r.status = "playing"
                                 /\ type \notin Ends,
           type = "room_closed" \/ r.status \in Over => w.room \in Over
    PROVE  Says(w, RoomEvent(type, r)) /\ RoomEvent(type, r).type = type
<1>1. Fits(RoomEvent(type, r))
  BY MessagesFit
<1> QED BY <1>1 DEF Says, RoomEvent, Message, Recent, Closes, EventTypes

LEMMA TimeoutSays ==
    ASSUME NEW w
    PROVE  /\ Says(w, Message("turn_timeout", NoSnap, NoShot, NoRoom))
           /\ Message("turn_timeout", NoSnap, NoShot, NoRoom).type = "turn_timeout"
<1>1. Fits(Message("turn_timeout", NoSnap, NoShot, NoRoom))
  BY MessagesFit
<1> QED BY <1>1 DEF Says, Message, Recent, Closes, NoRoom, Room, Over, Told, Ends

\* What of the messages gets on the wire.
Sent(msgs) == IF link.sub = "on" THEN msgs ELSE <<>>

Carries(p) ==
    /\ link'.in = link.in \o p /\ (link.sub # "on" => p = <<>>)
    /\ link'.st = link.st /\ link'.sub = link.sub /\ link'.greeting = link.greeting
    /\ \/ link'.out = link.out
       \/ link.out # <<>> /\ link'.out = Tail(link.out) /\ link.sub = "on"
    /\ UNCHANGED browser

Plays(p) ==
    /\ Goes(server, server') /\ Tells(server', p)
    /\ link.sub = "on" /\ InPlay' /\ server'.snap.status = "aiming" =>
        \/ TellsTurn(server', p)
        \/ /\ Kept(server, server')
           /\ Has(link.out, "request_game_state") =>
                Has(link'.out, "request_game_state") \/ Read(Me) \in server'.read
           /\ \A r \in server.read : r \in server'.read \/ ~Current(server, r.snap)
    /\ TimedSnap' /\ server'.snap.player = Me /\ Has(link'.out, "shot_started") =>
        TimedSnap /\ server'.snap = server.snap
    /\ Mine' =>
        /\ (server'.snap = server.snap /\ InPlay) \/ ServeShot
        /\ \A i \in 1 .. Len(p) : p[i].type = "shot_started" => p[i].shot = ActiveShot'

Reopens(p) ==
    /\ Opens(server, server') /\ p = Opening(server, server')
    /\ link.sub = "on" /\ next.page # "loading"

LobbyStep(p) == Carries(p) /\ (Plays(p) \/ Reopens(p))

LEMMA Unsent == ASSUME Typed PROVE link.in \o <<>> = link.in
BY DEF Typed, LinkTyped

LEMMA ActsCarry ==
    ASSUME Typed, NEW msgs, Acts(msgs)
    PROVE  Carries(Sent(msgs)) /\ link'.out = link.out
<1>1. CASE link.sub = "on"
  <2> DEFINE in == link.in \o msgs
  <2>1. link' = [link EXCEPT !.in = in]
    BY <1>1 DEF Acts, Published
  <2> HIDE DEF in
  <2>2. /\ link'.in = in /\ link'.out = link.out /\ link'.st = link.st
        /\ link'.sub = link.sub /\ link'.greeting = link.greeting
    BY <2>1 DEF Typed, LinkTyped
  <2> QED BY <1>1, <2>2 DEF Acts, Carries, Sent, in
<1>2. CASE link.sub # "on"
  <2>1. link' = link
    BY <1>2 DEF Acts, Published
  <2> QED BY <1>2, <2>1, Unsent DEF Acts, Carries, Sent
<1> QED BY <1>1, <1>2

LEMMA ServesCarry ==
    ASSUME Typed, NEW type, NEW msgs, Serves(type, msgs)
    PROVE  /\ Carries(msgs) /\ Sent(msgs) = msgs
           /\ link.out # <<>> /\ link'.out = Tail(link.out) /\ Head(link.out).type = type
           /\ link.sub = "on" /\ Asking(Me)
<1>1. link.sub = "on" /\ Published(link, msgs) = [link EXCEPT !.in = @ \o msgs]
  BY DEF Serves, Published
<1> DEFINE mine == IF type = "shot_started" /\ msgs # <<>> THEN server'.snap.shot ELSE link.mine
           in == link.in \o msgs
<1>2. link' = [link EXCEPT !.in = in, !.out = Tail(link.out), !.mine = mine]
  BY <1>1 DEF Serves, Typed, LinkTyped
<1> HIDE DEF mine, in
<1>3. /\ link'.in = in /\ link'.out = Tail(link.out) /\ link'.st = link.st
      /\ link'.sub = link.sub /\ link'.greeting = link.greeting
  BY <1>2 DEF Typed, LinkTyped
<1> QED BY <1>1, <1>3 DEF Serves, Carries, Sent, in

LEMMA HasTail ==
    ASSUME Typed, link.out # <<>>, NEW type, Has(Tail(link.out), type)
    PROVE  Has(link.out, type)
<1>1. link.out \in Seq(OutMessages)
  BY DEF Typed, LinkTyped
<1> QED BY <1>1, TailPoints DEF Has

LEMMA StillHas ==
    ASSUME Typed, link.out # <<>>, NEW type, Has(link.out, type), Head(link.out).type # type
    PROVE  Has(Tail(link.out), type)
<1>1. link.out \in Seq(OutMessages)
  BY DEF Typed, LinkTyped
<1>2. PICK i \in 1 .. Len(link.out) : link.out[i].type = type
  BY DEF Has
<1>3. i > 1
  BY <1>1, <1>2, TailPoints
<1>4. i - 1 \in 1 .. Len(Tail(link.out)) /\ Tail(link.out)[i - 1] = link.out[i]
  BY <1>1, <1>2, <1>3, TailPoints
<1> QED BY <1>2, <1>4 DEF Has

LEMMA SentTells == ASSUME NEW w, NEW msgs, Tells(w, msgs) PROVE Tells(w, Sent(msgs))
BY TellsNothing DEF Sent

\* The lobby's step ends with the snapshot of what it made.
LEMMA LastTells ==
    ASSUME Typed, ServerTyped(server'), NEW m
    PROVE  /\ TellsTurn(server', <<GameStateSync(server'.snap)>>)
           /\ TellsTurn(server', <<m, GameStateSync(server'.snap)>>)
<1> DEFINE k == GameStateSync(server'.snap)
<1>1. k.type = "game_state_sync" /\ k.snap = server'.snap
  BY DEF GameStateSync, Message
<1> HIDE DEF k
<1>2. Current(server', k.snap)
  BY <1>1 DEF Current
<1>3. Len(<<k>>) = 1 /\ <<k>>[1] = k /\ Len(<<m, k>>) = 2 /\ <<m, k>>[2] = k
  OBVIOUS
<1>4. 1 \in 1 .. Len(<<k>>) /\ 2 \in 1 .. Len(<<m, k>>)
  BY <1>3
<1>5. TellsTurn(server', <<k>>) /\ TellsTurn(server', <<m, k>>)
  BY <1>1, <1>2, <1>3, <1>4 DEF TellsTurn
<1> QED BY <1>5 DEF k

-----------------------------------------------------------------------------
\* A step that ends with a snapshot of a turn, which no player has been given the time for.
LEMMA TurnPlays ==
    ASSUME Typed, ServerTyped(server'), NEW msgs, Carries(Sent(msgs)),
           Goes(server, server'), Tells(server', msgs), TellsTurn(server', msgs),
           ~TimedSnap', ~Mine'
    PROVE  \E p : LobbyStep(p)
<1>1. Tells(server', Sent(msgs))
  BY SentTells
<1>2. link.sub = "on" => TellsTurn(server', Sent(msgs))
  BY DEF Sent
<1>3. Plays(Sent(msgs))
  BY <1>1, <1>2 DEF Plays
<1> QED BY <1>3 DEF LobbyStep

LEMMA PassedFields ==
    ASSUME NEW s \in LobbySnaps
    PROVE  /\ Passed(s).match = s.match /\ Passed(s).shot = s.shot /\ Passed(s).turn = s.turn + 1
           /\ Passed(s).at = 0 /\ Passed(s).status = "aiming" /\ Passed(s).balls = s.balls
<1> DEFINE turn == s.turn + 1
           player == Opposite(s.player)
<1>1. Passed(s) = [s EXCEPT !.turn = turn, !.at = 0, !.player = player, !.status = "aiming"]
  BY DEF Passed, LobbySnaps
<1> HIDE DEF turn, player
<1>2. /\ Passed(s).match = s.match /\ Passed(s).shot = s.shot /\ Passed(s).turn = turn
      /\ Passed(s).at = 0 /\ Passed(s).status = "aiming" /\ Passed(s).balls = s.balls
  BY <1>1 DEF LobbySnaps
<1> QED BY <1>2 DEF turn

LEMMA StartedFields ==
    ASSUME NEW s \in LobbySnaps
    PROVE  /\ Started(s).match = s.match /\ Started(s).shot = s.shot + 1
           /\ Started(s).turn = s.turn /\ Started(s).status = "moving" /\ Started(s).at = 0
           /\ Started(s).player = s.player /\ Started(s).balls = s.balls
<1> DEFINE shot == s.shot + 1
<1>1. Started(s) = [s EXCEPT !.shot = shot, !.at = 0, !.status = "moving"]
  BY DEF Started, LobbySnaps
<1> HIDE DEF shot
<1>2. /\ Started(s).match = s.match /\ Started(s).shot = shot
      /\ Started(s).turn = s.turn /\ Started(s).status = "moving" /\ Started(s).at = 0
      /\ Started(s).player = s.player /\ Started(s).balls = s.balls
  BY <1>1 DEF LobbySnaps
<1> QED BY <1>2 DEF shot

LEMMA EndedFields ==
    ASSUME NEW s \in LobbySnaps, NEW balls, NEW t \in Ended(s, balls)
    PROVE  /\ t.match = s.match /\ t.shot = s.shot /\ t.turn = s.turn + 1
           /\ t.at = 0 /\ t.status = "aiming" /\ t.balls = balls
<1>1. CASE t = [Passed(s) EXCEPT !.balls = balls]
  <2>1. Passed(s) \in LobbySnaps
    BY SnapsTyped
  <2> QED BY <1>1, <2>1, PassedFields DEF LobbySnaps
<1>2. CASE t = [s EXCEPT !.status = "aiming", !.turn = @ + 1, !.at = 0, !.balls = balls]
  <2> DEFINE turn == s.turn + 1
  <2>1. t = [s EXCEPT !.status = "aiming", !.turn = turn, !.at = 0, !.balls = balls]
    BY <1>2 DEF LobbySnaps
  <2> HIDE DEF turn
  <2>2. /\ t.match = s.match /\ t.shot = s.shot /\ t.turn = turn
        /\ t.at = 0 /\ t.status = "aiming" /\ t.balls = balls
    BY <2>1 DEF LobbySnaps
  <2> QED BY <2>2 DEF turn
<1> QED BY <1>1, <1>2 DEF Ended

LEMMA WonFields ==
    ASSUME NEW s \in LobbySnaps, NEW balls
    PROVE  Won(s, balls).match = s.match /\ Won(s, balls).balls = balls
BY DEF Won, LobbySnaps

\* What changes in the lobby's record when its snapshot does.
LEMMA NewSnap ==
    ASSUME Typed, NEW s, server' = [server EXCEPT !.snap = s]
    PROVE  /\ server'.snap = s /\ server'.room = server.room /\ server'.read = server.read
           /\ server'.gone = server.gone
BY DEF Typed, ServerTyped

LEMMA NotYet ==
    ASSUME Typed, server'.snap.status = "aiming", server'.snap.at = 0
    PROVE  ~TimedSnap' /\ ~Mine'
BY DEF TimedSnap, Mine

\* A turn begins, after one that the clock ended or after a shot.
LEMMA NextTurn ==
    ASSUME Typed, ServerTyped(server'), ReadsInv(server),
           server'.room = server.room, server'.read = server.read,
           server'.snap.match = server.snap.match, server'.snap.shot = server.snap.shot,
           server'.snap.turn = server.snap.turn + 1, server'.snap.status = "aiming",
           server'.snap.at = 0, IsPrefix(server.snap.balls, server'.snap.balls),
           InPlay, server.snap.status = "moving" => \A r \in server.read : r.snap.status # "moving",
           NEW msgs, \/ msgs = <<GameStateSync(server'.snap)>>
                     \/ msgs = <<Message("turn_timeout", NoSnap, NoShot, NoRoom),
                                 GameStateSync(server'.snap)>>,
           Carries(Sent(msgs))
    PROVE  \E p : LobbyStep(p)
<1>1. Goes(server, server')
  BY DEF Goes, Turns, InPlay, Over
<1>2. server'.snap \in LobbySnaps /\ Taken(server', server'.snap)
  BY TakenSelf, ServerFields
<1>3. Tells(server', msgs) /\ TellsTurn(server', msgs)
  <2> DEFINE k == GameStateSync(server'.snap)
             m == Message("turn_timeout", NoSnap, NoShot, NoRoom)
  <2>1. Says(server', k) /\ Says(server', m)
    BY <1>2, SyncSays, TimeoutSays
  <2>2. TellsTurn(server', <<k>>) /\ TellsTurn(server', <<m, k>>)
    BY LastTells
  <2> HIDE DEF k, m
  <2>3. Tells(server', <<k>>) /\ Tells(server', <<m, k>>)
    BY <2>1, OneTells, TwoTell
  <2>4. msgs = <<k>> \/ msgs = <<m, k>>
    BY DEF k, m
  <2> QED BY <2>2, <2>3, <2>4
<1> QED BY <1>1, <1>3, TurnPlays, NotYet

LEMMA TurnTimeoutStep ==
    ASSUME Typed, ReadsInv(server), TurnTimeout, ServerTyped(server')
    PROVE  \E p : LobbyStep(p)
<1>1. server.snap \in LobbySnaps
  BY ServerFields DEF Typed
<1>2. server'.snap = Passed(server.snap) /\ server'.room = server.room /\ server'.read = server.read
  BY NewSnap DEF TurnTimeout, Typed, ServerTyped
<1>3. /\ server'.snap.match = server.snap.match /\ server'.snap.shot = server.snap.shot
      /\ server'.snap.turn = server.snap.turn + 1 /\ server'.snap.status = "aiming"
      /\ server'.snap.at = 0 /\ server'.snap.balls = server.snap.balls
  BY <1>1, <1>2, PassedFields
<1>4. IsPrefix(server.snap.balls, server'.snap.balls)
  BY <1>1, <1>3, SnapFields, PrefixFacts
<1>5. Carries(Sent(<<Message("turn_timeout", NoSnap, NoShot, NoRoom),
                     GameStateSync(server'.snap)>>))
  BY ActsCarry DEF TurnTimeout
<1>6. InPlay /\ server.snap.status = "aiming"
  BY DEF TurnTimeout, TimedSnap, InPlay
<1> QED BY <1>2, <1>3, <1>4, <1>5, <1>6, NextTurn

LEMMA NoneMoving ==
    ASSUME Ordinary, NoneLate
    PROVE  \A r \in server.read : r.snap.status # "moving"
BY DEF Ordinary, NoneLate

LEMMA ShotTimeoutStep ==
    ASSUME Ordinary, Typed, ReadsInv(server), ShotTimeout, ServerTyped(server')
    PROVE  \E p : LobbyStep(p)
<1>1. server.snap \in LobbySnaps
  BY ServerFields DEF Typed
<1>2. server'.snap = Passed(server.snap) /\ server'.room = server.room /\ server'.read = server.read
  BY NewSnap DEF ShotTimeout, Typed, ServerTyped
<1>3. /\ server'.snap.match = server.snap.match /\ server'.snap.shot = server.snap.shot
      /\ server'.snap.turn = server.snap.turn + 1 /\ server'.snap.status = "aiming"
      /\ server'.snap.at = 0 /\ server'.snap.balls = server.snap.balls
  BY <1>1, <1>2, PassedFields
<1>4. IsPrefix(server.snap.balls, server'.snap.balls)
  BY <1>1, <1>3, SnapFields, PrefixFacts
<1>5. Carries(Sent(<<GameStateSync(server'.snap)>>))
  BY ActsCarry DEF ShotTimeout
<1>6. InPlay /\ \A r \in server.read : r.snap.status # "moving"
  BY NoneMoving DEF ShotTimeout, InPlay
<1> QED BY <1>2, <1>3, <1>4, <1>5, <1>6, NextTurn

LEMMA EndStep ==
    ASSUME Ordinary, Typed, ReadsInv(server), ServerTyped(server'), NoneLate, InPlay,
           NEW balls, IsPrefix(server.snap.balls, balls),
           NEW s \in Ended(server.snap, balls), server' = [server EXCEPT !.snap = s],
           Carries(Sent(<<GameStateSync(server'.snap)>>))
    PROVE  \E p : LobbyStep(p)
<1>1. server.snap \in LobbySnaps
  BY ServerFields DEF Typed
<1>2. server'.snap = s /\ server'.room = server.room /\ server'.read = server.read
  BY NewSnap
<1>3. /\ server'.snap.match = server.snap.match /\ server'.snap.shot = server.snap.shot
      /\ server'.snap.turn = server.snap.turn + 1 /\ server'.snap.status = "aiming"
      /\ server'.snap.at = 0 /\ server'.snap.balls = balls
  BY <1>1, <1>2, EndedFields
<1>4. \A r \in server.read : r.snap.status # "moving"
  BY NoneMoving
<1> QED BY <1>2, <1>3, <1>4, NextTurn

LEMMA WinStep ==
    ASSUME Typed, ServerTyped(server'), InPlay,
           NEW balls, IsPrefix(server.snap.balls, balls),
           server'.snap = Won(server.snap, balls), server'.room = "finished",
           server'.read = server.read,
           Carries(Sent(<<GameStateSync(server'.snap), MatchFinished>>))
    PROVE  \E p : LobbyStep(p)
<1> DEFINE w == Won(server.snap, balls)
<1>1. server.snap \in LobbySnaps /\ w.match = server.snap.match /\ w.balls = balls
      /\ server.gone \in BOOLEAN
  BY WonFields, ServerFields DEF Typed
<1>3. server'.snap = w /\ server'.room = "finished" /\ server'.read = server.read
  OBVIOUS
<1> HIDE DEF w
<1>4. Goes(server, server')
  BY <1>1, <1>3 DEF Goes, InPlay, Over
<1>5. server'.snap \in LobbySnaps /\ Taken(server', server'.snap)
  BY TakenSelf, ServerFields
<1>6. Says(server', MatchFinished)
  <2>1. Room("finished", server.gone) \in Rooms /\ Room("finished", server.gone).status = "finished"
    BY <1>1 DEF Room, Rooms, RoomStatuses
  <2> QED BY <1>3, <2>1, RoomSays DEF MatchFinished, EventTypes, Over
<1>7. Tells(server', <<GameStateSync(server'.snap), MatchFinished>>)
  BY <1>5, <1>6, SyncSays, TwoTell
<1>8. Tells(server', Sent(<<GameStateSync(server'.snap), MatchFinished>>))
  BY <1>7, SentTells
<1>9. ~TimedSnap' /\ ~Mine' /\ ~InPlay'
  BY <1>3 DEF TimedSnap, Mine, InPlay
<1>10. Plays(Sent(<<GameStateSync(server'.snap), MatchFinished>>))
  BY <1>4, <1>8, <1>9 DEF Plays
<1> QED BY <1>10 DEF LobbyStep

LEMMA StartClockStep ==
    ASSUME Ordinary, Typed, StartClock, ServerTyped(server')
    PROVE  \E p : LobbyStep(p)
<1>1. server.snap \in LobbySnaps
  BY ServerFields DEF Typed
<1>2. server'.snap = [server.snap EXCEPT !.at = 1] /\ server'.room = server.room
      /\ server'.read = server.read
  BY DEF StartClock, Typed, ServerTyped
<1>3. Kept(server, server') /\ server'.snap.match = server.snap.match
  BY <1>1, <1>2 DEF Kept, LobbySnaps
<1>4. Goes(server, server')
  BY <1>1, <1>2, <1>3, SnapFields, PrefixFacts DEF Goes, Kept, Over
<1>5. server'.snap \in LobbySnaps /\ Taken(server', server'.snap)
  BY TakenSelf, ServerFields
<1>6. Carries(Sent(<<GameStateSync(server'.snap)>>)) /\ link'.out = link.out
  BY ActsCarry DEF StartClock
<1>7. Tells(server', <<GameStateSync(server'.snap)>>)
      /\ TellsTurn(server', <<GameStateSync(server'.snap)>>)
  BY <1>5, SyncSays, OneTells, LastTells
<1>8. Tells(server', Sent(<<GameStateSync(server'.snap)>>))
      /\ (link.sub = "on" => TellsTurn(server', Sent(<<GameStateSync(server'.snap)>>)))
  BY <1>7, SentTells DEF Sent
<1>9. ~Mine'
  BY <1>3 DEF StartClock, Mine, Kept
<1>10. ~(server'.snap.player = Me /\ Has(link'.out, "shot_started"))
  <2>1. server'.snap.player = server.snap.player
    BY <1>3 DEF Kept
  <2> QED BY <1>6, <2>1 DEF StartClock, NoneWaits, Ordinary, Has
<1>11. Plays(Sent(<<GameStateSync(server'.snap)>>))
  BY <1>4, <1>8, <1>9, <1>10 DEF Plays
<1> QED BY <1>6, <1>11 DEF LobbyStep

\* A shot starts.
LEMMA ShotSteps ==
    ASSUME Typed, ServerTyped(server'), TimedSnap,
           server' = [server EXCEPT !.snap = Started(@)],
           Carries(Sent(<<ShotStarted(ActiveShot')>>)),
           server.snap.player = Me => ServeShot
    PROVE  \E p : LobbyStep(p)
<1>1. server.snap \in LobbySnaps /\ server'.snap \in LobbySnaps
  BY ServerFields DEF Typed
<1>2. server'.snap = Started(server.snap) /\ server'.room = server.room
      /\ server'.read = server.read
  BY NewSnap DEF Typed, ServerTyped
<1>3. Begins(server, server') /\ server'.snap.match = server.snap.match
  BY <1>1, <1>2, StartedFields DEF Begins, TimedSnap
<1>4. Goes(server, server')
  BY <1>1, <1>2, <1>3, SnapFields, PrefixFacts DEF Goes, Begins, TimedSnap, Over
<1>5. /\ ActiveShot' \in Shots /\ ActiveShot'.match = server'.snap.match
      /\ ActiveShot'.seq = server'.snap.shot
  BY <1>1, ActiveTyped DEF ActiveShot, Shot
<1> DEFINE shot == ActiveShot'
<1>6. server'.snap.shot \in Nat /\ server'.snap.status = "moving"
  BY <1>1, <1>3, SnapFields DEF Begins
<1>7. shot \in Shots /\ shot.match = server'.snap.match /\ shot.seq <= server'.snap.shot
  BY <1>5, <1>6
<1> HIDE DEF shot
<1>8. Says(server', ShotStarted(shot)) /\ ShotStarted(shot).shot = shot
  BY <1>6, <1>7, ShotSays
<1>9. Tells(server', <<ShotStarted(shot)>>)
  BY <1>8, OneTells
<1>10. Tells(server', Sent(<<ShotStarted(shot)>>))
  BY <1>9, SentTells
<1>11. \A i \in 1 .. Len(Sent(<<ShotStarted(shot)>>)) : Sent(<<ShotStarted(shot)>>)[i].shot = shot
  <2>1. Len(<<ShotStarted(shot)>>) = 1 /\ <<ShotStarted(shot)>>[1] = ShotStarted(shot)
        /\ Len(<<>>) = 0 /\ \A i \in 1 .. 1 : i = 1
    OBVIOUS
  <2> QED BY <1>8, <2>1 DEF Sent
<1>12. ~TimedSnap' /\ (Mine' => ServeShot)
  BY <1>3, <1>6 DEF TimedSnap, Mine, Begins
<1>13. Plays(Sent(<<ShotStarted(shot)>>))
  BY <1>4, <1>6, <1>10, <1>11, <1>12 DEF Plays, shot
<1> QED BY <1>13 DEF LobbyStep, shot

LEMMA OtherShootsStep ==
    ASSUME Typed, OtherShoots, ServerTyped(server')
    PROVE  \E p : LobbyStep(p)
<1>1. Carries(Sent(<<ShotStarted(ActiveShot')>>))
  BY ActsCarry DEF OtherShoots
<1>2. server.snap.player # Me
  BY ClientAssumption DEF OtherShoots
<1> QED BY <1>1, <1>2, ShotSteps DEF OtherShoots

\* The match stays as it is.
LEMMA StillPlays ==
    ASSUME Typed, ServerTyped(server'), server'.snap = server.snap,
           server'.room = server.room \/ (server.room = "finished" /\ server'.room \in Over),
           \A r \in server'.read : r \in server.read \/ r.snap = server.snap,
           NEW p, Tells(server', p), Carries(p),
           link.sub = "on" /\ Aimed =>
                \/ TellsTurn(server', p)
                \/ /\ Has(link.out, "request_game_state") =>
                        Has(link'.out, "request_game_state") \/ Read(Me) \in server'.read
                   /\ \A r \in server.read : r \in server'.read \/ ~Current(server, r.snap),
           Mine => \A i \in 1 .. Len(p) : p[i].type = "shot_started" => p[i].shot = ActiveShot
    PROVE  LobbyStep(p)
<1>1. server.snap \in LobbySnaps
  BY ServerFields DEF Typed
<1>2. Kept(server, server') /\ (InPlay' => InPlay) /\ ActiveShot' = ActiveShot
      /\ (server.room \in Over => server'.room \in Over)
  BY DEF Kept, InPlay, Over, ActiveShot
<1>3. Goes(server, server')
  BY <1>1, <1>2, SnapFields, PrefixFacts DEF Goes, InPlay
<1>4. (TimedSnap' => TimedSnap) /\ (Mine' => Mine /\ InPlay)
  BY <1>2 DEF TimedSnap, Mine, InPlay
<1>5. link.sub = "on" /\ InPlay' /\ server'.snap.status = "aiming" => Aimed /\ link.sub = "on"
  BY <1>2 DEF Aimed
<1>6. Plays(p)
  BY <1>2, <1>3, <1>4, <1>5 DEF Plays
<1> QED BY <1>6 DEF LobbyStep

\* It tells of the room, or nothing.
LEMMA RoomPlays ==
    ASSUME Typed, ServerTyped(server'), server'.snap = server.snap,
           server'.room = server.room \/ (server.room = "finished" /\ server'.room \in Over),
           server'.read = server.read,
           NEW p, Tells(server', p), Carries(p),
           Has(link.out, "request_game_state") => Has(link'.out, "request_game_state"),
           Mine => \A i \in 1 .. Len(p) : p[i].type # "shot_started"
    PROVE  LobbyStep(p)
BY StillPlays

LEMMA RoomMessage ==
    ASSUME NEW w, NEW m, Says(w, m), m.type # "shot_started"
    PROVE  /\ Tells(w, Sent(<<m>>))
           /\ \A i \in 1 .. Len(Sent(<<m>>)) : Sent(<<m>>)[i].type # "shot_started"
<1>1. Tells(w, <<m>>)
  BY OneTells
<1>2. Len(<<m>>) = 1 /\ <<m>>[1] = m /\ Len(<<>>) = 0 /\ \A i \in 1 .. 1 : i = 1
  OBVIOUS
<1> QED BY <1>1, <1>2, SentTells DEF Sent

LEMMA OtherGoneStep ==
    ASSUME Typed, OtherGone, ServerTyped(server')
    PROVE  \E p : LobbyStep(p)
<1> DEFINE m == RoomEvent("player_disconnected", NoRoom)
<1>1. server'.snap = server.snap /\ server'.room = server.room /\ server'.read = server.read
  BY DEF OtherGone, Typed, ServerTyped
<1>2. Says(server', m) /\ m.type # "shot_started"
  <2>1. NoRoom \in Rooms /\ NoRoom.status = "unknown"
    BY NothingTyped DEF NoRoom, Room
  <2> QED BY <2>1, RoomSays DEF EventTypes, Told, Ends, Over
<1>3. Carries(Sent(<<m>>)) /\ link'.out = link.out
  BY ActsCarry DEF OtherGone
<1> HIDE DEF m
<1>4. LobbyStep(Sent(<<m>>))
  BY <1>1, <1>2, <1>3, RoomMessage, RoomPlays
<1> QED BY <1>4

LEMMA OtherBackStep ==
    ASSUME Typed, OtherBack, ServerTyped(server')
    PROVE  \E p : LobbyStep(p)
<1> DEFINE m == RoomEvent("player_reconnected", ServerRoom')
<1>1. server'.snap = server.snap /\ server'.room = server.room /\ server'.read = server.read
  BY DEF OtherBack, Typed, ServerTyped
<1>2. ServerRoom' \in Rooms /\ ServerRoom'.status = server'.room
  BY ServerFields DEF ServerRoom, Room, Rooms
<1>3. Says(server', m) /\ m.type # "shot_started"
  <2> DEFINE r == ServerRoom'
  <2>1. r \in Rooms /\ r.status = server'.room
    BY <1>2
  <2> HIDE DEF r
  <2>2. Says(server', RoomEvent("player_reconnected", r))
        /\ RoomEvent("player_reconnected", r).type = "player_reconnected"
    BY <2>1, RoomSays DEF EventTypes, Ends
  <2> QED BY <2>2 DEF r
<1>4. Carries(Sent(<<m>>)) /\ link'.out = link.out
  BY ActsCarry DEF OtherBack
<1> HIDE DEF m
<1>5. LobbyStep(Sent(<<m>>))
  BY <1>1, <1>3, <1>4, RoomMessage, RoomPlays
<1> QED BY <1>5

LEMMA OtherRequestsStep ==
    ASSUME Typed, OtherRequests, ServerTyped(server')
    PROVE  \E p : LobbyStep(p)
<1>1. server'.snap = server.snap /\ server'.room = server.room
      /\ server'.read = server.read \cup {Read(Other)}
  BY DEF OtherRequests, Typed, ServerTyped
<1>2. Read(Other).snap = server.snap
  BY DEF Read
<1>3. Carries(Sent(<<>>)) /\ link'.out = link.out /\ Sent(<<>>) = <<>>
  BY ActsCarry DEF OtherRequests, Sent
<1>4. Tells(server', <<>>) /\ Len(<<>>) = 0
  BY TellsNothing
<1>5. LobbyStep(<<>>)
  BY <1>1, <1>2, <1>3, <1>4, StillPlays
<1> QED BY <1>5

LEMMA RoomEndsStep ==
    ASSUME Typed, RoomEnds, ServerTyped(server')
    PROVE  \E p : LobbyStep(p)
<1>1. CASE /\ server' = [server EXCEPT !.room = "waiting", !.gone = FALSE]
           /\ Acts(<<RoomEvent("player_left", ServerRoom')>>)
  <2> DEFINE r == ServerRoom'
             m == RoomEvent("player_left", r)
  <2>1. server'.snap = server.snap /\ server'.room = "waiting" /\ server'.read = server.read
    BY <1>1 DEF Typed, ServerTyped
  <2>2. r \in Rooms
    BY ServerFields DEF ServerRoom, Room, Rooms
  <2>3. Carries(Sent(<<m>>)) /\ link'.out = link.out
    BY <1>1, ActsCarry
  <2> HIDE DEF r
  <2>4. Says(server', m) /\ m.type # "shot_started"
    BY <2>1, <2>2, RoomSays DEF EventTypes, Ends, Over, Told
  <2> HIDE DEF m
  <2>5. server.room = "finished" /\ server'.room \in Over
    BY <2>1 DEF RoomEnds, Over
  <2>6. LobbyStep(Sent(<<m>>))
    BY <2>1, <2>3, <2>4, <2>5, RoomMessage, RoomPlays
  <2> QED BY <2>6
<1>2. CASE /\ server' = [server EXCEPT !.room = "expired"]
           /\ Acts(<<RoomEvent("room_closed", NoRoom)>>)
  <2> DEFINE m == RoomEvent("room_closed", NoRoom)
  <2>1. server'.snap = server.snap /\ server'.room = "expired" /\ server'.read = server.read
    BY <1>2 DEF Typed, ServerTyped
  <2>2. Says(server', m) /\ m.type # "shot_started"
    BY <2>1, NothingTyped, RoomSays DEF EventTypes, Ends, Over, Told
  <2>3. Carries(Sent(<<m>>)) /\ link'.out = link.out
    BY <1>2, ActsCarry
  <2> HIDE DEF m
  <2>4. server.room = "finished" /\ server'.room \in Over
    BY <2>1 DEF RoomEnds, Over
  <2>5. LobbyStep(Sent(<<m>>))
    BY <2>1, <2>2, <2>3, <2>4, RoomMessage, RoomPlays
  <2> QED BY <2>5
<1> QED BY <1>1, <1>2 DEF RoomEnds

LEMMA PublishReadStep ==
    ASSUME Typed, ReadsInv(server), PublishRead, ServerTyped(server')
    PROVE  \E p : LobbyStep(p)
<1>1. PICK r \in server.read :
          /\ server' = [server EXCEPT !.read = @ \ {r}]
          /\ Acts(IF r.snap.status = "moving"
                  THEN <<GameStateSync(r.snap),
                         ShotStarted(Shot(r.snap.match, r.snap.shot, r.snap.player))>>
                  ELSE <<GameStateSync(r.snap)>>)
  BY DEF PublishRead
<1> DEFINE sync == GameStateSync(r.snap)
           shot == Shot(r.snap.match, r.snap.shot, r.snap.player)
           msgs == IF r.snap.status = "moving" THEN <<sync, ShotStarted(shot)>> ELSE <<sync>>
<1>2. /\ server'.snap = server.snap /\ server'.room = server.room
      /\ server'.read = server.read \ {r}
  BY <1>1 DEF Typed, ServerTyped
<1>3. /\ server.snap \in LobbySnaps /\ r.snap \in LobbySnaps /\ Taken(server, r.snap)
      /\ server.room = "playing" /\ r.snap.status = "moving" =>
            r.snap.turn = server.snap.turn /\ server.snap.status = "moving"
  BY ServerFields DEF Typed, ReadsInv
<1>4. Taken(server', r.snap)
  BY <1>2, <1>3 DEF Taken, OfMatch, Known
<1>5. Says(server', sync) /\ sync.type = "game_state_sync" /\ sync.snap = r.snap
  BY <1>3, <1>4, SyncSays
<1>6. /\ shot \in Shots /\ shot.match = server.snap.match /\ shot.seq = r.snap.shot
  BY <1>3, ActiveTyped DEF Shot, Taken, OfMatch
<1>7. Carries(Sent(msgs)) /\ link'.out = link.out
  BY <1>1, ActsCarry
<1>8. ASSUME Mine, r.snap.status = "moving" PROVE shot = ActiveShot
  <2>1. Known(server, r.snap)
    BY <1>3, <1>8 DEF Taken, Mine, InPlay
  <2>2. r.snap.shot = server.snap.shot /\ r.snap.player = server.snap.player
        /\ r.snap.match = server.snap.match
    BY <1>3, <1>8, <2>1 DEF Known, Mine, InPlay, Taken, OfMatch
  <2> QED BY <2>2 DEF ActiveShot
<1>9. ASSUME Aimed PROVE r.snap.status # "moving"
  BY <1>3, <1>9 DEF Aimed, InPlay
<1> HIDE DEF sync, shot
<1>10. CASE r.snap.status # "moving"
  <2>1. msgs = <<sync>> /\ sync.type # "shot_started"
    BY <1>5, <1>10
  <2>2. Tells(server', Sent(<<sync>>))
        /\ \A i \in 1 .. Len(Sent(<<sync>>)) : Sent(<<sync>>)[i].type # "shot_started"
    BY <1>5, <2>1, RoomMessage
  <2>3. ASSUME link.sub = "on", Current(server, r.snap)
        PROVE  TellsTurn(server', Sent(<<sync>>))
    <3>1. Len(<<sync>>) = 1 /\ <<sync>>[1] = sync /\ 1 \in 1 .. Len(<<sync>>)
      OBVIOUS
    <3>2. Current(server', sync.snap)
      BY <1>2, <1>5, <2>3 DEF Current
    <3> QED BY <1>5, <2>3, <3>1, <3>2 DEF Sent, TellsTurn
  <2>4. LobbyStep(Sent(<<sync>>))
    BY <1>2, <1>7, <2>1, <2>2, <2>3, StillPlays
  <2> QED BY <2>4
<1>11. CASE r.snap.status = "moving"
  <2>1. msgs = <<sync, ShotStarted(shot)>>
    BY <1>11
  <2>2. ASSUME InPlay PROVE server'.snap.status = "moving" /\ shot.seq <= server'.snap.shot
    <3>1. Known(server, r.snap) /\ server.snap.status = "moving"
      BY <1>3, <1>11, <2>2 DEF Taken, InPlay
    <3> QED BY <1>2, <1>6, <3>1 DEF Known
  <2>3. Says(server', ShotStarted(shot)) /\ ShotStarted(shot).type = "shot_started"
        /\ ShotStarted(shot).shot = shot
    <3>1. Fits(ShotStarted(shot))
      BY <1>6, MessagesFit
    <3>2. ShotStarted(shot).type = "shot_started" /\ ShotStarted(shot).shot = shot
          /\ ShotStarted(shot).room = NoRoom
      BY DEF ShotStarted, Message
    <3>3. Recent(server', ShotStarted(shot))
      BY <1>2, <1>6, <2>2, <3>2 DEF Recent, InPlay, Told, Ends
    <3> QED BY <1>2, <2>2, <3>1, <3>2, <3>3 DEF Says, Closes, NoRoom, Room, Over, InPlay
  <2>4. Tells(server', <<sync, ShotStarted(shot)>>)
    BY <1>5, <2>3, TwoTell
  <2>5. Tells(server', Sent(msgs))
    BY <2>1, <2>4, SentTells
  <2>6. ASSUME Mine, NEW i \in 1 .. Len(Sent(msgs)), Sent(msgs)[i].type = "shot_started"
        PROVE  Sent(msgs)[i].shot = ActiveShot
    <3>1. Len(<<>>) = 0 /\ Len(<<sync, ShotStarted(shot)>>) = 2
          /\ <<sync, ShotStarted(shot)>>[1] = sync
          /\ <<sync, ShotStarted(shot)>>[2] = ShotStarted(shot)
          /\ \A k \in 1 .. 2 : k = 1 \/ k = 2
      OBVIOUS
    <3>2. shot = ActiveShot
      BY <1>8, <1>11, <2>6
    <3> QED BY <1>5, <2>1, <2>3, <2>6, <3>1, <3>2 DEF Sent
  <2>7. ~Aimed
    BY <1>9, <1>11
  <2> HIDE DEF msgs
  <2>8. LobbyStep(Sent(msgs))
    BY <1>2, <1>7, <2>5, <2>6, <2>7, StillPlays
  <2> QED BY <2>8
<1> QED BY <1>10, <1>11

LEMMA PlayedOn ==
    ASSUME Typed
    PROVE  IsPrefix(server.snap.balls, Played) /\ Played \in Seq(Nat)
<1>1. server.snap.balls \in Seq(Nat) /\ server.snap.shot \in Nat
  BY ServerFields, SnapFields DEF Typed
<1> QED BY <1>1, PrefixFacts DEF Played

LEMMA OtherResultStep ==
    ASSUME Ordinary, Typed, ReadsInv(server), OtherResult, ServerTyped(server')
    PROVE  \E p : LobbyStep(p)
<1>1. InPlay /\ NoneLate /\ IsPrefix(server.snap.balls, Played)
  BY PlayedOn DEF OtherResult, InPlay
<1>2. CASE /\ \E s \in Ended(server.snap, Played) : server' = [server EXCEPT !.snap = s]
           /\ Acts(<<GameStateSync(server'.snap)>>)
  <2>1. PICK s \in Ended(server.snap, Played) : server' = [server EXCEPT !.snap = s]
    BY <1>2
  <2>2. Carries(Sent(<<GameStateSync(server'.snap)>>))
    BY <1>2, ActsCarry
  <2> QED BY <1>1, <2>1, <2>2, EndStep
<1>3. CASE /\ server' = [server EXCEPT !.snap = Won(@, Played), !.room = "finished",
                                       !.unheard = Unheard]
           /\ Acts(<<GameStateSync(server'.snap), MatchFinished>>)
  <2>1. Carries(Sent(<<GameStateSync(server'.snap), MatchFinished>>))
    BY <1>3, ActsCarry
  <2>2. /\ server'.snap = Won(server.snap, Played) /\ server'.room = "finished"
        /\ server'.read = server.read
    BY <1>3 DEF Typed, ServerTyped
  <2> QED BY <1>1, <2>1, <2>2, WinStep
<1> QED BY <1>2, <1>3 DEF OtherResult, Played

LEMMA RematchStep ==
    ASSUME Ordinary, Typed, Rematch, ServerTyped(server')
    PROVE  \E p : LobbyStep(p)
<1>1. link.sub = "on" /\ next.page # "loading"
  BY DEF Rematch, OpensHeard, Ordinary
<1>2. server.read = {}
  BY DEF Rematch, Ordinary
<1> DEFINE snap == FirstSnap(server.snap.match + 1)
<1>3. server' = [server EXCEPT !.snap = snap, !.room = "playing", !.asked = FALSE,
                               !.unheard = FALSE]
  BY DEF Rematch, Typed, ServerTyped
<1> HIDE DEF snap
<1>4. server'.snap = snap /\ server'.room = "playing" /\ server'.read = server.read
  BY <1>3 DEF Typed, ServerTyped
<1>5. Opens(server, server')
  BY <1>2, <1>4 DEF Rematch, Opens, snap
<1>6. Carries(Sent(Opening(server, server')))
  <2>1. Acts(Opening(server, server'))
    BY DEF Rematch, Opening, ServerRoom
  <2> QED BY <2>1, ActsCarry
<1>7. Sent(Opening(server, server')) = Opening(server, server')
  BY <1>1 DEF Sent
<1>8. LobbyStep(Opening(server, server'))
  BY <1>1, <1>5, <1>6, <1>7 DEF LobbyStep, Reopens
<1> QED BY <1>8

LEMMA LobbySteps ==
    ASSUME Ordinary, Typed, ReadsInv(server), Lobby
    PROVE  \E p : LobbyStep(p)
<1>1. ServerTyped(server')
  BY LobbyTyped DEF Typed
<1> QED BY <1>1, StartClockStep, TurnTimeoutStep, OtherShootsStep, ShotTimeoutStep,
           OtherResultStep, RematchStep, OtherGoneStep, OtherBackStep, OtherRequestsStep,
           PublishReadStep, RoomEndsStep DEF Lobby

-----------------------------------------------------------------------------
(***************************************************************************)
(* It serves the browser.                                                  *)
(***************************************************************************)
LEMMA RequestStep ==
    ASSUME Typed, RequestGameState, ServerTyped(server')
    PROVE  \E p : LobbyStep(p)
<1>1. Carries(<<>>) /\ link.sub = "on"
  BY ServesCarry DEF RequestGameState
<1>2. server'.snap = server.snap /\ server'.room = server.room
      /\ server'.read \subseteq server.read \cup {Read(Me)} /\ server.read \subseteq server'.read
      /\ (InPlay => Read(Me) \in server'.read)
  BY DEF RequestGameState, Typed, ServerTyped, InPlay
<1>3. Read(Me).snap = server.snap
  BY DEF Read
<1>4. Tells(server', <<>>) /\ Len(<<>>) = 0
  BY TellsNothing
<1>5. LobbyStep(<<>>)
  BY <1>1, <1>2, <1>3, <1>4, StillPlays DEF Aimed
<1> QED BY <1>5

LEMMA ServedNothing ==
    ASSUME Typed, ServerTyped(server'), server'.snap = server.snap, server'.room = server.room,
           server'.read = server.read,
           NEW type \in OutTypes \ {"request_game_state"}, Serves(type, <<>>)
    PROVE  \E p : LobbyStep(p)
<1>1. /\ Carries(<<>>) /\ link.out # <<>> /\ link'.out = Tail(link.out)
      /\ Head(link.out).type # "request_game_state"
  BY ServesCarry
<1>2. Has(link.out, "request_game_state") => Has(link'.out, "request_game_state")
  BY <1>1, StillHas
<1>3. Tells(server', <<>>) /\ Len(<<>>) = 0
  BY TellsNothing
<1>4. LobbyStep(<<>>)
  BY <1>1, <1>2, <1>3, RoomPlays
<1> QED BY <1>4

LEMMA ServeShotStep ==
    ASSUME Typed, ServeShot, ServerTyped(server')
    PROVE  \E p : LobbyStep(p)
<1>1. CASE /\ TimedSnap /\ server' = [server EXCEPT !.snap = Started(@)]
           /\ Serves("shot_started", <<ShotStarted(ActiveShot')>>)
  <2>1. Carries(Sent(<<ShotStarted(ActiveShot')>>))
    BY <1>1, ServesCarry
  <2> QED BY <1>1, <2>1, ShotSteps
<1>2. CASE Serves("shot_started", <<>>) /\ UNCHANGED server
  BY <1>2, ServedNothing DEF OutTypes
<1> QED BY <1>1, <1>2 DEF ServeShot

LEMMA ServeRematchStep ==
    ASSUME Typed, ServeRematch, ServerTyped(server')
    PROVE  \E p : LobbyStep(p)
<1>1. server'.snap = server.snap /\ server'.room = server.room /\ server'.read = server.read
  BY DEF ServeRematch, Typed, ServerTyped
<1>2. CASE server.room # "finished"
  BY <1>1, <1>2, ServedNothing DEF ServeRematch, OutTypes
<1>3. CASE server.room = "finished"
  <2> DEFINE m == RoomEvent("rematch_requested", NoRoom)
  <2>1. /\ Carries(<<m>>) /\ Sent(<<m>>) = <<m>> /\ link.out # <<>>
        /\ link'.out = Tail(link.out) /\ Head(link.out).type = "rematch_request"
    BY <1>3, ServesCarry DEF ServeRematch
  <2>2. Has(link.out, "request_game_state") => Has(link'.out, "request_game_state")
    BY <2>1, StillHas
  <2>3. Says(server', m) /\ m.type # "shot_started"
    <3>1. NoRoom \in Rooms /\ NoRoom.status = "unknown"
      BY NothingTyped DEF NoRoom, Room
    <3> QED BY <3>1, RoomSays DEF EventTypes, Told, Ends, Over
  <2> HIDE DEF m
  <2>4. LobbyStep(<<m>>)
    BY <1>1, <2>1, <2>2, <2>3, RoomMessage, RoomPlays
  <2> QED BY <2>4
<1> QED BY <1>2, <1>3

\* The table that comes back is the one that the shot makes of the table as it was.
LEMMA ResultIsPlayed ==
    ASSUME Typed, ShotInv, ServeResult, AcceptsResult(Head(link.out)),
           Head(link.out).type = "shot_result_submitted", link.out # <<>>
    PROVE  Head(link.out).balls = Played
<1>1. Mine
  BY DEF AcceptsResult, Mine, InPlay
<1>2. Head(link.out) = link.out[1] /\ 1 \in 1 .. Len(link.out)
  BY DEF Typed, LinkTyped
<1> QED BY <1>1, <1>2 DEF ShotInv

LEMMA ServeResultStep ==
    ASSUME Ordinary, Typed, ReadsInv(server), ShotInv, ServeResult, ServerTyped(server')
    PROVE  \E p : LobbyStep(p)
<1> DEFINE r == Head(link.out)
<1>1. NoneLate /\ IsPrefix(server.snap.balls, Played)
  BY PlayedOn DEF ServeResult
<1>2. CASE /\ AcceptsResult(r)
           /\ \E s \in Ended(server.snap, r.balls) : server' = [server EXCEPT !.snap = s]
           /\ Serves("shot_result_submitted", <<GameStateSync(server'.snap)>>)
  <2>1. Carries(Sent(<<GameStateSync(server'.snap)>>)) /\ r.type = "shot_result_submitted"
        /\ link.out # <<>>
    BY <1>2, ServesCarry
  <2>2. r.balls = Played /\ InPlay
    BY <1>2, <2>1, ResultIsPlayed DEF AcceptsResult, InPlay
  <2>3. PICK s \in Ended(server.snap, Played) : server' = [server EXCEPT !.snap = s]
    BY <1>2, <2>2
  <2> QED BY <1>1, <2>1, <2>2, <2>3, EndStep
<1>3. CASE /\ AcceptsResult(r)
           /\ server' = [server EXCEPT !.snap = Won(@, r.balls), !.room = "finished"]
           /\ Serves("shot_result_submitted", <<GameStateSync(server'.snap), MatchFinished>>)
  <2>1. Carries(Sent(<<GameStateSync(server'.snap), MatchFinished>>))
        /\ r.type = "shot_result_submitted" /\ link.out # <<>>
    BY <1>3, ServesCarry
  <2>2. r.balls = Played /\ InPlay
    BY <1>3, <2>1, ResultIsPlayed DEF AcceptsResult, InPlay
  <2>3. /\ server'.snap = Won(server.snap, Played) /\ server'.room = "finished"
        /\ server'.read = server.read
    BY <1>3, <2>2 DEF Typed, ServerTyped
  <2> QED BY <1>1, <2>1, <2>2, <2>3, WinStep
<1>4. CASE Serves("shot_result_submitted", <<>>) /\ UNCHANGED server
  BY <1>4, ServedNothing DEF OutTypes
<1> QED BY <1>2, <1>3, <1>4 DEF ServeResult

LEMMA ServeSteps ==
    ASSUME Ordinary, Typed, ReadsInv(server), ShotInv, Serve
    PROVE  \E p : LobbyStep(p)
<1>1. ServerTyped(server')
  BY ServeTyped DEF Typed
<1> QED BY <1>1, RequestStep, ServeShotStep, ServeResultStep, ServeRematchStep DEF Serve

-----------------------------------------------------------------------------
(***************************************************************************)
(* What the lobby's steps keep.                                            *)
(***************************************************************************)
LEMMA PlaysClean ==
    ASSUME Typed, NEW p, Carries(p), Plays(p)
    PROVE  Clean(link'.in) <=> Clean(link.in)
<1>1. link.in \in Seq(InMessages) /\ p \in Seq(InMessages) /\ Clean(p)
  BY DEF Typed, LinkTyped, Plays, Tells, Fitting
<1> QED BY <1>1, LateJoined DEF Carries

LEMMA ReopensUnclean ==
    ASSUME Typed, ServerTyped(server'), NEW p, Carries(p), Reopens(p)
    PROVE  ~Clean(link'.in)
<1>1. link.in \in Seq(InMessages)
  BY DEF Typed, LinkTyped
<1> QED BY <1>1, LateOpened DEF Carries, Reopens

LEMMA BrowserKept ==
    ASSUME NEW p, Carries(p)
    PROVE  next' = next /\ view' = view /\ refs' = refs /\ cue' = cue
BY DEF Carries, browser

LEMMA WireLobby ==
    ASSUME Typed, ServerTyped(server'), WireInv, NEW p, LobbyStep(p)
    PROVE  WireInv'
<1>1. /\ ServerTyped(server) /\ Fitting(link.in) /\ next.snap \in Snaps
      /\ link.in \in Seq(InMessages)
  BY DEF Typed, LinkTyped, States
<1>2. link'.in = link.in \o p /\ link'.sub = link.sub /\ next' = next
  BY BrowserKept DEF LobbyStep, Carries
<1>3. CASE Plays(p)
  <2>1. Goes(server, server') /\ Tells(server', p) /\ Clean(p) /\ p \in Seq(InMessages)
    BY <1>3 DEF Plays, Tells, Fitting
  <2>2. ReadsInv(server')
    BY <1>1, <2>1, ReadsStay DEF WireInv
  <2>3. InboxInv(server', link'.in)
    BY <1>1, <1>2, <2>1, InboxStays DEF WireInv
  <2>4. AcceptedInv(server', link'.in, next'.snap)
    BY <1>1, <1>2, <2>1, AcceptedStays DEF WireInv
  <2>5. OrderInv(server', link'.in)
    BY <1>1, <1>2, <2>1, OrderStays DEF WireInv
  <2>6. AnswerInv(server', link', next'.snap)
    <3>1. SUFFICES ASSUME link.sub = "on", server'.room = "playing",
                          server'.snap.status = "aiming"
                   PROVE  \/ Has(link'.out, "request_game_state")
                          \/ \E r \in server'.read : r.by = Me /\ Current(server', r.snap)
                          \/ OnItsWay(server', link'.in)
                          \/ Clean(link'.in) /\ Current(server', next.snap)
      BY <1>2 DEF AnswerInv
    <3>2. CASE TellsTurn(server', p)
      BY <1>1, <1>2, <2>1, <3>2, WayJoined
    <3>3. CASE ~TellsTurn(server', p)
      <4>1. /\ Kept(server, server')
            /\ Has(link.out, "request_game_state") =>
                Has(link'.out, "request_game_state") \/ Read(Me) \in server'.read
            /\ \A r \in server.read : r \in server'.read \/ ~Current(server, r.snap)
        BY <1>3, <3>1, <3>3 DEF Plays, InPlay
      <4>2. \A s : Current(server, s) <=> Current(server', s)
        BY <2>1, <4>1, CurrentKept
      <4>3. OnItsWay(server, link.in) => OnItsWay(server', link'.in)
        BY <1>1, <1>2, <2>1, <4>1, CurrentKept, WayJoined
      <4>4. Read(Me).by = Me /\ Current(server, Read(Me).snap)
        BY DEF Read, Current
      <4>5. server.room = "playing" /\ server.snap.status = "aiming"
        BY <2>1, <3>1, <4>1 DEF Goes, Kept
      <4>6. \/ Has(link.out, "request_game_state")
            \/ \E r \in server.read : r.by = Me /\ Current(server, r.snap)
            \/ OnItsWay(server, link.in)
            \/ Clean(link.in) /\ Current(server, next.snap)
        BY <3>1, <4>5 DEF WireInv, AnswerInv
      <4>7. Clean(link.in) => Clean(link'.in)
        BY <1>3, PlaysClean DEF LobbyStep
      <4> QED BY <4>1, <4>2, <4>3, <4>4, <4>6, <4>7
    <3> QED BY <3>2, <3>3
  <2> QED BY <2>2, <2>3, <2>4, <2>5, <2>6 DEF WireInv
<1>4. CASE Reopens(p)
  <2>1. Opens(server, server') /\ p = Opening(server, server')
    BY <1>4 DEF Reopens
  <2>2. ReadsInv(server')
    BY <1>1, <2>1, OpenedFirst DEF WireInv
  <2>3. InboxInv(server', link'.in)
    BY <1>1, <1>2, <2>1, InboxOpens DEF WireInv
  <2>4. AcceptedInv(server', link'.in, next'.snap)
    BY <1>1, <1>2, <2>1, AcceptedOpens DEF WireInv
  <2>5. OrderInv(server', link'.in) /\ OnItsWay(server', link'.in)
    BY <1>1, <1>2, <2>1, OrderOpens
  <2>6. AnswerInv(server', link', next'.snap)
    BY <2>5 DEF AnswerInv
  <2> QED BY <2>2, <2>3, <2>4, <2>5, <2>6 DEF WireInv
<1> QED BY <1>3, <1>4 DEF LobbyStep

LEMMA LinkLobby ==
    ASSUME LinkInv, Typed, NEW p, LobbyStep(p)
    PROVE  LinkInv'
<1>1. /\ link'.st = link.st /\ link'.sub = link.sub /\ link'.greeting = link.greeting
      /\ link.sub # "on" => link'.in = link.in /\ link'.out = link.out
  BY Unsent DEF LobbyStep, Carries
<1>2. \/ (InPlay' => InPlay) /\ (server.room \in Over => server'.room \in Over)
      \/ link.sub = "on"
  BY DEF LobbyStep, Plays, Goes, Reopens, InPlay
<1> QED BY <1>1, <1>2 DEF LinkInv

LEMMA PageLobby ==
    ASSUME PageInv, Typed, ServerTyped(server'), NEW p, LobbyStep(p)
    PROVE  PageInv'
<1>1. next' = next /\ view' = view /\ cue' = cue /\ link'.st = link.st
  BY BrowserKept DEF LobbyStep, Carries
<1>2. CASE Plays(p)
  <2>1. (InPlay' => InPlay) /\ (server.room \in Over => server'.room \in Over)
        /\ (Clean(link'.in) <=> Clean(link.in))
    BY <1>2, PlaysClean DEF LobbyStep, Plays, Goes, InPlay
  <2> QED BY <1>1, <2>1 DEF PageInv
<1>3. CASE Reopens(p)
  <2>1. ~Clean(link'.in) /\ next.page # "loading" /\ server.room = "finished"
    BY <1>3, ReopensUnclean DEF LobbyStep, Reopens, Opens
  <2> QED BY <1>1, <2>1 DEF PageInv, Over
<1> QED BY <1>2, <1>3 DEF LobbyStep

LEMMA NumbersLobby ==
    ASSUME NumbersInv, Typed, ServerTyped(server'), NEW p, LobbyStep(p)
    PROVE  NumbersInv'
<1>1. next' = next /\ view' = view /\ refs' = refs
  BY BrowserKept DEF LobbyStep
<1>2. CASE Plays(p)
  <2>1. server.snap.shot \in Nat /\ server'.snap.shot \in Nat
        /\ refs.shotSeq \in Nat /\ refs.lastShot \in Nat /\ next.shot.seq \in Nat
    BY ServerFields, SnapFields DEF Typed, RefRecords, States, Shots
  <2>2. InPlay' => InPlay /\ server.snap.shot <= server'.snap.shot
    BY <1>2, <2>1 DEF Plays, Goes, Kept, Begins, Turns, InPlay
  <2>3. Clean(link'.in) <=> Clean(link.in)
    BY <1>2, PlaysClean DEF LobbyStep
  <2> QED BY <1>1, <2>1, <2>2, <2>3 DEF NumbersInv
<1>3. CASE Reopens(p)
  BY <1>3, ReopensUnclean DEF LobbyStep, NumbersInv
<1> QED BY <1>2, <1>3 DEF LobbyStep

LEMMA TableLobby ==
    ASSUME TableInv, Typed, ServerTyped(server'), NEW p, LobbyStep(p)
    PROVE  TableInv'
<1>1. next' = next /\ view' = view /\ refs' = refs
  BY BrowserKept DEF LobbyStep
<1>2. CASE Plays(p)
  <2>1. /\ refs.balls \in Seq(Nat) /\ server.snap.balls \in Seq(Nat)
        /\ server'.snap.balls \in Seq(Nat)
    BY ServerFields, SnapFields DEF Typed, RefRecords
  <2>2. IsPrefix(server.snap.balls, server'.snap.balls)
    BY <1>2 DEF Plays, Goes
  <2>3. Clean(link'.in) <=> Clean(link.in)
    BY <1>2, PlaysClean DEF LobbyStep
  <2> QED BY <1>1, <2>1, <2>2, <2>3, PrefixTransitive DEF TableInv
<1>3. CASE Reopens(p)
  BY <1>3, ReopensUnclean DEF LobbyStep, TableInv
<1> QED BY <1>2, <1>3 DEF LobbyStep

\* What is in the inbox after a message of the lobby was in it before or is new.
LEMMA Joined ==
    ASSUME Typed, NEW p \in Seq(InMessages), link'.in = link.in \o p, NEW type
    PROVE  /\ Has(link'.in, type) => Has(link.in, type) \/ Has(p, type)
           /\ \A i \in 1 .. Len(link'.in) :
                \/ \E k \in 1 .. Len(link.in) : link'.in[i] = link.in[k]
                \/ \E k \in 1 .. Len(p) : link'.in[i] = p[k]
<1>1. link.in \in Seq(InMessages)
  BY DEF Typed, LinkTyped
<1>2. ASSUME NEW i \in 1 .. Len(link'.in)
      PROVE  \/ \E k \in 1 .. Len(link.in) : link'.in[i] = link.in[k]
             \/ \E k \in 1 .. Len(p) : link'.in[i] = p[k]
  <2>1. CASE i \in 1 .. Len(link.in)
    BY <1>1, <2>1, JoinedPoints
  <2>2. CASE i > Len(link.in)
    <3>1. i - Len(link.in) \in 1 .. Len(p) /\ link'.in[i] = p[i - Len(link.in)]
      BY <1>1, <2>2, JoinedPoints
    <3> QED BY <3>1
  <2> QED BY <1>1, <2>1, <2>2, JoinedPoints
<1> QED BY <1>2 DEF Has

LEMMA ShowsLobby ==
    ASSUME ShowsInv, WireInv, Typed, ServerTyped(server'), NEW p, LobbyStep(p)
    PROVE  ShowsInv'
<1>1. next' = next /\ view' = view /\ refs' = refs /\ link'.in = link.in \o p
  BY BrowserKept DEF LobbyStep, Carries
<1>2. CASE Plays(p)
  <2>1. SUFFICES ASSUME Aimed', Clean(link'.in), Open, Current(server', next.snap)
                 PROVE  /\ ~Has(link'.in, "shot_started")
                        /\ "shot" \notin next.fresh /\ "reset" \notin next.fresh
                        /\ "snap" \in next.fresh \/ Ready'
    BY <1>1 DEF ShowsInv, Open
  <2>2. Goes(server, server') /\ Tells(server', p) /\ p \in Seq(InMessages)
    BY <1>2 DEF Plays, Tells, Fitting
  <2>3. server.room = "playing" /\ server'.room = "playing" /\ server'.snap.status = "aiming"
        /\ Clean(link.in) /\ (Kept(server, server') \/ Turns(server, server'))
    BY <1>2, <2>1, <2>2, PlaysClean DEF LobbyStep, Goes, Aimed, InPlay, Begins
  <2>4. next.snap # NoSnap
    <3>1. server'.snap.match >= 1
      BY <2>2 DEF WireInv, ReadsInv, Goes
    <3> QED BY <2>1, <3>1 DEF Current, NoSnap, Snap
  <2>5. Known(server, next.snap)
    BY <2>3, <2>4 DEF WireInv, AcceptedInv, Taken
  <2>6. Kept(server, server')
    <3>1. next.snap \in LobbySnaps /\ server.snap \in LobbySnaps
      BY <2>4, ServerFields DEF Typed, States, Snaps
    <3>2. next.snap.turn \in Nat /\ server.snap.turn \in Nat
      BY <3>1, SnapFields
    <3> QED BY <2>1, <2>3, <2>5, <3>2 DEF Turns, Known, Current
  <2>7. Aimed /\ Current(server, next.snap)
    BY <2>1, <2>2, <2>3, <2>6, CurrentKept DEF Aimed, InPlay, Kept
  <2>8. ~Has(p, "shot_started")
    BY <2>2, <2>3 DEF Tells, Has
  <2>9. ~Has(link'.in, "shot_started")
    BY <1>1, <2>1, <2>2, <2>3, <2>7, <2>8, Joined DEF ShowsInv
  <2>10. Ready => Ready'
    BY <1>1, <2>6 DEF Ready, Kept
  <2> QED BY <2>1, <2>3, <2>7, <2>9, <2>10 DEF ShowsInv
<1>3. CASE Reopens(p)
  BY <1>3, ReopensUnclean DEF LobbyStep, ShowsInv
<1> QED BY <1>2, <1>3 DEF LobbyStep

LEMMA OutKept ==
    ASSUME Typed, NEW p, Carries(p)
    PROVE  \E d \in {0, 1} : \A i \in 1 .. Len(link'.out) :
                i + d \in 1 .. Len(link.out) /\ link'.out[i] = link.out[i + d]
<1>1. link.out \in Seq(OutMessages) /\ Len(link.out) \in Nat
  BY DEF Typed, LinkTyped
<1>2. CASE link'.out = link.out
  <2>1. \A i \in 1 .. Len(link.out) : i + 0 \in 1 .. Len(link.out) /\ i + 0 = i
    BY <1>1
  <2> QED BY <1>2, <2>1
<1>3. CASE link.out # <<>> /\ link'.out = Tail(link.out)
  BY <1>1, <1>3, TailPoints
<1> QED BY <1>2, <1>3 DEF Carries

LEMMA HasKept ==
    ASSUME Typed, NEW p, Carries(p), NEW type, Has(link'.out, type)
    PROVE  Has(link.out, type)
BY OutKept DEF Has

LEMMA AimLobby ==
    ASSUME AimInv, Typed, ServerTyped(server'), NEW p, LobbyStep(p)
    PROVE  AimInv'
<1>1. /\ next' = next /\ view' = view /\ refs' = refs /\ Carries(p)
  BY BrowserKept DEF LobbyStep
<1>2. CASE Plays(p)
  <2>1. SUFFICES ASSUME TimedSnap', server'.snap.player = Me, Has(link'.out, "shot_started")
                 PROVE  /\ Clean(link'.in) /\ Open /\ Current(server', next.snap)
                        /\ Ready' /\ refs.report = NoShot
                        /\ \A i \in 1 .. Len(link'.out) : link'.out[i].type = "shot_started" =>
                            /\ link'.out[i].balls = server'.snap.balls
                            /\ \A j \in 1 .. Len(link'.out) : j > i =>
                                    link'.out[j].type # "shot_result_submitted"
    BY <1>1 DEF AimInv, Open
  <2>2. TimedSnap /\ server'.snap = server.snap
    BY <1>2, <2>1 DEF Plays
  <2>3. /\ Clean(link.in) /\ Open /\ Current(server, next.snap)
        /\ Ready /\ refs.report = NoShot
        /\ \A i \in 1 .. Len(link.out) : link.out[i].type = "shot_started" =>
            /\ link.out[i].balls = server.snap.balls
            /\ \A j \in 1 .. Len(link.out) : j > i =>
                    link.out[j].type # "shot_result_submitted"
    BY <1>1, <2>1, <2>2, HasKept DEF AimInv
  <2>4. Clean(link'.in)
    BY <1>1, <1>2, <2>3, PlaysClean
  <2>5. Current(server', next.snap) /\ Ready'
    BY <1>1, <2>2, <2>3 DEF Current, Ready
  <2>6. PICK d \in {0, 1} : \A i \in 1 .. Len(link'.out) :
                i + d \in 1 .. Len(link.out) /\ link'.out[i] = link.out[i + d]
    BY <1>1, OutKept
  <2>7. ASSUME NEW i \in 1 .. Len(link'.out), link'.out[i].type = "shot_started"
        PROVE  /\ link'.out[i].balls = server'.snap.balls
               /\ \A j \in 1 .. Len(link'.out) : j > i =>
                        link'.out[j].type # "shot_result_submitted"
    <3>1. i + d \in 1 .. Len(link.out) /\ link.out[i + d].type = "shot_started"
          /\ link'.out[i] = link.out[i + d]
      BY <2>6, <2>7
    <3>2. ASSUME NEW j \in 1 .. Len(link'.out), j > i
          PROVE  link'.out[j].type # "shot_result_submitted"
      <4>1. j + d \in 1 .. Len(link.out) /\ link'.out[j] = link.out[j + d] /\ j + d > i + d
        BY <2>6, <3>2
      <4> QED BY <2>3, <3>1, <4>1
    <3> QED BY <2>2, <2>3, <3>1, <3>2
  <2> QED BY <2>3, <2>4, <2>5, <2>7
<1>3. CASE Reopens(p)
  <2>1. server'.snap.at = 0
    BY <1>3 DEF Reopens, Opens, FirstSnap, Snap
  <2> QED BY <2>1 DEF AimInv, TimedSnap
<1> QED BY <1>2, <1>3 DEF LobbyStep

LEMMA ShotKept ==
    ASSUME ShotInv, Typed, ServerTyped(server'), NEW p, Carries(p), Plays(p),
           server'.snap = server.snap, InPlay, Mine'
    PROVE  ShotInv'
<1>1. next' = next /\ view' = view /\ refs' = refs
  BY BrowserKept
<1>2. Mine /\ ActiveShot' = ActiveShot /\ Played' = Played
  BY DEF Mine, ActiveShot, Played
<1>3. Clean(link'.in)
  BY <1>2, PlaysClean DEF ShotInv
<1>4. ASSUME NEW i \in 1 .. Len(link'.in), link'.in[i].type = "shot_started"
      PROVE  link'.in[i].shot = ActiveShot
  <2>1. p \in Seq(InMessages) /\ link'.in = link.in \o p
    BY DEF Plays, Tells, Fitting, Carries
  <2>2. CASE \E k \in 1 .. Len(link.in) : link'.in[i] = link.in[k]
    BY <1>2, <1>4, <2>2 DEF ShotInv
  <2>3. CASE \E k \in 1 .. Len(p) : link'.in[i] = p[k]
    BY <1>2, <1>4, <2>3 DEF Plays
  <2> QED BY <2>1, <2>2, <2>3, Joined
<1>5. ASSUME NEW i \in 1 .. Len(link'.out), link'.out[i].type = "shot_result_submitted"
      PROVE  link'.out[i].seq = server.snap.shot /\ link'.out[i].balls = Played
  BY <1>2, <1>5, OutKept DEF ShotInv
<1>6. NoResult => NoResult'
  BY HasKept DEF NoResult
<1>7. (Announced \/ Striking \/ Rolling \/ Resting) =>
            (Announced \/ Striking \/ Rolling \/ Resting)'
  BY <1>1, <1>2, <1>6 DEF Announced, Striking, Rolling, Resting, Begun
<1> QED BY <1>1, <1>2, <1>3, <1>4, <1>5, <1>7 DEF ShotInv

LEMMA ShotServed ==
    ASSUME AimInv, ShowsInv, NumbersInv, WireInv, Typed, ServerTyped(server'),
           NEW p, Carries(p), Plays(p), TimedSnap, server.snap.player = Me,
           server' = [server EXCEPT !.snap = Started(@)],
           Serves("shot_started", <<ShotStarted(ActiveShot')>>), Mine'
    PROVE  ShotInv'
<1>1. next' = next /\ view' = view /\ refs' = refs /\ server.snap \in LobbySnaps
  BY BrowserKept, ServerFields DEF Typed
<1>2. /\ server'.snap = Started(server.snap) /\ server'.room = server.room
      /\ server'.snap.match = server.snap.match /\ server'.snap.shot = server.snap.shot + 1
      /\ server'.snap.turn = server.snap.turn /\ server'.snap.balls = server.snap.balls
      /\ server.snap.shot \in Nat
  BY <1>1, NewSnap, StartedFields, SnapFields DEF Typed, ServerTyped
<1>3. link.out # <<>> /\ link'.out = Tail(link.out) /\ Head(link.out).type = "shot_started"
      /\ link.out \in Seq(OutMessages)
  BY ServesCarry DEF Typed, LinkTyped
<1>4. 1 \in 1 .. Len(link.out) /\ link.out[1].type = "shot_started"
  BY <1>3, TailPoints
<1>5. /\ Clean(link.in) /\ Open /\ Current(server, next.snap)
      /\ Ready /\ refs.report = NoShot
      /\ \A j \in 1 .. Len(link.out) : j > 1 => link.out[j].type # "shot_result_submitted"
  BY <1>4 DEF AimInv, Has
<1>6. /\ ~Has(link.in, "shot_started")
      /\ "shot" \notin next.fresh /\ "reset" \notin next.fresh
  BY <1>5 DEF ShowsInv, Aimed, TimedSnap, InPlay
<1>7. Clean(link'.in)
  BY <1>5, PlaysClean
<1>8. ASSUME NEW i \in 1 .. Len(link'.in), link'.in[i].type = "shot_started"
      PROVE  link'.in[i].shot = ActiveShot'
  <2>1. p \in Seq(InMessages) /\ link'.in = link.in \o p
    BY DEF Plays, Tells, Fitting, Carries
  <2>2. ~(\E k \in 1 .. Len(link.in) : link'.in[i] = link.in[k])
    BY <1>6, <1>8 DEF Has
  <2>3. PICK k \in 1 .. Len(p) : link'.in[i] = p[k]
    BY <2>1, <2>2, Joined
  <2> QED BY <1>8, <2>3 DEF Plays
<1>9. \A i \in 1 .. Len(link'.out) : link'.out[i].type # "shot_result_submitted"
  BY <1>3, <1>5, TailPoints
<1>10. NoResult'
  BY <1>9 DEF NoResult, Has
<1>11. refs.shotSeq <= server.snap.shot /\ refs.lastShot <= server.snap.shot
  BY <1>5, <1>6 DEF NumbersInv, Open, TimedSnap, InPlay
<1>12. refs.shotSeq \in Nat /\ refs.lastShot \in Nat
  BY DEF Typed, RefRecords
<1>13. Announced'
  BY <1>1, <1>2, <1>5, <1>10, <1>11, <1>12 DEF Announced, Ready
<1>14. next'.snap.turn = server'.snap.turn
  BY <1>1, <1>2, <1>5 DEF Current
<1> QED BY <1>1, <1>5, <1>6, <1>7, <1>8, <1>9, <1>13, <1>14 DEF ShotInv, Open

LEMMA ShotLobby ==
    ASSUME ShotInv, AimInv, ShowsInv, NumbersInv, WireInv, Typed, ServerTyped(server'),
           NEW p, LobbyStep(p)
    PROVE  ShotInv'
<1>1. CASE ~Mine'
  BY <1>1 DEF ShotInv
<1>2. CASE Reopens(p)
  <2>1. ~Mine'
    BY <1>2 DEF Reopens, Opens, FirstSnap, Snap, Mine
  <2> QED BY <1>1, <2>1
<1>3. CASE Plays(p) /\ Mine'
  <2>1. (server'.snap = server.snap /\ InPlay) \/ ServeShot
    BY <1>3 DEF Plays
  <2>2. CASE server'.snap = server.snap /\ InPlay
    BY <1>3, <2>2, ShotKept DEF LobbyStep
  <2>3. CASE UNCHANGED server
    <3>1. server'.snap = server.snap /\ InPlay
      BY <1>3, <2>3 DEF Mine, InPlay
    <3> QED BY <2>2, <3>1
  <2>4. CASE /\ TimedSnap /\ server.snap.player = Me
             /\ server' = [server EXCEPT !.snap = Started(@)]
             /\ Serves("shot_started", <<ShotStarted(ActiveShot')>>)
    BY <1>3, <2>4, ShotServed DEF LobbyStep
  <2> QED BY <2>1, <2>2, <2>3, <2>4 DEF ServeShot
<1> QED BY <1>1, <1>2, <1>3 DEF LobbyStep

-----------------------------------------------------------------------------
(***************************************************************************)
(* Steps of the browser and of its socket leave the match as it is.        *)
(***************************************************************************)
MatchKept ==
    server'.snap = server.snap /\ server'.room = server.room /\ server'.read = server.read

NextKept ==
    /\ next'.snap = next.snap /\ next'.shot = next.shot /\ next'.fresh = next.fresh
    /\ next'.turn = next.turn /\ next'.status = next.status /\ next'.room = next.room
    /\ next'.aiming = next.aiming /\ next'.animating = next.animating

LEMMA SameMatch ==
    ASSUME MatchKept
    PROVE  /\ InPlay' <=> InPlay
           /\ Aimed' <=> Aimed
           /\ Mine' <=> Mine
           /\ TimedSnap' <=> TimedSnap
           /\ ActiveShot' = ActiveShot /\ Played' = Played
           /\ \A s : Taken(server', s) <=> Taken(server, s)
           /\ \A s : Current(server', s) <=> Current(server, s)
           /\ \A m : Recent(server', m) <=> Recent(server, m)
           /\ \A m : Past(server', m) <=> Past(server, m)
           /\ ReadsInv(server) => ReadsInv(server')
BY DEF MatchKept, InPlay, Aimed, Mine, TimedSnap, ActiveShot, Played, Taken, OfMatch, Known,
       Current, Recent, Past, ReadsInv

LEMMA CleanEmpty == Clean(<<>>) /\ \A type : ~Has(<<>>, type)
BY DEF Clean, Has

\* The inbox is empty now, and no match_start was lost with it.
LEMMA WireEmptied ==
    ASSUME WireInv, MatchKept, next'.snap = next.snap \/ next'.snap = NoSnap,
           Clean(link.in), link'.in = <<>>, link'.sub = "none"
    PROVE  WireInv'
<1>1. ReadsInv(server')
  BY SameMatch DEF WireInv
<1>2. InboxInv(server', link'.in) /\ OrderInv(server', link'.in)
  BY DEF InboxInv, OrderInv
<1>3. AcceptedInv(server', link'.in, next'.snap)
  BY CleanEmpty, SameMatch DEF WireInv, AcceptedInv
<1>4. AnswerInv(server', link', next'.snap)
  BY DEF AnswerInv
<1> QED BY <1>1, <1>2, <1>3, <1>4 DEF WireInv

LEMMA WireSame ==
    ASSUME WireInv, MatchKept, next'.snap = next.snap, link'.in = link.in, link'.sub = link.sub,
           Has(link.out, "request_game_state") => Has(link'.out, "request_game_state")
    PROVE  WireInv'
<1>1. ReadsInv(server')
  BY SameMatch DEF WireInv
<1>2. InboxInv(server', link'.in) /\ OrderInv(server', link'.in)
      /\ AcceptedInv(server', link'.in, next'.snap)
  BY SameMatch DEF InboxInv, OrderInv, AcceptedInv, WireInv, MatchKept
<1>3. OnItsWay(server, link.in) => OnItsWay(server', link'.in)
  BY SameMatch DEF OnItsWay
<1>4. AnswerInv(server', link', next'.snap)
  BY <1>3, SameMatch DEF AnswerInv, WireInv, MatchKept
<1> QED BY <1>1, <1>2, <1>4 DEF WireInv

\* The link is cut, or there is none yet: nothing is on its way.
Cut ==
    /\ MatchKept /\ Clean(link.in)
    /\ link'.in = <<>> /\ link'.out = <<>> /\ link'.sub = "none" /\ link'.st # "open"
    /\ NextKept /\ view' = view /\ refs' = refs /\ cue' = cue

LEMMA NewLink ==
    ASSUME NEW st, link' = [NoLink EXCEPT !.st = st]
    PROVE  link'.in = <<>> /\ link'.out = <<>> /\ link'.sub = "none" /\ link'.st = st
BY DEF NoLink

LEMMA CutKeeps ==
    ASSUME WireInv, FreshInv, NumbersInv, ShowsInv, TableInv, ShotInv, Cut,
           next'.page = next.page \/ next'.page = "error" \/ (next'.page = "loading" /\ ~InPlay)
    PROVE  /\ WireInv' /\ LinkInv' /\ FreshInv' /\ NumbersInv' /\ ShowsInv' /\ TableInv'
           /\ AimInv' /\ ShotInv'
<1> USE DEF Cut, NextKept
<1>1. WireInv'
  BY WireEmptied
<1>2. LinkInv'
  BY DEF LinkInv
<1>3. FreshInv' /\ NumbersInv' /\ TableInv'
  BY SameMatch DEF FreshInv, NumbersInv, TableInv, MatchKept
<1>4. ~Has(link'.in, "shot_started") /\ ~Has(link'.out, "shot_started")
      /\ ~Has(link'.out, "shot_result_submitted") /\ Len(link'.in) = 0 /\ Len(link'.out) = 0
  BY CleanEmpty
<1>5. ShowsInv'
  <2>1. (Ready => Ready') /\ (Open' => Open)
    BY DEF Ready, MatchKept, Open
  <2> QED BY <1>4, <2>1, SameMatch DEF ShowsInv
<1>6. AimInv'
  BY <1>4 DEF AimInv
<1>7. ShotInv'
  <2>1. SUFFICES ASSUME Mine PROVE ShotInv'
    BY SameMatch DEF ShotInv
  <2>2. (Announced \/ Striking \/ Rolling \/ Resting) =>
            (Announced \/ Striking \/ Rolling \/ Resting)'
    BY <1>4, SameMatch DEF Announced, Striking, Rolling, Resting, Begun, NoResult, MatchKept
  <2>3. Clean(link'.in) /\ InPlay
    BY <2>1, CleanEmpty DEF Mine
  <2> QED BY <1>4, <2>1, <2>2, <2>3, SameMatch DEF ShotInv, MatchKept
<1> QED BY <1>1, <1>2, <1>3, <1>5, <1>6, <1>7

LEMMA CountedBreak ==
    ASSUME Typed, NEW told \in BOOLEAN,
           \/ server' = [server EXCEPT !.breaks = @ + 1]
           \/ server' = [server EXCEPT !.breaks = @ + 1, !.unheard = told]
    PROVE  MatchKept
BY DEF Typed, ServerTyped, MatchKept

TablesInv ==
    /\ WireInv /\ LinkInv /\ PageInv
    /\ FreshInv /\ NumbersInv /\ ShowsInv /\ TableInv
    /\ AimInv /\ ShotInv

LEMMA ConnectKeeps ==
    ASSUME Typed, TablesInv, Connect
    PROVE  TablesInv'
<1> USE DEF TablesInv
<1>1. MatchKept /\ NextKept /\ next' = next /\ view' = view /\ refs' = refs /\ cue' = cue
  BY DEF Connect, browser, MatchKept, NextKept
<1>2. link'.in = <<>> /\ link'.out = <<>> /\ link'.sub = "none" /\ link'.st = "opening"
  BY NewLink DEF Connect
<1>3. Clean(link.in) /\ Clean(link'.in)
  BY <1>2, CleanEmpty DEF Connect, LinkInv
<1>4. Cut
  BY <1>1, <1>2, <1>3 DEF Cut
<1>5. next = view /\ next.page # "error" /\ ~(next = EmptyPage)
  BY DEF Connect, Rendered, EmptyPage
<1>6. PageInv'
  BY <1>1, <1>3, <1>5, SameMatch DEF PageInv, MatchKept
<1> QED BY <1>1, <1>4, <1>6, CutKeeps

LEMMA BreakKeeps ==
    ASSUME Ordinary, Typed, TablesInv, Break
    PROVE  TablesInv'
<1> USE DEF TablesInv
<1>1. /\ MatchKept /\ NextKept
      /\ next' = next /\ view' = view /\ refs' = refs /\ cue' = cue
  BY CountedBreak, EndLostTyped DEF Break, browser, NextKept, Typed
<1>2. link'.in = <<>> /\ link'.out = <<>> /\ link'.sub = "none" /\ link'.st = "retry"
  BY NewLink DEF Break
<1>3. Clean(link.in) /\ Clean(link'.in)
  BY <1>2, CleanEmpty DEF Break, OpeningLost, Ordinary, Clean
<1>4. Cut
  BY <1>1, <1>2, <1>3 DEF Cut
<1>5. PageInv'
  BY <1>1, <1>3, SameMatch DEF PageInv, MatchKept, Break
<1> QED BY <1>1, <1>4, <1>5, CutKeeps

LEMMA RefusedKeeps ==
    ASSUME Typed, TablesInv, Refused
    PROVE  TablesInv'
<1> USE DEF TablesInv
<1>1. /\ MatchKept /\ next'.page = "error" /\ NextKept
      /\ view' = view /\ refs' = refs /\ cue' = cue
  BY CountedBreak DEF Refused, NextKept, Typed, States
<1>2. link'.in = <<>> /\ link'.out = <<>> /\ link'.sub = "none" /\ link'.st = "dead"
  BY NewLink DEF Refused
<1>3. Clean(link.in) /\ Clean(link'.in)
  BY <1>2, CleanEmpty DEF Refused, LinkInv
<1>4. Cut
  BY <1>1, <1>2, <1>3 DEF Cut
<1>5. InPlay => next.page \in {"match", "error"}
  BY DEF PageInv, Refused, Typed, States, InPlay, Over
<1>6. PageInv'
  BY <1>1, <1>2, <1>3, <1>5, SameMatch DEF PageInv, MatchKept, NextKept
<1> QED BY <1>1, <1>4, <1>6, CutKeeps

LEMMA TokenKeeps ==
    ASSUME Ordinary, Typed, TablesInv, TokenRefreshed
    PROVE  TablesInv'
<1> USE DEF TablesInv
<1>1. /\ MatchKept /\ next'.page = "loading" /\ NextKept
      /\ view' = view /\ refs' = refs /\ cue' = cue
  BY CountedBreak DEF TokenRefreshed, NextKept, Typed, States
<1>2. link'.in = <<>> /\ link'.out = <<>> /\ link'.sub = "none" /\ link'.st = "opening"
  BY NewLink DEF TokenRefreshed
<1>3. Clean(link.in) /\ ~InPlay
  BY DEF TokenRefreshed, OpeningLost, Ordinary, Clean, InPlay
<1>4. Cut
  BY <1>1, <1>2, <1>3 DEF Cut
<1>5. PageInv'
  BY <1>1, <1>3, SameMatch DEF PageInv, NextKept
<1> QED BY <1>1, <1>3, <1>4, <1>5, CutKeeps

LEMMA FreshSame ==
    ASSUME FreshInv, next' = next, view' = view, refs' = refs
    PROVE  FreshInv'
BY DEF FreshInv

LEMMA LobbyKeeps ==
    ASSUME Typed, ServerTyped(server'), TablesInv, NEW p, LobbyStep(p)
    PROVE  TablesInv'
<1> USE DEF TablesInv
<1>1. WireInv' /\ LinkInv' /\ PageInv'
  BY WireLobby, LinkLobby, PageLobby
<1>2. NumbersInv' /\ ShowsInv' /\ TableInv'
  BY NumbersLobby, ShowsLobby, TableLobby
<1>3. AimInv' /\ ShotInv'
  BY AimLobby, ShotLobby
<1>4. FreshInv'
  BY BrowserKept, FreshSame DEF LobbyStep
<1> QED BY <1>1, <1>2, <1>3, <1>4

\* The page knows that a match is on when the socket opens, and asks for it.
LEMMA OpenedKeeps ==
    ASSUME Typed, TablesInv, Opened
    PROVE  TablesInv'
<1> USE DEF TablesInv
<1>1. /\ MatchKept /\ NextKept /\ server' = server
      /\ next' = next /\ view' = view /\ refs' = refs /\ cue' = cue
  BY DEF Opened, browser, MatchKept, NextKept
<1> DEFINE asked == IF view.room.status = "playing" THEN <<Asks("request_game_state")>> ELSE <<>>
<1>2. /\ link'.in = link.in /\ link'.sub = link.sub /\ link'.st = "open" /\ link'.out = asked
      /\ link'.greeting = link.greeting
  <2>1. link' = [link EXCEPT !.st = "open", !.out = asked]
    BY DEF Opened
  <2> HIDE DEF asked
  <2> QED BY <2>1 DEF Typed, LinkTyped
<1>3. link.sub = "none" /\ link.in = <<>> /\ link.out = <<>> /\ next = view
  BY DEF Opened, LinkInv, Rendered
<1>4. /\ \A i \in 1 .. Len(asked) : asked[i].type = "request_game_state"
      /\ view.room.status = "playing" => Has(asked, "request_game_state")
  <2>1. CASE view.room.status = "playing"
    <3>1. Len(asked) = 1 /\ asked[1].type = "request_game_state" /\ \A i \in 1 .. 1 : i = 1
      BY <2>1 DEF Asks
    <3> QED BY <3>1 DEF Has
  <2>2. CASE view.room.status # "playing"
    BY <2>2
  <2> QED BY <2>1, <2>2
<1>5. ~Has(asked, "shot_started") /\ ~Has(asked, "shot_result_submitted")
  BY <1>4 DEF Has
<1> HIDE DEF asked
<1>6. Clean(link.in) /\ Clean(link'.in)
  BY <1>2, <1>3, CleanEmpty
<1>7. ASSUME InPlay PROVE Has(asked, "request_game_state")
  <2>1. next.page # "error" /\ next.page # "left" /\ next.page # "loading"
    BY <1>7 DEF PageInv, Opened, InPlay, Over
  <2>2. next.page = "match"
    BY <2>1 DEF Typed, States
  <2> QED BY <1>3, <1>4, <1>6, <1>7, <2>2 DEF PageInv
<1>8. LinkInv'
  BY <1>1, <1>2, <1>3, <1>7, SameMatch DEF LinkInv
<1>9. WireInv'
  <2>1. ~Has(link.out, "request_game_state")
    BY <1>3, CleanEmpty
  <2> QED BY <1>1, <1>2, <2>1, WireSame
<1>10. PageInv'
  <2>1. next.page # "error" /\ (InPlay => next.page # "loading")
    BY DEF PageInv, Opened
  <2>2. ~(view.page # "match" /\ next.page = "match")
    BY <1>3
  <2> QED BY <1>1, <1>2, <2>1, <2>2, SameMatch DEF PageInv, MatchKept
<1>11. FreshInv' /\ NumbersInv' /\ TableInv'
  BY <1>1, <1>2, FreshSame, SameMatch DEF NumbersInv, TableInv
<1>12. ShowsInv'
  BY <1>1, <1>2 DEF ShowsInv, Aimed, InPlay, Open, Ready
<1>13. AimInv'
  BY <1>2, <1>5 DEF AimInv
<1>14. ShotInv'
  <2>1. SUFFICES ASSUME Mine PROVE ShotInv'
    BY <1>1, SameMatch DEF ShotInv
  <2>2. (Announced \/ Striking \/ Rolling \/ Resting) =>
            (Announced \/ Striking \/ Rolling \/ Resting)'
    BY <1>1, <1>2, <1>5 DEF Announced, Striking, Rolling, Resting, Begun, NoResult, ActiveShot, Played
  <2> QED BY <1>1, <1>2, <1>4, <2>1, <2>2 DEF ShotInv, ActiveShot, Played
<1> QED BY <1>8, <1>9, <1>10, <1>11, <1>12, <1>13, <1>14

\* The lobby's end of the socket changes, and what is in it does not.
SameLink == link'.in = link.in /\ link'.out = link.out /\ link'.st = link.st

LEMMA SameLinkKeeps ==
    ASSUME TablesInv, SameLink, server' = server,
           next' = next, view' = view, refs' = refs, cue' = cue
    PROVE  PageInv' /\ FreshInv' /\ NumbersInv' /\ ShowsInv' /\ TableInv' /\ AimInv' /\ ShotInv'
<1> USE DEF TablesInv, SameLink
<1>1. PageInv' /\ FreshInv'
  BY DEF PageInv, FreshInv, InPlay
<1>2. NumbersInv' /\ TableInv'
  BY DEF NumbersInv, TableInv, InPlay
<1>3. ShowsInv' /\ AimInv'
  BY DEF ShowsInv, AimInv, Aimed, InPlay, Open, Ready, TimedSnap
<1>4. ShotInv'
  BY DEF ShotInv, Mine, InPlay, Announced, Striking, Rolling, Resting, Begun, NoResult,
         ActiveShot, Played
<1> QED BY <1>1, <1>2, <1>3, <1>4

LEMMA GreetKeeps ==
    ASSUME Typed, TablesInv, Greet
    PROVE  TablesInv'
<1> USE DEF TablesInv
<1>1. /\ MatchKept /\ server' = server
      /\ next' = next /\ view' = view /\ refs' = refs /\ cue' = cue
  BY DEF Greet, browser, MatchKept
<1> DEFINE r == ServerRoom
<1>2. r.status = server.room
  BY DEF ServerRoom, Room
<1>3. link'.sub = "greeted" /\ link'.greeting = r /\ SameLink
  <2> HIDE DEF r
  <2>1. link' = [link EXCEPT !.sub = "greeted", !.greeting = r]
    BY DEF Greet, r
  <2> QED BY <2>1 DEF Typed, LinkTyped, SameLink
<1> HIDE DEF r
<1>4. LinkInv'
  BY <1>1, <1>2, <1>3 DEF LinkInv, SameLink, Greet, InPlay
<1>5. WireInv'
  <2>1. AnswerInv(server', link', next'.snap)
    BY <1>3 DEF AnswerInv
  <2> QED BY <1>1, <1>3, <2>1 DEF WireInv, SameLink
<1> QED BY <1>1, <1>3, <1>4, <1>5, SameLinkKeeps

LEMMA SubscribeKeeps ==
    ASSUME Typed, TablesInv, Subscribe
    PROVE  TablesInv'
<1> USE DEF TablesInv
<1>1. /\ MatchKept /\ server' = server
      /\ next' = next /\ view' = view /\ refs' = refs /\ cue' = cue
  BY DEF Subscribe, browser, MatchKept
<1> DEFINE m == RoomEvent("room_state", link.greeting)
           q == <<m>>
<1>2. /\ Len(q) = 1 /\ q[1] = m /\ (\A i \in 1 .. 1 : i = 1) /\ 1 \in 1 .. Len(q)
      /\ m.type = "room_state" /\ m.room = link.greeting
  BY DEF RoomEvent, Message
<1> HIDE DEF m, q
<1>3. /\ link'.sub = "on" /\ link'.in = q /\ link'.out = link.out /\ link'.st = link.st
      /\ link.in = <<>> /\ link.sub = "greeted"
  <2>1. link' = [link EXCEPT !.sub = "on", !.greeting = NoRoom, !.in = q]
    BY DEF Subscribe, q, m
  <2> QED BY <2>1 DEF Typed, LinkTyped, LinkInv, Subscribe
<1>4. Clean(link.in) /\ Clean(q) /\ ~Has(q, "shot_started") /\ ~Has(link.in, "shot_started")
      /\ \A i \in 1 .. Len(q) : q[i] = m /\ Late(q, i)
  BY <1>2, <1>3, CleanEmpty DEF Clean, Has, Late
<1>5. link.st = "open"
  BY <1>3 DEF LinkInv
<1>6. LinkInv'
  BY <1>1, <1>3, <1>5 DEF LinkInv
<1>7. Recent(server, m) /\ (Closes(m) => server.room \in Over)
  BY <1>2, <1>3 DEF Recent, Closes, LinkInv, InPlay, Ends
<1>8. WireInv'
  <2>1. InboxInv(server', q)
    BY <1>1, <1>4, <1>7 DEF InboxInv
  <2>2. OrderInv(server', q)
    BY <1>2, <1>4 DEF OrderInv
  <2>3. AcceptedInv(server', q, next'.snap)
    BY <1>1, <1>4 DEF AcceptedInv, WireInv
  <2>4. AnswerInv(server', link', next'.snap)
    <3>1. InPlay => Has(link.out, "request_game_state")
      BY <1>3, <1>5 DEF LinkInv
    <3> QED BY <1>1, <1>3, <3>1 DEF AnswerInv, InPlay
  <2> QED BY <1>1, <1>3, <2>1, <2>2, <2>3, <2>4 DEF WireInv
<1>9. PageInv' /\ FreshInv'
  <2>1. InPlay => link.st # "none"
    BY <1>5
  <2> QED BY <1>1, <1>3, <1>4, <2>1 DEF PageInv, FreshInv, InPlay
<1>10. NumbersInv' /\ TableInv'
  BY <1>1, <1>3, <1>4 DEF NumbersInv, TableInv, InPlay
<1>11. ShowsInv' /\ AimInv'
  BY <1>1, <1>3, <1>4 DEF ShowsInv, AimInv, Aimed, InPlay, Open, Ready, TimedSnap
<1>12. ShotInv'
  <2>1. \A i \in 1 .. Len(q) : q[i].type # "shot_started"
    BY <1>2, <1>4
  <2> QED BY <1>1, <1>3, <1>4, <2>1
          DEF ShotInv, Mine, InPlay, Announced, Striking, Rolling, Resting, Begun, NoResult,
              ActiveShot, Played
<1> QED BY <1>6, <1>8, <1>9, <1>10, <1>11, <1>12

\* The page that loads its room has no socket yet, or no match is on.
LEMMA LoadKeeps ==
    ASSUME Typed, TablesInv, loadRoom
    PROVE  TablesInv'
<1> USE DEF TablesInv
<1>1. /\ server' = server /\ link' = link /\ view' = view /\ refs' = refs /\ cue' = cue
      /\ next.page = "loading"
  BY DEF loadRoom
<1>2. /\ next'.snap = next.snap /\ next'.shot = next.shot /\ next'.fresh = next.fresh
      /\ next'.turn = next.turn /\ next'.status = next.status
      /\ next'.aiming = next.aiming /\ next'.animating = next.animating
      /\ next'.room.status = server.room
      /\ next'.page = IF server.room \in {"waiting", "expired"} THEN "left" ELSE "match"
  <2> DEFINE r == ServerRoom
             summary == next.summary \/ server.room = "finished"
             page == IF server.room \in {"waiting", "expired"} THEN "left" ELSE "match"
  <2>1. next' = [next EXCEPT !.room = r, !.summary = summary, !.page = page]
    BY DEF loadRoom
  <2>2. r.status = server.room
    BY DEF ServerRoom, Room
  <2> HIDE DEF r, summary
  <2> QED BY <2>1, <2>2 DEF Typed, States
<1>3. InPlay => view = EmptyPage /\ next = EmptyPage /\ link.st = "none"
  BY <1>1 DEF PageInv
<1>4. EmptyPage.page = "loading" /\ EmptyPage.snap = NoSnap /\ EmptyPage.shot = NoShot
  BY DEF EmptyPage
<1>5. WireInv' /\ LinkInv'
  BY <1>1, <1>2 DEF WireInv, LinkInv, InPlay
<1>6. PageInv'
  <2>1. next'.page \notin {"loading", "error"}
    BY <1>2
  <2> QED BY <1>1, <1>2, <1>3, <1>4, <2>1 DEF PageInv, InPlay, Over
<1>7. FreshInv' /\ NumbersInv' /\ TableInv'
  BY <1>1, <1>2 DEF FreshInv, NumbersInv, TableInv, InPlay
<1>8. ShowsInv'
  BY <1>1, <1>3, <1>4 DEF ShowsInv, Aimed, InPlay, Open
<1>9. AimInv'
  BY <1>1 DEF AimInv, Open, TimedSnap
<1>10. ShotInv'
  BY <1>1 DEF ShotInv, Mine, InPlay
<1> QED BY <1>5, <1>6, <1>7, <1>8, <1>9, <1>10

\* The page that is loaded again has nothing left of the one before.
LEMMA ReloadKeeps ==
    ASSUME Ordinary, Typed, TablesInv, Reload
    PROVE  TablesInv'
<1> USE DEF TablesInv
<1>1. /\ MatchKept /\ link' = NoLink /\ next' = EmptyPage /\ view' = EmptyPage
      /\ server.snap.status # "moving"
  BY CountedBreak DEF Reload, Ordinary
<1>2. /\ EmptyPage.page = "loading" /\ EmptyPage.snap = NoSnap /\ EmptyPage.fresh = {}
      /\ NoLink.in = <<>> /\ NoLink.out = <<>> /\ NoLink.st = "none" /\ NoLink.sub = "none"
  BY DEF EmptyPage, NoLink
<1>3. WireInv'
  <2>1. ReadsInv(server')
    BY <1>1, SameMatch DEF WireInv
  <2>2. InboxInv(server', <<>>) /\ OrderInv(server', <<>>)
    BY DEF InboxInv, OrderInv
  <2>3. AcceptedInv(server', <<>>, NoSnap)
    BY DEF AcceptedInv
  <2>4. AnswerInv(server', link', next'.snap)
    BY <1>1, <1>2 DEF AnswerInv
  <2> QED BY <1>1, <1>2, <2>1, <2>2, <2>3, <2>4 DEF WireInv
<1>4. LinkInv' /\ PageInv'
  BY <1>1, <1>2 DEF LinkInv, PageInv
<1>5. FreshInv' /\ NumbersInv' /\ TableInv' /\ ShowsInv'
  BY <1>1, <1>2 DEF FreshInv, NumbersInv, TableInv, ShowsInv, Open
<1>6. AimInv'
  BY <1>1, <1>2, CleanEmpty DEF AimInv
<1>7. ShotInv'
  BY <1>1 DEF ShotInv, Mine, MatchKept
<1> QED BY <1>3, <1>4, <1>5, <1>6, <1>7

-----------------------------------------------------------------------------
(***************************************************************************)
(* A message is read.                                                      *)
(***************************************************************************)
\* Of two snapshots of the match, one of the present turn is not the older.
LEMMA NewerIsCurrent ==
    ASSUME NEW v, ServerTyped(v), NEW s \in LobbySnaps, NEW t \in LobbySnaps,
           OfMatch(v, s), Known(v, s), Current(v, t), isNewerSnapshot(s, Version(t))
    PROVE  Current(v, s)
<1>1. /\ s.turn \in Nat /\ s.shot \in Nat /\ t.turn \in Nat /\ t.shot \in Nat
      /\ v.snap.turn \in Nat /\ v.snap.shot \in Nat
  BY ServerFields, SnapFields
<1>2. Version(t).shot = t.shot /\ Version(t).turn = t.turn
  BY DEF Version
<1> QED BY <1>1, <1>2 DEF isNewerSnapshot, Known, OfMatch, Current

LEMMA NotNewerIsCurrent ==
    ASSUME NEW v, ServerTyped(v), NEW s \in LobbySnaps, NEW t \in LobbySnaps,
           OfMatch(v, t), Known(v, t), Current(v, s), ~isNewerSnapshot(s, Version(t))
    PROVE  Current(v, t)
<1>1. /\ s.turn \in Nat /\ s.shot \in Nat /\ t.turn \in Nat /\ t.shot \in Nat
      /\ v.snap.turn \in Nat /\ v.snap.shot \in Nat
  BY ServerFields, SnapFields
<1>2. Version(t).shot = t.shot /\ Version(t).turn = t.turn
  BY DEF Version
<1> QED BY <1>1, <1>2 DEF isNewerSnapshot, Known, OfMatch, Current

LEMMA NoneIsCurrent == ASSUME ReadsInv(server) PROVE ~Current(server, NoSnap)
BY DEF ReadsInv, Current, NoSnap, Snap

Hears(m) ==
    /\ server' = server /\ view' = view /\ cue' = cue
    /\ view = next /\ next.fresh = {}
    /\ next.page \in {"match", "loading"} /\ (InPlay => next.page = "match")
    /\ link.in # <<>> /\ m = Head(link.in) /\ m = link.in[1] /\ 1 \in 1 .. Len(link.in)
    /\ Fits(m) /\ link.sub = "on"
    /\ link'.in = Tail(link.in) /\ link'.out = link.out
    /\ link'.st = link.st /\ link'.sub = link.sub /\ link'.greeting = link.greeting
    /\ Clean(link'.in) <=> Late(link.in, 1)
    /\ Clean(link.in) <=> Clean(link'.in) /\ m.type # "match_start"
    /\ Clean(link'.in) => Recent(server, m)
    /\ ~Clean(link'.in) => Past(server, m)
    /\ Closes(m) => server.room \in Over

LEMMA DeliverHears ==
    ASSUME Ordinary, Typed, FilterInv, TablesInv, Deliver
    PROVE  Hears(Head(link.in)) /\ OnMessage(Head(link.in))
<1> USE DEF TablesInv
<1>1. /\ server' = server /\ view' = view /\ cue' = cue /\ link.in # <<>>
      /\ next.page \in {"match", "loading"} /\ OnMessage(Head(link.in))
  BY DEF Deliver
<1>2. view = next /\ next.fresh = {}
  BY DEF Deliver, Settled, Rendered, Ordinary, FilterInv
<1>3. link.in \in Seq(InMessages) /\ Fitting(link.in) /\ link.sub = "on" /\ link.st = "open"
  BY <1>1 DEF Typed, LinkTyped, LinkInv
<1>4. /\ link'.in = Tail(link.in) /\ link'.out = link.out
      /\ link'.st = link.st /\ link'.sub = link.sub /\ link'.greeting = link.greeting
  <2> DEFINE in == Tail(link.in)
  <2>1. link' = [link EXCEPT !.in = in]
    BY DEF Deliver
  <2> HIDE DEF in
  <2> QED BY <2>1 DEF Typed, LinkTyped, in
<1>5. Head(link.in) = link.in[1] /\ 1 \in 1 .. Len(link.in) /\ Fits(Head(link.in))
  BY <1>1, <1>3, TailPoints, RestFits
<1>6. InPlay => next.page = "match"
  BY <1>1, <1>3 DEF PageInv
<1>7. /\ Clean(link'.in) <=> Late(link.in, 1)
      /\ Clean(link.in) <=> Clean(link'.in) /\ Head(link.in).type # "match_start"
  BY <1>1, <1>3, <1>4, LateTail
<1>8. /\ Late(link.in, 1) => Recent(server, Head(link.in))
      /\ ~Late(link.in, 1) => Past(server, Head(link.in))
      /\ Closes(Head(link.in)) => server.room \in Over
  BY <1>5 DEF WireInv, InboxInv
<1> QED BY <1>1, <1>2, <1>3, <1>4, <1>5, <1>6, <1>7, <1>8 DEF Hears

\* What is behind the message stays in the inbox.
LEMMA BehindIt ==
    ASSUME Typed, TablesInv, NEW m, Hears(m)
    PROVE  /\ ReadsInv(server') /\ InboxInv(server', link'.in) /\ OrderInv(server', link'.in)
           /\ LinkInv'
           /\ \A type : Has(link'.in, type) => Has(link.in, type)
           /\ \A i \in 1 .. Len(link'.in) : \E k \in 1 .. Len(link.in) : link'.in[i] = link.in[k]
           /\ OnItsWay(server, link.in) =>
                \/ OnItsWay(server', link'.in)
                \/ m.type = "game_state_sync" /\ Current(server, m.snap) /\ Clean(link'.in)
<1> USE DEF TablesInv
<1>1. link.in \in Seq(InMessages) /\ link.in # <<>> /\ link'.in = Tail(link.in)
      /\ server' = server
  BY DEF Typed, LinkTyped, Hears
<1>2. /\ \A i \in 1 .. Len(link'.in) : i + 1 \in 1 .. Len(link.in) /\ link'.in[i] = link.in[i + 1]
      /\ \A i \in 1 .. Len(link'.in) : Late(link'.in, i) <=> Late(link.in, i + 1)
      /\ \A i \in 1 .. Len(link.in) : i > 1 =>
            i - 1 \in 1 .. Len(link'.in) /\ link'.in[i - 1] = link.in[i]
      /\ Len(link.in) \in Nat
  BY <1>1, TailPoints, LateTail
<1>3. ReadsInv(server')
  BY <1>1 DEF WireInv
<1>4. InboxInv(server', link'.in)
  BY <1>1, <1>2 DEF WireInv, InboxInv
<1>5. OrderInv(server', link'.in)
  <2>1. SUFFICES ASSUME server.room = "playing", server.snap.status = "aiming",
                        NEW i \in 1 .. Len(link'.in), NEW j \in 1 .. Len(link'.in),
                        Late(link'.in, i), link'.in[i].type = "game_state_sync",
                        Current(server, link'.in[i].snap), j > i
                 PROVE  link'.in[j].type # "shot_started"
    BY <1>1 DEF OrderInv
  <2>2. /\ i + 1 \in 1 .. Len(link.in) /\ j + 1 \in 1 .. Len(link.in) /\ j + 1 > i + 1
        /\ link'.in[i] = link.in[i + 1] /\ link'.in[j] = link.in[j + 1] /\ Late(link.in, i + 1)
    BY <1>2, <2>1
  <2> QED BY <2>1, <2>2 DEF WireInv, OrderInv
<1>6. LinkInv'
  BY <1>1 DEF LinkInv, Hears, InPlay
<1>7. ASSUME OnItsWay(server, link.in)
      PROVE  \/ OnItsWay(server', link'.in)
             \/ m.type = "game_state_sync" /\ Current(server, m.snap) /\ Clean(link'.in)
  <2>1. PICK i \in 1 .. Len(link.in) :
            Late(link.in, i) /\ link.in[i].type = "game_state_sync"
            /\ Current(server, link.in[i].snap)
    BY <1>7 DEF OnItsWay
  <2>2. CASE i = 1
    BY <2>1, <2>2 DEF Hears
  <2>3. CASE i > 1
    <3>1. i - 1 \in 1 .. Len(link'.in) /\ link'.in[i - 1] = link.in[i] /\ (i - 1) + 1 = i
      BY <1>2, <2>3
    <3> QED BY <1>1, <1>2, <2>1, <3>1 DEF OnItsWay
  <2> QED BY <1>2, <2>2, <2>3
<1> QED BY <1>2, <1>3, <1>4, <1>5, <1>6, <1>7 DEF Has

\* The phases of a shot are told from what the page has and what it sent.
LEMMA SamePhase ==
    ASSUME server' = server, refs' = refs, link'.out = link.out,
           next'.aiming = next.aiming, next'.animating = next.animating
    PROVE  /\ (Announced \/ Striking \/ Rolling \/ Resting) =>
                    (Announced \/ Striking \/ Rolling \/ Resting)'
           /\ ActiveShot' = ActiveShot /\ Played' = Played /\ Mine' = Mine
BY DEF Announced, Striking, Rolling, Resting, Begun, NoResult, ActiveShot, Played, Mine, InPlay

\* A message about the room, or one that the page has no use for.
LEMMA QuietKeeps ==
    ASSUME Typed, TablesInv, NEW m, Hears(m), m.type # "match_start", refs' = refs,
           next'.snap = next.snap, next'.fresh = next.fresh,
           next'.turn = next.turn, next'.status = next.status,
           next'.aiming = next.aiming, next'.animating = next.animating,
           next'.page = next.page \/ (next'.page = "left" /\ Closes(m)),
           InPlay /\ Clean(link'.in) =>
                next'.room.status = next.room.status \/ next'.room.status = "playing",
           m.type = "game_state_sync" /\ Current(server, m.snap) /\ Clean(link'.in) /\ Aimed =>
                Current(server, next.snap)
    PROVE  TablesInv'
<1> USE DEF TablesInv
<1>1. /\ server' = server /\ view' = view /\ cue' = cue /\ link'.out = link.out
      /\ link'.st = link.st /\ link'.sub = link.sub
      /\ (Clean(link'.in) <=> Clean(link.in)) /\ view = next /\ next.fresh = {}
      /\ (InPlay => next'.page = next.page /\ next.page = "match")
  BY DEF Hears, InPlay, Over
<1>2. WireInv'
  <2>1. AcceptedInv(server', link'.in, next'.snap)
    BY <1>1 DEF WireInv, AcceptedInv
  <2>2. AnswerInv(server', link', next'.snap)
    BY <1>1, BehindIt DEF WireInv, AnswerInv, Aimed, InPlay
  <2> QED BY <2>1, <2>2, BehindIt DEF WireInv
<1>3. LinkInv'
  BY BehindIt
<1>4. PageInv'
  <2>1. next'.page # "error" /\ next'.page \in {"match", "loading", "left"}
    BY DEF Hears
  <2>2. next'.page = "left" => server.room \in Over
    BY <2>1 DEF Hears
  <2>3. ASSUME InPlay, Clean(link'.in) PROVE next'.room.status = "playing"
    BY <1>1, <2>3 DEF PageInv
  <2>4. InPlay => next'.page = "match" /\ view'.page = "match"
    BY <1>1
  <2> QED BY <1>1, <2>1, <2>2, <2>3, <2>4 DEF PageInv, InPlay
<1>5. FreshInv' /\ NumbersInv' /\ TableInv'
  BY <1>1 DEF FreshInv, NumbersInv, TableInv, InPlay
<1>6. ShowsInv'
  BY <1>1, BehindIt DEF ShowsInv, Aimed, InPlay, Open, Ready
<1>7. AimInv'
  BY <1>1 DEF AimInv, TimedSnap, InPlay, Open, Ready
<1>8. ShotInv'
  <2>1. SUFFICES ASSUME Mine PROVE ShotInv'
    BY <1>1, SamePhase DEF ShotInv
  <2>2. InPlay
    BY <2>1 DEF Mine
  <2>3. \A i \in 1 .. Len(link'.in) :
            link'.in[i].type = "shot_started" => link'.in[i].shot = ActiveShot
    BY <2>1, BehindIt DEF ShotInv
  <2> QED BY <1>1, <2>1, <2>2, <2>3, SamePhase DEF ShotInv
<1> QED BY <1>2, <1>3, <1>4, <1>5, <1>6, <1>7, <1>8

\* A snapshot that is newer than the one before.
LEMMA SyncKeeps ==
    ASSUME Typed, FilterInv, TablesInv, NEW m, Hears(m), m.type = "game_state_sync",
           isNewerSnapshot(m.snap, refs.accepted),
           next'.snap = m.snap, next'.fresh = {"snap"},
           next'.turn = next.turn, next'.status = next.status,
           next'.aiming = next.aiming, next'.animating = next.animating,
           next'.page = next.page, next'.room = next.room,
           refs' = [refs EXCEPT !.accepted = Version(m.snap)]
    PROVE  TablesInv'
<1> USE DEF TablesInv
<1>1. /\ server' = server /\ view' = view /\ cue' = cue /\ link'.out = link.out
      /\ link'.st = link.st /\ link'.sub = link.sub
      /\ (Clean(link'.in) <=> Clean(link.in)) /\ view = next /\ next.fresh = {}
      /\ (InPlay => next.page = "match")
  BY DEF Hears
<1>2. /\ refs'.shown = refs.shown /\ refs'.shotSeq = refs.shotSeq
      /\ refs'.lastShot = refs.lastShot /\ refs'.pending = refs.pending
      /\ refs'.balls = refs.balls /\ refs'.report = refs.report
      /\ refs'.accepted = Version(m.snap) /\ refs.shown \in Versions /\ refs.accepted \in Versions
  BY DEF Typed, RefRecords
<1>3. m.snap \in LobbySnaps /\ ServerTyped(server) /\ server.snap \in LobbySnaps
  BY ServerFields DEF Typed, Hears, Fits
<1>4. Clean(link.in) => Taken(server, m.snap)
  BY <1>1 DEF Hears, Recent
<1>5. refs.accepted = Version(next.snap)
  BY DEF FilterInv
<1>6. ASSUME InPlay, Clean(link.in), Current(server, next.snap) PROVE Current(server, m.snap)
  <2>1. next.snap \in LobbySnaps
    BY <1>6, NoneIsCurrent DEF Typed, States, Snaps, WireInv
  <2> QED BY <1>3, <1>4, <1>5, <1>6, <2>1, NewerIsCurrent DEF Taken, InPlay
<1>7. WireInv'
  <2>1. AcceptedInv(server', link'.in, next'.snap)
    BY <1>1, <1>4 DEF AcceptedInv, Hears, Past
  <2>2. AnswerInv(server', link', next'.snap)
    BY <1>1, <1>6, BehindIt DEF WireInv, AnswerInv, InPlay
  <2> QED BY <2>1, <2>2, BehindIt DEF WireInv
<1>8. LinkInv'
  BY BehindIt
<1>9. PageInv'
  <2>1. {"snap"} # {} => \E x \in {"snap"} : {"snap"} = {x}
    OBVIOUS
  <2>2. next.page # "error" /\ next.page # "left"
    BY DEF Hears
  <2> QED BY <1>1, <2>1, <2>2 DEF PageInv, InPlay
<1>10. FreshInv'
  <2>1. SUFFICES ASSUME view.page = "match" PROVE isNewerSnapshot(refs'.accepted, refs'.shown)
    BY <1>1 DEF FreshInv
  <2>2. NotAfter(refs.shown, refs.accepted)
    BY <1>1, <2>1 DEF FilterInv
  <2>3. isNewerSnapshot(Version(m.snap), refs.accepted)
    BY <1>2, <1>3, LobbyIsNewer
  <2>4. Version(m.snap) \in Versions
    BY <1>3, VersionTyped DEF Snaps
  <2>5. isNewerSnapshot(Version(m.snap), refs.shown)
    BY <1>2, <2>2, <2>3, <2>4, NewerIsTransitive DEF NotAfter
  <2> QED BY <1>2, <2>5
<1>11. NumbersInv' /\ TableInv'
  BY <1>1, <1>2 DEF NumbersInv, TableInv, InPlay
<1>12. ShowsInv'
  <2>1. SUFFICES ASSUME Aimed, Clean(link'.in), Current(server, m.snap)
                 PROVE  ~Has(link'.in, "shot_started")
    BY <1>1 DEF ShowsInv, Aimed, InPlay
  <2>2. ASSUME NEW j \in 1 .. Len(link'.in) PROVE link'.in[j].type # "shot_started"
    <3>1. link.in \in Seq(InMessages) /\ link.in # <<>> /\ link'.in = Tail(link.in)
      BY DEF Typed, LinkTyped, Hears
    <3>2. j + 1 \in 1 .. Len(link.in) /\ link'.in[j] = link.in[j + 1] /\ j + 1 > 1
      BY <3>1, TailPoints
    <3>3. Late(link.in, 1) /\ 1 \in 1 .. Len(link.in) /\ link.in[1] = m
      BY <2>1 DEF Hears
    <3> QED BY <2>1, <3>2, <3>3 DEF WireInv, OrderInv, Aimed, InPlay
  <2> QED BY <2>2 DEF Has
<1>13. AimInv'
  <2>1. Ready => Ready'
    BY <1>1, <1>2 DEF Ready
  <2> QED BY <1>1, <1>2, <1>6, <2>1 DEF AimInv, TimedSnap, InPlay, Open
<1>14. ShotInv'
  <2>1. Mine' = Mine /\ ActiveShot' = ActiveShot /\ Played' = Played
    BY <1>1 DEF Mine, InPlay, ActiveShot, Played
  <2>2. SUFFICES ASSUME Mine PROVE ShotInv'
    BY <2>1 DEF ShotInv
  <2>3. Clean(link.in) /\ next.snap.turn = server.snap.turn /\ server.snap.status = "moving"
        /\ server.room = "playing"
    BY <2>2 DEF ShotInv, Mine, InPlay
  <2>4. m.snap.turn = server.snap.turn
    <3>1. Known(server, m.snap) /\ (next.snap # NoSnap => Known(server, next.snap))
      BY <1>4, <2>3 DEF Taken, WireInv, AcceptedInv
    <3>2. /\ m.snap.turn \in Nat /\ m.snap.shot \in Nat
          /\ server.snap.turn \in Nat /\ server.snap.shot \in Nat
      BY <1>3, SnapFields
    <3>3. CASE next.snap = NoSnap
      BY <2>3, <3>1, <3>2, <3>3 DEF NoSnap, Snap, Known
    <3>4. CASE next.snap # NoSnap
      <4>1. next.snap \in LobbySnaps
        BY <3>4 DEF Typed, States, Snaps
      <4>2. next.snap.turn \in Nat /\ next.snap.shot \in Nat
        BY <4>1, SnapFields
      <4>3. /\ refs.accepted.shot = next.snap.shot /\ refs.accepted.turn = next.snap.turn
        BY <1>5 DEF Version
      <4>4. server.snap.shot - 1 <= next.snap.shot
        BY <2>3, <3>1, <3>2, <3>4, <4>2 DEF Known
      <4>5. ~(m.snap.turn < server.snap.turn)
        BY <2>3, <3>1, <3>2, <4>2, <4>3, <4>4 DEF Known, isNewerSnapshot
      <4> QED BY <3>1, <3>2, <4>5 DEF Known
    <3> QED BY <3>3, <3>4
  <2>5. \A i \in 1 .. Len(link'.in) :
            link'.in[i].type = "shot_started" => link'.in[i].shot = ActiveShot
    BY <2>2, BehindIt DEF ShotInv
  <2>6. (Announced \/ Striking \/ Rolling \/ Resting) =>
            (Announced \/ Striking \/ Rolling \/ Resting)'
    BY <1>1, <1>2, <2>1 DEF Announced, Striking, Rolling, Resting, Begun, NoResult
  <2>7. next.page = "match" /\ view.page = "match"
    BY <1>1, <2>2 DEF Mine
  <2> QED BY <1>1, <2>1, <2>2, <2>3, <2>4, <2>5, <2>6, <2>7 DEF ShotInv
<1> QED BY <1>7, <1>8, <1>9, <1>10, <1>11, <1>12, <1>13, <1>14

\* A shot has started.
LEMMA ShotHeardKeeps ==
    ASSUME Typed, TablesInv, NEW m, Hears(m), m.type = "shot_started", refs' = refs,
           next'.snap = next.snap, next'.fresh = {"shot"}, next'.shot = m.shot,
           next'.turn = next.turn, next'.status = next.status,
           next'.aiming = next.aiming, next'.animating = next.animating,
           next'.page = next.page, next'.room = next.room
    PROVE  TablesInv'
<1> USE DEF TablesInv
<1>1. /\ server' = server /\ view' = view /\ cue' = cue /\ link'.out = link.out
      /\ link'.st = link.st /\ link'.sub = link.sub
      /\ (Clean(link'.in) <=> Clean(link.in)) /\ view = next /\ next.fresh = {}
      /\ (InPlay => next.page = "match") /\ Has(link.in, "shot_started")
  BY DEF Hears, Has
<1>2. WireInv'
  <2>1. AcceptedInv(server', link'.in, next'.snap)
    BY <1>1 DEF WireInv, AcceptedInv
  <2>2. AnswerInv(server', link', next'.snap)
    BY <1>1, BehindIt DEF WireInv, AnswerInv, InPlay
  <2> QED BY <2>1, <2>2, BehindIt DEF WireInv
<1>3. LinkInv'
  BY BehindIt
<1>4. PageInv'
  <2>1. {"shot"} # {} => \E x \in {"shot"} : {"shot"} = {x}
    OBVIOUS
  <2>2. next.page # "error" /\ next.page # "left"
    BY DEF Hears
  <2> QED BY <1>1, <2>1, <2>2 DEF PageInv, InPlay
<1>5. FreshInv' /\ TableInv'
  BY <1>1 DEF FreshInv, TableInv
<1>6. NumbersInv'
  BY <1>1 DEF NumbersInv, InPlay, Hears, Recent
<1>7. ShowsInv'
  BY <1>1 DEF ShowsInv, Aimed, InPlay, Open
<1>8. AimInv'
  BY <1>1 DEF AimInv, TimedSnap, Open, Ready
<1>9. ShotInv'
  <2>1. SUFFICES ASSUME Mine PROVE ShotInv'
    BY <1>1, SamePhase DEF ShotInv
  <2>2. InPlay
    BY <2>1 DEF Mine
  <2>3. \A i \in 1 .. Len(link'.in) :
            link'.in[i].type = "shot_started" => link'.in[i].shot = ActiveShot
    BY <2>1, BehindIt DEF ShotInv
  <2>4. m.shot = ActiveShot
    BY <2>1 DEF ShotInv, Hears
  <2> QED BY <1>1, <2>1, <2>2, <2>3, <2>4, SamePhase DEF ShotInv
<1> QED BY <1>2, <1>3, <1>4, <1>5, <1>6, <1>7, <1>8, <1>9

\* The next match begins, and nothing of the one before counts.
LEMMA StartKeeps ==
    ASSUME Typed, TablesInv, NEW m, Hears(m), m.type = "match_start",
           next'.snap = NoSnap, next'.fresh = {"reset"}, next'.room = m.room,
           next'.page = next.page
    PROVE  TablesInv'
<1> USE DEF TablesInv
<1>1. /\ server' = server /\ view' = view /\ cue' = cue /\ link'.out = link.out
      /\ link'.st = link.st /\ link'.sub = link.sub
      /\ ~Clean(link.in) /\ view = next
      /\ (InPlay => next.page = "match")
  BY DEF Hears
<1>2. WireInv'
  <2>1. AcceptedInv(server', link'.in, next'.snap)
    BY DEF AcceptedInv
  <2>2. AnswerInv(server', link', next'.snap)
    BY <1>1, BehindIt DEF WireInv, AnswerInv, InPlay
  <2> QED BY <2>1, <2>2, BehindIt DEF WireInv
<1>3. LinkInv'
  BY BehindIt
<1>4. PageInv'
  <2>1. {"reset"} # {} => \E x \in {"reset"} : {"reset"} = {x}
    OBVIOUS
  <2>2. next.page # "error" /\ next.page # "left"
    BY DEF Hears
  <2>3. InPlay /\ Clean(link'.in) => m.room.status = "playing"
    BY DEF Hears, Recent, Told, InPlay
  <2> QED BY <1>1, <2>1, <2>2, <2>3 DEF PageInv, InPlay
<1>5. FreshInv' /\ TableInv' /\ NumbersInv'
  BY DEF FreshInv, TableInv, NumbersInv
<1>6. ShowsInv'
  BY <1>1, NoneIsCurrent DEF ShowsInv, WireInv
<1>7. AimInv'
  BY <1>1 DEF AimInv, TimedSnap
<1>8. ShotInv'
  BY <1>1 DEF ShotInv, Mine, InPlay
<1> QED BY <1>2, <1>3, <1>4, <1>5, <1>6, <1>7, <1>8

\* What a message about the room may set.
RoomHeard(m) ==
    /\ next'.snap = next.snap /\ next'.fresh = next.fresh
    /\ next'.turn = next.turn /\ next'.status = next.status
    /\ next'.aiming = next.aiming /\ next'.animating = next.animating

LEMMA DeliverKeeps ==
    ASSUME Ordinary, Typed, FilterInv, TablesInv, Deliver
    PROVE  TablesInv'
<1> DEFINE m == Head(link.in)
<1>1. Hears(m) /\ OnMessage(m)
  BY DeliverHears
<1> HIDE DEF m
<1>2. m \in InMessages /\ m.room \in Rooms
  BY <1>1 DEF Hears, Fits, InMessages
<1>3. ASSUME InPlay, Clean(link'.in)
      PROVE  (m.type \in Told => m.room.status = "playing") /\ m.type \notin Ends
  BY <1>1, <1>3 DEF Hears, Recent, InPlay
<1>4. CASE m.type \in {"room_state", "player_reconnected", "player_left"}
  <2>1. next' = Gone(next, m.room) /\ refs' = refs
    BY <1>1, <1>4 DEF OnMessage
  <2>2. /\ RoomHeard(m) /\ next'.room = m.room
        /\ next'.page = next.page \/ (next'.page = "left" /\ Closes(m))
    <3>1. CASE m.room.status \in {"waiting", "expired"}
      <4> DEFINE r == m.room
      <4>1. next' = [next EXCEPT !.room = r, !.page = "left"]
        BY <2>1, <3>1 DEF Gone
      <4>2. Closes(m)
        BY <3>1 DEF Closes, Over
      <4> HIDE DEF r
      <4>3. RoomHeard(m) /\ next'.room = r /\ next'.page = "left"
        BY <4>1 DEF Typed, States, RoomHeard
      <4> QED BY <4>2, <4>3 DEF r
    <3>2. CASE m.room.status \notin {"waiting", "expired"}
      <4> DEFINE r == m.room
      <4>1. next' = [next EXCEPT !.room = r]
        BY <2>1, <3>2 DEF Gone
      <4> HIDE DEF r
      <4>2. RoomHeard(m) /\ next'.room = r /\ next'.page = next.page
        BY <4>1 DEF Typed, States, RoomHeard
      <4> QED BY <4>2 DEF r
    <3> QED BY <3>1, <3>2
  <2>3. InPlay /\ Clean(link'.in) => next'.room.status = "playing"
    BY <1>3, <1>4, <2>2 DEF Told, Ends
  <2> QED BY <1>1, <1>4, <2>1, <2>2, <2>3, QuietKeeps DEF RoomHeard
<1>5. CASE m.type = "player_disconnected"
  <2>1. next' = [next EXCEPT !.room.gone = TRUE] /\ refs' = refs
    BY <1>1, <1>5 DEF OnMessage
  <2> DEFINE r == [next.room EXCEPT !.gone = TRUE]
  <2>2. next' = [next EXCEPT !.room = r]
    BY <2>1 DEF Typed, States
  <2>3. r.status = next.room.status
    BY DEF Typed, States, Rooms
  <2> HIDE DEF r
  <2>4. RoomHeard(m) /\ next'.room = r /\ next'.page = next.page
    BY <2>2 DEF Typed, States, RoomHeard
  <2> QED BY <1>1, <1>5, <2>1, <2>3, <2>4, QuietKeeps DEF RoomHeard
<1>6. CASE m.type = "shot_started"
  <2> DEFINE shot == m.shot
             fresh == next.fresh \cup {"shot"}
  <2>1. next' = [next EXCEPT !.shot = shot, !.fresh = fresh] /\ refs' = refs
    BY <1>1, <1>6 DEF OnMessage
  <2>2. fresh = {"shot"}
    BY <1>1 DEF Hears
  <2> HIDE DEF shot, fresh
  <2>3. /\ next'.snap = next.snap /\ next'.fresh = fresh /\ next'.shot = shot
        /\ next'.turn = next.turn /\ next'.status = next.status
        /\ next'.aiming = next.aiming /\ next'.animating = next.animating
        /\ next'.page = next.page /\ next'.room = next.room
    BY <2>1 DEF Typed, States
  <2> QED BY <1>1, <1>6, <2>1, <2>2, <2>3, ShotHeardKeeps DEF shot
<1>7. CASE m.type = "turn_timeout"
  <2>1. next' = [next EXCEPT !.shot = NoShot] /\ refs' = refs
    BY <1>1, <1>7 DEF OnMessage
  <2>2. RoomHeard(m) /\ next'.room = next.room /\ next'.page = next.page
    BY <2>1 DEF Typed, States, RoomHeard
  <2> QED BY <1>1, <1>7, <2>1, <2>2, QuietKeeps DEF RoomHeard
<1>8. CASE m.type = "game_state_sync"
  <2>1. acceptSnapshot(m)
    BY <1>1, <1>8 DEF OnMessage
  <2>2. CASE isNewerSnapshot(m.snap, refs.accepted)
    <3> DEFINE snap == m.snap
               fresh == next.fresh \cup {"snap"}
               summary == next.summary \/ m.snap.status = "finished"
    <3>1. next' = [next EXCEPT !.snap = snap, !.fresh = fresh, !.summary = summary]
          /\ refs' = [refs EXCEPT !.accepted = Version(m.snap)]
      BY <2>1, <2>2 DEF acceptSnapshot
    <3>2. fresh = {"snap"}
      BY <1>1 DEF Hears
    <3> HIDE DEF snap, fresh, summary
    <3>3. /\ next'.snap = snap /\ next'.fresh = fresh
          /\ next'.turn = next.turn /\ next'.status = next.status
          /\ next'.aiming = next.aiming /\ next'.animating = next.animating
          /\ next'.page = next.page /\ next'.room = next.room
      BY <3>1 DEF Typed, States
    <3> QED BY <1>1, <1>8, <2>2, <3>1, <3>2, <3>3, SyncKeeps DEF snap
  <2>3. CASE ~isNewerSnapshot(m.snap, refs.accepted)
    <3>1. next' = next /\ refs' = refs
      BY <2>1, <2>3 DEF acceptSnapshot
    <3>2. ASSUME Current(server, m.snap), Clean(link'.in), Aimed PROVE Current(server, next.snap)
      <4>1. m.snap \in LobbySnaps /\ ServerTyped(server) /\ next.snap \in Snaps
            /\ refs.accepted = Version(next.snap)
        BY <1>1, <1>8 DEF Typed, Hears, Fits, States, FilterInv
      <4>2. next.snap # NoSnap
        BY <2>3, <4>1, LobbyIsNewer DEF NoVersion, Versions, FilterInv, Typed, RefRecords
      <4>3. Taken(server, next.snap)
        BY <1>1, <1>8, <3>2, <4>2 DEF Hears, TablesInv, WireInv, AcceptedInv
      <4> QED BY <2>3, <3>2, <4>1, <4>2, <4>3, NotNewerIsCurrent
              DEF Taken, Snaps, Aimed, InPlay
    <3> QED BY <1>1, <1>8, <3>1, <3>2, QuietKeeps
  <2> QED BY <2>2, <2>3
<1>9. CASE m.type = "match_finished"
  <2> DEFINE r == m.room
  <2>1. next' = [next EXCEPT !.room = r, !.summary = TRUE] /\ refs' = refs
    BY <1>1, <1>9 DEF OnMessage, MatchFinishes
  <2> HIDE DEF r
  <2>2. RoomHeard(m) /\ next'.page = next.page
    BY <2>1 DEF Typed, States, RoomHeard
  <2>3. ~(InPlay /\ Clean(link'.in))
    BY <1>3, <1>9 DEF Ends
  <2> QED BY <1>1, <1>9, <2>1, <2>2, <2>3, QuietKeeps DEF RoomHeard
<1>10. CASE m.type = "match_start"
  <2> DEFINE r == m.room
             fresh == next.fresh \cup {"reset"}
  <2>1. next' = [next EXCEPT !.room = r, !.summary = FALSE, !.asked = FALSE, !.snap = NoSnap,
                             !.shot = NoShot, !.fresh = fresh]
    BY <1>1, <1>10 DEF OnMessage, StartsMatch
  <2>2. fresh = {"reset"}
    BY <1>1 DEF Hears
  <2> HIDE DEF r, fresh
  <2>3. next'.snap = NoSnap /\ next'.fresh = fresh /\ next'.room = r /\ next'.page = next.page
    BY <2>1 DEF Typed, States
  <2> QED BY <1>1, <1>10, <2>2, <2>3, StartKeeps DEF r
<1>11. CASE m.type = "rematch_requested"
  <2>1. next' = [next EXCEPT !.asked = TRUE] /\ refs' = refs
    BY <1>1, <1>11 DEF OnMessage, RematchRequested
  <2>2. RoomHeard(m) /\ next'.room = next.room /\ next'.page = next.page
    BY <2>1 DEF Typed, States, RoomHeard
  <2> QED BY <1>1, <1>11, <2>1, <2>2, QuietKeeps DEF RoomHeard
<1>12. CASE m.type = "room_closed"
  <2>1. next' = [next EXCEPT !.page = "left"] /\ refs' = refs
    BY <1>1, <1>12 DEF OnMessage
  <2>2. RoomHeard(m) /\ next'.room = next.room /\ next'.page = "left" /\ Closes(m)
    BY <1>12, <2>1 DEF Typed, States, RoomHeard, Closes
  <2> QED BY <1>1, <1>12, <2>1, <2>2, QuietKeeps DEF RoomHeard
<1> QED BY <1>2, <1>4, <1>5, <1>6, <1>7, <1>8, <1>9, <1>10, <1>11, <1>12
        DEF InMessages, EventTypes

-----------------------------------------------------------------------------
(***************************************************************************)
(* What the effects of a render set.                                       *)
(***************************************************************************)
SamePage(n, m) ==
    m.page = n.page /\ m.room = n.room /\ m.snap = n.snap /\ m.shot = n.shot /\ m.fresh = n.fresh

SameScreen(n, m) ==
    /\ SamePage(n, m)
    /\ m.turn = n.turn /\ m.status = n.status /\ m.aiming = n.aiming /\ m.animating = n.animating

SameTable(q, r) ==
    /\ r.shotSeq = q.shotSeq /\ r.lastShot = q.lastShot /\ r.pending = q.pending
    /\ r.balls = q.balls /\ r.report = q.report

\* A snapshot is put on the table ...
Puts(c, s, d) ==
    /\ isNewerSnapshot(s, c.r.shown) /\ s.shot >= c.r.shotSeq /\ s.status # "moving"
    /\ SamePage(c.n, d.n)
    /\ d.n.turn = s.player /\ d.n.status = s.status /\ d.n.aiming /\ ~d.n.animating
    /\ d.r.balls = s.balls /\ d.r.shotSeq = s.shot /\ d.r.pending = NoShot
    /\ d.r.lastShot = c.r.lastShot /\ d.r.report = c.r.report

\* ... or is not.
LeavesSnap(c, s, d) ==
    /\ ~isNewerSnapshot(s, c.r.shown) \/ s.shot < c.r.shotSeq \/ s.status = "moving"
    /\ SameScreen(c.n, d.n) /\ SameTable(c.r, d.r)

Begin(c, shot, d) ==
    /\ shot.seq > c.r.lastShot
    /\ SamePage(c.n, d.n) /\ d.n.aiming = c.n.aiming /\ d.n.animating /\ d.n.status = "striking"
    /\ d.r.lastShot = shot.seq /\ d.r.pending = shot
    /\ d.r.shotSeq = IF shot.seq > c.r.shotSeq THEN shot.seq ELSE c.r.shotSeq
    /\ d.r.balls = c.r.balls /\ d.r.report = c.r.report

LeavesShot(c, shot, d) ==
    shot.seq <= c.r.lastShot /\ SameScreen(c.n, d.n) /\ SameTable(c.r, d.r)

Racks(c, d) ==
    /\ SamePage(c.n, d.n) /\ d.n.status = "aiming" /\ d.n.aiming /\ ~d.n.animating
    /\ d.r.balls = <<>> /\ d.r.shotSeq = 0 /\ d.r.lastShot = 0 /\ d.r.pending = NoShot
    /\ d.r.report = c.r.report

LEMMA ResetRacks == ASSUME NEW c \in Pairs PROVE Racks(c, resetMatch(c))
<1>1. c.n \in States /\ c.r \in RefRecords
  BY PairTyped
<1> DEFINE n == Rack(c.n)
           r == [c.r EXCEPT !.balls = <<>>, !.shotSeq = 0, !.pending = NoShot, !.lastShot = 0,
                            !.shown = NoVersion]
<1>2. resetMatch(c).n = n /\ resetMatch(c).r = r
  BY DEF resetMatch
<1>3. SamePage(c.n, n) /\ n.status = "aiming" /\ n.aiming /\ ~n.animating
  BY <1>1 DEF Rack, States, SamePage
<1>4. r.balls = <<>> /\ r.shotSeq = 0 /\ r.lastShot = 0 /\ r.pending = NoShot
      /\ r.report = c.r.report
  BY <1>1 DEF RefRecords
<1> HIDE DEF n, r
<1> QED BY <1>2, <1>3, <1>4 DEF Racks

LEMMA ShowsPuts ==
    ASSUME NEW c \in Pairs, NEW s \in LobbySnaps
    PROVE  LET d == showsSnapshot(c, s) IN Puts(c, s, d) \/ LeavesSnap(c, s, d)
<1> DEFINE d == showsSnapshot(c, s)
<1>0. SUFFICES Puts(c, s, d) \/ LeavesSnap(c, s, d)
  OBVIOUS
<1>1. c.n \in States /\ c.r \in RefRecords
  BY PairTyped
<1>2. s.shot \in Nat /\ c.r.shotSeq \in Nat
  BY <1>1, SnapFields DEF RefRecords
<1>3. CASE ~isNewerSnapshotVersion(s, c.r.shown) \/ s.shot < c.r.shotSeq
  <2>1. d = c
    BY <1>2, <1>3 DEF showsSnapshot
  <2> HIDE DEF d
  <2> QED BY <1>3, <2>1 DEF LeavesSnap, SameScreen, SamePage, SameTable, isNewerSnapshotVersion
<1>4. CASE /\ isNewerSnapshotVersion(s, c.r.shown) /\ s.shot >= c.r.shotSeq
           /\ s.status = "moving"
  <2> DEFINE r == [c.r EXCEPT !.shown = Version(s)]
  <2>1. d = [c EXCEPT !.r = r]
    BY <1>2, <1>4 DEF showsSnapshot
  <2>2. SameTable(c.r, r)
    BY <1>1 DEF RefRecords, SameTable
  <2> HIDE DEF r, d
  <2>3. d.n = c.n /\ d.r = r
    BY <2>1 DEF Pairs
  <2> QED BY <1>4, <2>2, <2>3 DEF LeavesSnap, SameScreen, SamePage
<1>5. CASE /\ isNewerSnapshotVersion(s, c.r.shown) /\ s.shot >= c.r.shotSeq
           /\ s.status # "moving"
  <2> DEFINE n == [c.n EXCEPT !.turn = s.player, !.status = s.status, !.aiming = TRUE,
                              !.animating = FALSE]
             r == [c.r EXCEPT !.shown = Version(s), !.balls = s.balls, !.shotSeq = s.shot,
                              !.pending = NoShot]
  <2>1. d = [n |-> n, r |-> r]
    BY <1>2, <1>5 DEF showsSnapshot
  <2>2. SamePage(c.n, n) /\ n.turn = s.player /\ n.status = s.status /\ n.aiming /\ ~n.animating
    BY <1>1 DEF States, SamePage
  <2>3. /\ r.balls = s.balls /\ r.shotSeq = s.shot /\ r.pending = NoShot
        /\ r.lastShot = c.r.lastShot /\ r.report = c.r.report
    BY <1>1 DEF RefRecords
  <2> HIDE DEF n, r
  <2>4. d.n = n /\ d.r = r
    BY <2>1
  <2> HIDE DEF d
  <2> QED BY <1>5, <2>2, <2>3, <2>4 DEF Puts, isNewerSnapshotVersion
<1> HIDE DEF d
<1> QED BY <1>2, <1>3, <1>4, <1>5

LEMMA BeginBegins ==
    ASSUME NEW c \in Pairs, NEW shot \in Shots
    PROVE  LET d == beginShot(c, shot) IN Begin(c, shot, d) \/ LeavesShot(c, shot, d)
<1> DEFINE d == beginShot(c, shot)
<1>0. SUFFICES Begin(c, shot, d) \/ LeavesShot(c, shot, d)
  OBVIOUS
<1>1. c.n \in States /\ c.r \in RefRecords
  BY PairTyped
<1>2. shot.seq \in Nat /\ c.r.lastShot \in Nat /\ c.r.shotSeq \in Nat
  BY <1>1 DEF Shots, RefRecords
<1>3. CASE shot.seq <= c.r.lastShot
  <2>1. d = c
    BY <1>3 DEF beginShot
  <2> HIDE DEF d
  <2> QED BY <1>3, <2>1 DEF LeavesShot, SameScreen, SamePage, SameTable
<1>4. CASE ~(shot.seq <= c.r.lastShot)
  <2> DEFINE n == [c.n EXCEPT !.turn = shot.shooter, !.status = "striking", !.animating = TRUE,
                              !.shotId = @ + 1]
             q == IF shot.seq > c.r.shotSeq THEN shot.seq ELSE c.r.shotSeq
             r == [c.r EXCEPT !.lastShot = shot.seq, !.pending = shot, !.shotSeq = q]
  <2>1. d = [n |-> n, r |-> r]
    BY <1>4 DEF beginShot
  <2>2. SamePage(c.n, n) /\ n.aiming = c.n.aiming /\ n.animating /\ n.status = "striking"
    BY <1>1 DEF States, SamePage
  <2> HIDE DEF q
  <2>3. /\ r.lastShot = shot.seq /\ r.pending = shot /\ r.shotSeq = q
        /\ r.balls = c.r.balls /\ r.report = c.r.report
    BY <1>1 DEF RefRecords
  <2> HIDE DEF n, r
  <2>4. d.n = n /\ d.r = r
    BY <2>1
  <2> HIDE DEF d
  <2> QED BY <1>2, <1>4, <2>2, <2>3, <2>4 DEF Begin, q
<1> HIDE DEF d
<1> QED BY <1>2, <1>3, <1>4

\* The page before the effects, and after them.
Before == [n |-> Freshened, r |-> refs]
After  == [n |-> next', r |-> refs']

Renders ==
    /\ server' = server /\ link' = link /\ view # next /\ SameScreen(Freshened, view')
    /\ Before.n = Freshened /\ Before.r = refs /\ After.n = next' /\ After.r = refs'

LEMMA FreshenedFields ==
    ASSUME Typed
    PROVE  /\ Freshened.page = next.page /\ Freshened.room = next.room
           /\ Freshened.snap = next.snap /\ Freshened.shot = next.shot /\ Freshened.fresh = {}
           /\ Freshened.turn = next.turn /\ Freshened.status = next.status
           /\ Freshened.aiming = next.aiming /\ Freshened.animating = next.animating
           /\ Before \in Pairs
<1>1. next \in States /\ refs \in RefRecords
  BY DEF Typed
<1>2. Freshened \in States
  BY <1>1, FreshenedTyped
<1> QED BY <1>1, <1>2 DEF Freshened, States, Before, Pairs

LEMMA RenderRenders == ASSUME Typed, Render PROVE Renders /\ view' = Freshened
<1>1. server' = server /\ link' = link /\ view # next /\ view' = Freshened
  BY DEF Render, Freshened
<1> QED BY <1>1 DEF Renders, SameScreen, SamePage, Before, After

\* A page that was there: what is fresh tells which effect runs.
LEMMA RenderShown ==
    ASSUME Typed, PageInv, Render, next.page = "match", view.page = "match"
    PROVE  /\ cue' = CueAfter(cue, next)
           /\ \/ /\ "reset" \notin next.fresh /\ ("snap" \in next.fresh => next.snap = NoSnap)
                 /\ SameScreen(Freshened, next') /\ SameTable(refs, refs')
              \/ "reset" \in next.fresh /\ Racks(Before, After)
              \/ /\ next.fresh = {"snap"} /\ next.snap \in LobbySnaps
                 /\ Puts(Before, next.snap, After) \/ LeavesSnap(Before, next.snap, After)
              \/ /\ next.fresh = {"shot"}
                 /\ Begin(Before, next.shot, After) \/ LeavesShot(Before, next.shot, After)
<1> DEFINE mounted == view.page # "match"
           c1 == IF mounted \/ "reset" \in next.fresh THEN resetMatch(Before) ELSE Before
           c2 == IF (mounted \/ "snap" \in next.fresh) /\ next.snap # NoSnap
                 THEN showsSnapshot(c1, next.snap) ELSE c1
           c3 == IF (mounted \/ "shot" \in next.fresh) /\ next.shot # NoShot
                 THEN beginShot(c2, next.shot) ELSE c2
<1>1. next' = c3.n /\ refs' = c3.r /\ cue' = CueAfter(cue, next)
  BY DEF Render, Freshened, Before
<1>2. /\ next.fresh = {} \/ (\E x \in next.fresh : next.fresh = {x})
      /\ next.fresh \subseteq {"reset", "snap", "shot"}
      /\ next.snap \in Snaps /\ next.shot \in Shots /\ Before \in Pairs
  BY FreshenedFields DEF PageInv, Typed, States
<1>3. next.fresh \in {{}, {"reset"}, {"snap"}, {"shot"}}
  <2>1. ASSUME NEW x \in next.fresh, next.fresh = {x}
        PROVE  next.fresh \in {{}, {"reset"}, {"snap"}, {"shot"}}
    <3>1. x \in {"reset", "snap", "shot"}
      BY <1>2, <2>1
    <3> QED BY <2>1, <3>1
  <2> QED BY <1>2, <2>1
<1>4. ASSUME c3 = Before
      PROVE  SameScreen(Freshened, next') /\ SameTable(refs, refs')
  <2>1. next' = Freshened /\ refs' = refs
    BY <1>1, <1>4 DEF Before
  <2> QED BY <2>1 DEF SameScreen, SamePage, SameTable
<1>5. \A d \in Pairs : c3 = d => After = d
  BY <1>1 DEF After, Pairs
<1>6. CASE next.fresh = {}
  <2>1. c3 = Before
    BY <1>6
  <2> QED BY <1>1, <1>4, <1>6, <2>1
<1>7. CASE next.fresh = {"reset"}
  <2>1. c3 = resetMatch(Before)
    BY <1>7
  <2>2. resetMatch(Before) \in Pairs /\ Racks(Before, resetMatch(Before))
    BY <1>2, ResetEffect, ResetRacks
  <2>3. After = resetMatch(Before)
    BY <1>5, <2>1, <2>2
  <2> QED BY <1>1, <1>7, <2>2, <2>3
<1>8. CASE next.fresh = {"snap"}
  <2>1. CASE next.snap = NoSnap
    <3>1. c3 = Before
      BY <1>8, <2>1
    <3> QED BY <1>1, <1>4, <1>8, <2>1, <3>1
  <2>2. CASE next.snap # NoSnap
    <3>1. c3 = showsSnapshot(Before, next.snap) /\ next.snap \in LobbySnaps
      BY <1>2, <1>8, <2>2 DEF Snaps
    <3> DEFINE d == showsSnapshot(Before, next.snap)
    <3>2. Puts(Before, next.snap, d) \/ LeavesSnap(Before, next.snap, d)
      BY <1>2, <3>1, ShowsPuts
    <3> HIDE DEF d
    <3>3. c3 = d
      BY <3>1 DEF d
    <3>4. next' = d.n /\ refs' = d.r
      BY <1>1, <3>3
    <3>5. Puts(Before, next.snap, After) \/ LeavesSnap(Before, next.snap, After)
      BY <3>2, <3>4 DEF Puts, LeavesSnap, After
    <3> QED BY <1>1, <1>8, <3>1, <3>5
  <2> QED BY <2>1, <2>2
<1>9. CASE next.fresh = {"shot"}
  <2>1. CASE next.shot = NoShot
    <3>1. c3 = Before
      BY <1>9, <2>1
    <3> QED BY <1>1, <1>4, <1>9, <3>1
  <2>2. CASE next.shot # NoShot
    <3>1. c3 = beginShot(Before, next.shot)
      BY <1>9, <2>2
    <3> DEFINE d == beginShot(Before, next.shot)
    <3>2. Begin(Before, next.shot, d) \/ LeavesShot(Before, next.shot, d)
      BY <1>2, BeginBegins
    <3> HIDE DEF d
    <3>3. c3 = d
      BY <3>1 DEF d
    <3>4. next' = d.n /\ refs' = d.r
      BY <1>1, <3>3
    <3>5. Begin(Before, next.shot, After) \/ LeavesShot(Before, next.shot, After)
      BY <3>2, <3>4 DEF Begin, LeavesShot, After
    <3> QED BY <1>1, <1>9, <3>5
  <2> QED BY <2>1, <2>2
<1> QED BY <1>3, <1>6, <1>7, <1>8, <1>9

\* A page that comes into being: its table is the rack, or that of its snapshot.
LEMMA RenderMounted ==
    ASSUME Typed, Render, next.page = "match", view.page # "match"
    PROVE  /\ ~cue'.striking /\ SamePage(Freshened, next')
           /\ next.snap = NoSnap /\ next.shot = NoShot => Racks(Before, After)
           /\ (next.snap # NoSnap => OfMatch(server, next.snap)) =>
                (next'.status = "aiming" => IsPrefix(refs'.balls, server.snap.balls))
<1> DEFINE c1 == resetMatch(Before)
           c2 == IF next.snap # NoSnap THEN showsSnapshot(c1, next.snap) ELSE c1
           c3 == IF next.shot # NoShot THEN beginShot(c2, next.shot) ELSE c2
           T(c) == c.n.status = "aiming" => IsPrefix(c.r.balls, server.snap.balls)
<1>1. next' = c3.n /\ refs' = c3.r /\ cue' = [striking |-> FALSE, last |-> 0]
  BY DEF Render, Freshened, Before
<1>2. /\ Before \in Pairs /\ Before.n = Freshened /\ next.snap \in Snaps /\ next.shot \in Shots
      /\ server.snap.balls \in Seq(Nat)
  BY FreshenedFields, ServerFields, SnapFields DEF Typed, States, Before
<1>3. c1 \in Pairs /\ Racks(Before, c1)
  BY <1>2, ResetEffect, ResetRacks
<1>4. SamePage(Freshened, c1.n) /\ T(c1) /\ c1.r.shown = NoVersion
  <2>1. SamePage(Freshened, c1.n) /\ c1.r.balls = <<>>
    BY <1>2, <1>3 DEF Racks
  <2>2. IsPrefix(<<>>, server.snap.balls)
    BY <1>2, PrefixFacts
  <2> QED BY <1>2, <2>1, <2>2, ResetEffect
<1> HIDE DEF c1
<1>5. c2 \in Pairs /\ SamePage(Freshened, c2.n)
      /\ ((next.snap # NoSnap => OfMatch(server, next.snap)) => T(c2))
  <2>1. CASE next.snap = NoSnap
    BY <1>3, <1>4, <2>1
  <2>2. CASE next.snap # NoSnap
    <3> DEFINE d == showsSnapshot(c1, next.snap)
    <3>1. next.snap \in LobbySnaps
      BY <1>2, <2>2 DEF Snaps
    <3>2. Puts(c1, next.snap, d) \/ LeavesSnap(c1, next.snap, d)
      BY <1>3, <3>1, ShowsPuts
    <3>3. NotAfter(NoVersion, Version(next.snap))
      BY <3>1, LobbyIsNewer DEF NotAfter
    <3>4. d \in Pairs
      BY <1>3, <1>4, <3>1, <3>3, ShowsEffect
    <3>5. c2 = d
      BY <2>2
    <3> HIDE DEF d
    <3>6. SamePage(Freshened, d.n)
      BY <1>4, <3>2 DEF Puts, LeavesSnap, SameScreen, SamePage
    <3>7. ASSUME OfMatch(server, next.snap) PROVE T(d)
      BY <1>4, <3>2, <3>7 DEF Puts, LeavesSnap, SameScreen, SameTable, OfMatch
    <3> HIDE DEF c2
    <3> QED BY <2>2, <3>4, <3>5, <3>6, <3>7
  <2> QED BY <2>1, <2>2
<1>6. next.snap = NoSnap => c2 = c1
  OBVIOUS
<1> HIDE DEF c2
<1>7. SamePage(Freshened, c3.n)
      /\ ((next.snap # NoSnap => OfMatch(server, next.snap)) => T(c3))
  <2>1. CASE next.shot = NoShot
    BY <1>5, <2>1
  <2>2. CASE next.shot # NoShot
    <3> DEFINE d == beginShot(c2, next.shot)
    <3>1. Begin(c2, next.shot, d) \/ LeavesShot(c2, next.shot, d)
      BY <1>2, <1>5, BeginBegins
    <3>2. c3 = d
      BY <2>2
    <3> HIDE DEF d
    <3>3. SamePage(Freshened, d.n) /\ (T(c2) => T(d))
      BY <1>5, <3>1 DEF Begin, LeavesShot, SameScreen, SamePage, SameTable
    <3> HIDE DEF c3
    <3> QED BY <1>5, <3>2, <3>3
  <2> QED BY <2>1, <2>2
<1>8. ASSUME next.snap = NoSnap, next.shot = NoShot PROVE Racks(Before, After)
  <2>1. c3 = c1
    BY <1>6, <1>8
  <2>2. next' = c1.n /\ refs' = c1.r
    BY <1>1, <2>1
  <2> QED BY <1>3, <2>2 DEF Racks, After
<1> HIDE DEF c3
<1>9. ~cue'.striking
  BY <1>1
<1> QED BY <1>1, <1>7, <1>8, <1>9

\* A render of a page that has no match to show.
LEMMA RendersNothing ==
    ASSUME Typed, FilterInv, TablesInv, Render, next.page # "match"
    PROVE  TablesInv'
<1> USE DEF TablesInv
<1>1. /\ server' = server /\ link' = link /\ view # next /\ view' = Freshened /\ next' = Freshened
      /\ refs' = refs /\ cue' = cue
  BY DEF Render, Freshened
<1>2. /\ Freshened.page = next.page /\ Freshened.room = next.room
      /\ Freshened.snap = next.snap /\ Freshened.fresh = {}
  BY FreshenedFields
<1>3. WireInv' /\ LinkInv'
  BY <1>1, <1>2 DEF WireInv, LinkInv, InPlay
<1>4. ~(InPlay /\ next.page = "loading")
  BY <1>1 DEF PageInv
<1>5. PageInv'
  BY <1>1, <1>2, <1>4 DEF PageInv, InPlay
<1>6. FreshInv' /\ NumbersInv' /\ TableInv' /\ ShowsInv'
  BY <1>1, <1>2 DEF FreshInv, NumbersInv, TableInv, ShowsInv, Open
<1>7. AimInv'
  BY <1>1 DEF AimInv, TimedSnap, Open
<1>8. ShotInv'
  <2>1. SUFFICES ASSUME Mine PROVE ShotInv'
    BY <1>1 DEF ShotInv, Mine, InPlay
  <2> QED BY <1>1, <1>2, <2>1 DEF ShotInv, ActiveShot, Played
<1> QED BY <1>3, <1>5, <1>6, <1>7, <1>8

\* What every render of a match keeps.
LEMMA RendersPage ==
    ASSUME Typed, FilterInv, TablesInv, Render, next.page = "match"
    PROVE  /\ server' = server /\ link' = link /\ view'.page = "match"
           /\ next'.page = "match" /\ next'.room = next.room /\ next'.snap = next.snap
           /\ next'.fresh = {}
           /\ WireInv' /\ LinkInv' /\ PageInv' /\ FreshInv'
<1> USE DEF TablesInv
<1>1. server' = server /\ link' = link /\ view' = Freshened
  BY RenderRenders DEF Renders
<1>2. /\ Freshened.page = "match" /\ Freshened.room = next.room /\ Freshened.snap = next.snap
      /\ Freshened.fresh = {} /\ Freshened.animating = next.animating
  BY FreshenedFields
<1>3. SamePage(Freshened, next') /\ (cue'.striking => next.animating)
  <2>1. CASE view.page # "match"
    BY <2>1, RenderMounted
  <2>2. CASE view.page = "match"
    <3>1. cue' = CueAfter(cue, next)
      BY <2>2, RenderShown
    <3>2. cue'.striking => next.animating
      BY <3>1 DEF CueAfter
    <3>3. /\ Before.n = Freshened /\ After.n = next'
      BY DEF Before, After
    <3> QED BY <2>2, <3>2, <3>3, RenderShown
            DEF SameScreen, Racks, Puts, LeavesSnap, Begin, LeavesShot
  <2> QED BY <2>1, <2>2
<1>4. /\ next'.page = "match" /\ next'.room = next.room /\ next'.snap = next.snap
      /\ next'.fresh = {}
  BY <1>2, <1>3 DEF SamePage
<1>5. WireInv' /\ LinkInv'
  BY <1>1, <1>4 DEF WireInv, LinkInv, InPlay
<1>6. PageInv'
  BY <1>1, <1>2, <1>3, <1>4 DEF PageInv, InPlay
<1>7. FreshInv'
  BY <1>4 DEF FreshInv
<1> QED BY <1>1, <1>2, <1>4, <1>5, <1>6, <1>7

\* In a match whose opening the page has heard, it comes into being with the rack.
LEMMA MountsRack ==
    ASSUME Typed, PageInv, Render, next.page = "match", view.page # "match",
           InPlay, Clean(link.in)
    PROVE  Racks(Before, After) /\ next.snap = NoSnap
<1>1. next.snap = NoSnap /\ next.shot = NoShot
  BY DEF PageInv
<1> QED BY <1>1, RenderMounted

LEMMA BeforeAfter ==
    ASSUME Typed
    PROVE  /\ Before.r = refs /\ After.r = refs' /\ After.n = next'
           /\ Before.n.aiming = next.aiming /\ Before.n.animating = next.animating
           /\ Before.n.status = next.status /\ Before.n.turn = next.turn
BY FreshenedFields DEF Before, After

LEMMA RendersNumbers ==
    ASSUME Typed, FilterInv, TablesInv, Render, next.page = "match"
    PROVE  NumbersInv'
<1> USE DEF TablesInv
<1>1. server' = server /\ link' = link /\ next'.fresh = {}
  BY RendersPage
<1>2. SUFFICES ASSUME InPlay, Clean(link.in)
               PROVE  refs'.shotSeq <= server.snap.shot /\ refs'.lastShot <= server.snap.shot
  BY <1>1 DEF NumbersInv, InPlay
<1>3. /\ server.snap.shot \in Nat /\ refs.shotSeq \in Nat /\ refs.lastShot \in Nat
      /\ next.shot.seq \in Nat
  BY ServerFields, SnapFields DEF Typed, RefRecords, States, Shots
<1>4. CASE view.page # "match"
  BY <1>2, <1>3, <1>4, MountsRack, BeforeAfter DEF Racks
<1>5. CASE view.page = "match"
  <2>1. "reset" \notin next.fresh =>
            refs.shotSeq <= server.snap.shot /\ refs.lastShot <= server.snap.shot
    BY <1>2, <1>5 DEF NumbersInv
  <2>2. "shot" \in next.fresh => next.shot.seq <= server.snap.shot
    BY <1>2, <1>5 DEF NumbersInv
  <2>3. CASE /\ "reset" \notin next.fresh
             /\ SameScreen(Freshened, next') /\ SameTable(refs, refs')
    BY <2>1, <2>3 DEF SameTable
  <2>4. CASE Racks(Before, After)
    BY <1>3, <2>4, BeforeAfter DEF Racks
  <2>5. CASE next.fresh = {"snap"} /\ next.snap \in LobbySnaps
             /\ (Puts(Before, next.snap, After) \/ LeavesSnap(Before, next.snap, After))
    <3>1. Known(server, next.snap)
      BY <1>2, <2>5, SnapFields DEF WireInv, AcceptedInv, Taken, InPlay
    <3>2. CASE Puts(Before, next.snap, After)
      BY <2>1, <2>5, <3>1, <3>2, BeforeAfter DEF Puts, Known
    <3>3. CASE LeavesSnap(Before, next.snap, After)
      BY <2>1, <2>5, <3>3, BeforeAfter DEF LeavesSnap, SameTable
    <3> QED BY <2>5, <3>2, <3>3
  <2>6. CASE next.fresh = {"shot"}
             /\ (Begin(Before, next.shot, After) \/ LeavesShot(Before, next.shot, After))
    <3>1. CASE Begin(Before, next.shot, After)
      BY <1>3, <2>1, <2>2, <2>6, <3>1, BeforeAfter DEF Begin
    <3>2. CASE LeavesShot(Before, next.shot, After)
      BY <2>1, <2>6, <3>2, BeforeAfter DEF LeavesShot, SameTable
    <3> QED BY <2>6, <3>1, <3>2
  <2> QED BY <1>5, <2>3, <2>4, <2>5, <2>6, RenderShown
<1> QED BY <1>4, <1>5

LEMMA RendersTable ==
    ASSUME Typed, FilterInv, TablesInv, Render, next.page = "match"
    PROVE  TableInv'
<1> USE DEF TablesInv
<1>1. server' = server /\ link' = link
  BY RendersPage
<1>2. SUFFICES ASSUME Clean(link.in), next'.status = "aiming"
               PROVE  IsPrefix(refs'.balls, server.snap.balls)
  BY <1>1 DEF TableInv
<1>3. next.snap # NoSnap => OfMatch(server, next.snap)
  BY <1>2 DEF WireInv, AcceptedInv, Taken
<1>4. CASE view.page # "match"
  BY <1>2, <1>3, <1>4, RenderMounted
<1>5. CASE view.page = "match"
  <2>1. "reset" \notin next.fresh /\ next.status = "aiming" =>
            IsPrefix(refs.balls, server.snap.balls)
    BY <1>2, <1>5 DEF TableInv
  <2>2. next.status = Freshened.status
    BY FreshenedFields
  <2>3. CASE /\ "reset" \notin next.fresh
             /\ SameScreen(Freshened, next') /\ SameTable(refs, refs')
    BY <1>2, <2>1, <2>2, <2>3 DEF SameScreen, SameTable
  <2>4. CASE Racks(Before, After)
    <3>1. refs'.balls = <<>> /\ server.snap.balls \in Seq(Nat)
      BY <2>4, BeforeAfter, ServerFields, SnapFields DEF Racks, Typed
    <3> QED BY <3>1, PrefixFacts
  <2>5. CASE next.fresh = {"snap"} /\ next.snap \in LobbySnaps
             /\ (Puts(Before, next.snap, After) \/ LeavesSnap(Before, next.snap, After))
    <3>1. CASE Puts(Before, next.snap, After)
      BY <1>3, <2>5, <3>1, BeforeAfter, SnapFields DEF Puts, OfMatch
    <3>2. CASE LeavesSnap(Before, next.snap, After)
      BY <1>2, <2>1, <2>5, <3>2, BeforeAfter DEF LeavesSnap, SameTable, SameScreen
    <3> QED BY <2>5, <3>1, <3>2
  <2>6. CASE next.fresh = {"shot"}
             /\ (Begin(Before, next.shot, After) \/ LeavesShot(Before, next.shot, After))
    <3>1. CASE Begin(Before, next.shot, After)
      BY <1>2, <3>1, BeforeAfter DEF Begin
    <3>2. CASE LeavesShot(Before, next.shot, After)
      BY <1>2, <2>1, <2>6, <3>2, BeforeAfter DEF LeavesShot, SameTable, SameScreen
    <3> QED BY <2>6, <3>1, <3>2
  <2> QED BY <1>5, <2>3, <2>4, <2>5, <2>6, RenderShown
<1> QED BY <1>4, <1>5

\* The snapshot of the turn is newer than what the page shows, and no shot is ahead of it.
LEMMA RendersTurn ==
    ASSUME Typed, FilterInv, TablesInv, Render, next.page = "match",
           Aimed, Clean(link.in), Current(server, next.snap)
    PROVE  /\ view.page = "match" /\ ~Has(link.in, "shot_started")
           /\ Ready' /\ refs'.report = refs.report
<1> USE DEF TablesInv
<1>1. server' = server
  BY RendersPage
<1>2. next.snap # NoSnap /\ InPlay
  BY NoneIsCurrent DEF WireInv, Aimed
<1>3. view.page = "match"
  BY <1>2, MountsRack
<1>4. next.snap \in LobbySnaps
  BY <1>2 DEF Typed, States, Snaps
<1>5. /\ ~Has(link.in, "shot_started") /\ "shot" \notin next.fresh /\ "reset" \notin next.fresh
      /\ "snap" \in next.fresh \/ Ready
  BY <1>3 DEF ShowsInv, Open
<1>6. /\ next.snap.balls = server.snap.balls /\ next.snap.player = server.snap.player
      /\ next.snap.status = "aiming" /\ next.snap.shot = server.snap.shot
  <2>1. Known(server, next.snap) /\ server.snap.status = "aiming"
    BY <1>2 DEF WireInv, AcceptedInv, Taken, Aimed, InPlay
  <2>2. next.snap.turn = server.snap.turn /\ next.snap.shot = server.snap.shot
    BY DEF Current
  <2> QED BY <2>1, <2>2 DEF Known
<1>7. refs.shotSeq <= server.snap.shot /\ refs.shotSeq \in Nat /\ server.snap.shot \in Nat
  BY <1>2, <1>3, <1>5, ServerFields, SnapFields DEF NumbersInv, Typed, RefRecords
<1>8. CASE "snap" \in next.fresh
  <2>1. isNewerSnapshot(next.snap, refs.shown)
    <3>1. isNewerSnapshot(Version(next.snap), refs.shown)
      BY <1>3, <1>5, <1>8 DEF FreshInv, FilterInv
    <3>2. refs.shown \in Versions
      BY DEF Typed, RefRecords
    <3> QED BY <1>4, <3>1, <3>2, LobbyIsNewer
  <2>2. ~LeavesSnap(Before, next.snap, After)
    BY <1>6, <1>7, <2>1, BeforeAfter DEF LeavesSnap
  <2>3. Puts(Before, next.snap, After)
    BY <1>2, <1>3, <1>5, <1>8, <2>2, RenderShown
  <2> QED BY <1>1, <1>3, <1>5, <1>6, <2>3, BeforeAfter DEF Puts, Ready
<1>9. CASE "snap" \notin next.fresh
  <2>1. SameScreen(Freshened, next') /\ SameTable(refs, refs') /\ Ready
    BY <1>3, <1>5, <1>9, RenderShown
  <2> QED BY <1>1, <1>3, <1>5, <2>1, FreshenedFields DEF SameScreen, SameTable, Ready
<1> QED BY <1>8, <1>9

\* A shot of this player is begun once, and the table before it is left alone.
LEMMA RendersShot ==
    ASSUME Typed, FilterInv, TablesInv, Render, next.page = "match", Mine
    PROVE  /\ view.page = "match"
           /\ Announced' \/ Striking' \/ Rolling' \/ Resting'
<1> USE DEF TablesInv
<1>1. server' = server /\ link' = link
  BY RendersPage
<1>2. /\ Clean(link.in) /\ "reset" \notin next.fresh /\ next.snap.turn = server.snap.turn
      /\ "shot" \in next.fresh => next.shot = ActiveShot
      /\ view.page = "match" /\ (Announced \/ Striking \/ Rolling \/ Resting)
  BY DEF ShotInv
<1>3. /\ server.snap.shot \in Nat /\ refs.shotSeq \in Nat /\ refs.lastShot \in Nat
      /\ ActiveShot.seq = server.snap.shot
  BY ServerFields, SnapFields DEF Typed, RefRecords, ActiveShot, Shot
<1>4. ActiveShot' = ActiveShot /\ Played' = Played /\ NoResult' = NoResult
  BY <1>1 DEF ActiveShot, Played, NoResult
<1>5. ASSUME next'.aiming = next.aiming, next'.animating = next.animating, SameTable(refs, refs')
      PROVE  Announced' \/ Striking' \/ Rolling' \/ Resting'
  BY <1>1, <1>2, <1>4, <1>5 DEF Announced, Striking, Rolling, Resting, Begun, SameTable
<1>6. CASE SameScreen(Freshened, next') /\ SameTable(refs, refs')
  BY <1>2, <1>5, <1>6, FreshenedFields DEF SameScreen
<1>7. CASE next.snap \in LobbySnaps /\ Puts(Before, next.snap, After)
  <2>1. Known(server, next.snap)
    BY <1>2, <1>7, SnapFields DEF WireInv, AcceptedInv, Taken, Mine, InPlay
  <2>2. /\ next.snap.shot = server.snap.shot - 1 /\ next.snap.balls = server.snap.balls
        /\ next.snap.shot \in Nat
    BY <1>2, <1>7, <2>1, SnapFields DEF Known, Puts, Mine
  <2>3. Announced
    BY <1>2, <1>3, <1>7, <2>2, BeforeAfter DEF Puts, Striking, Rolling, Resting, Begun
  <2>4. refs'.shotSeq < server.snap.shot
    BY <1>3, <1>7, <2>2, BeforeAfter DEF Puts
  <2>5. Announced'
    BY <1>1, <1>4, <1>7, <2>2, <2>3, <2>4, BeforeAfter DEF Puts, Announced
  <2> QED BY <1>2, <2>5
<1>8. CASE next.snap \in LobbySnaps /\ LeavesSnap(Before, next.snap, After)
  <2>1. SameTable(refs, refs') /\ next'.aiming = next.aiming /\ next'.animating = next.animating
    BY <1>8, BeforeAfter DEF LeavesSnap, SameScreen
  <2> QED BY <1>2, <1>5, <2>1
<1>9. CASE next.fresh = {"shot"} /\ Begin(Before, next.shot, After)
  <2>1. next.shot = ActiveShot /\ server.snap.shot > refs.lastShot
    BY <1>2, <1>3, <1>9, BeforeAfter DEF Begin
  <2>2. Announced
    BY <1>2, <1>3, <2>1 DEF Striking, Rolling, Resting, Begun
  <2>3. refs.shotSeq < server.snap.shot
    BY <2>2 DEF Announced
  <2>4. /\ refs'.lastShot = server.snap.shot /\ refs'.shotSeq = server.snap.shot
        /\ refs'.pending = ActiveShot
    BY <1>3, <1>9, <2>1, <2>3, BeforeAfter DEF Begin
  <2>5. Striking'
    BY <1>1, <1>4, <1>9, <2>2, <2>4, BeforeAfter DEF Begin, Announced, Striking, Begun
  <2> QED BY <1>2, <2>5
<1>10. CASE next.fresh = {"shot"} /\ LeavesShot(Before, next.shot, After)
  <2>1. SameTable(refs, refs') /\ next'.aiming = next.aiming /\ next'.animating = next.animating
    BY <1>10, BeforeAfter DEF LeavesShot, SameScreen
  <2> QED BY <1>2, <1>5, <2>1
<1> QED BY <1>2, <1>6, <1>7, <1>8, <1>9, <1>10, RenderShown

LEMMA RendersKeep ==
    ASSUME Typed, FilterInv, TablesInv, Render
    PROVE  TablesInv'
<1>1. CASE next.page # "match"
  BY <1>1, RendersNothing
<1>2. CASE next.page = "match"
  <2> USE DEF TablesInv
  <2>1. /\ server' = server /\ link' = link /\ view'.page = "match"
        /\ next'.page = "match" /\ next'.room = next.room /\ next'.snap = next.snap
        /\ next'.fresh = {}
        /\ WireInv' /\ LinkInv' /\ PageInv' /\ FreshInv'
    BY <1>2, RendersPage
  <2>2. NumbersInv' /\ TableInv'
    BY <1>2, RendersNumbers, RendersTable
  <2>3. ShowsInv'
    <3>1. SUFFICES ASSUME Aimed, Clean(link.in), Current(server, next.snap)
                   PROVE  ~Has(link.in, "shot_started") /\ Ready'
      BY <2>1 DEF ShowsInv, Aimed, InPlay
    <3> QED BY <1>2, <3>1, RendersTurn
  <2>4. AimInv'
    <3>1. SUFFICES ASSUME TimedSnap, server.snap.player = Me, Has(link.out, "shot_started")
                   PROVE  AimInv'
      BY <2>1 DEF AimInv, TimedSnap
    <3>2. /\ Clean(link.in) /\ Open /\ Current(server, next.snap) /\ refs.report = NoShot
          /\ \A i \in 1 .. Len(link.out) : link.out[i].type = "shot_started" =>
            /\ link.out[i].balls = server.snap.balls
            /\ \A j \in 1 .. Len(link.out) : j > i =>
                    link.out[j].type # "shot_result_submitted"
      BY <3>1 DEF AimInv
    <3>3. Ready' /\ refs'.report = refs.report
      BY <1>2, <3>1, <3>2, RendersTurn DEF Aimed, InPlay, TimedSnap
    <3> QED BY <2>1, <3>2, <3>3 DEF AimInv, Open
  <2>5. ShotInv'
    <3>1. SUFFICES ASSUME Mine PROVE ShotInv'
      BY <2>1 DEF ShotInv, Mine, InPlay
    <3>2. /\ Clean(link.in) /\ next.snap.turn = server.snap.turn
          /\ \A i \in 1 .. Len(link.in) :
                link.in[i].type = "shot_started" => link.in[i].shot = ActiveShot
          /\ \A i \in 1 .. Len(link.out) : link.out[i].type = "shot_result_submitted" =>
                link.out[i].seq = server.snap.shot /\ link.out[i].balls = Played
      BY <3>1 DEF ShotInv
    <3>3. Announced' \/ Striking' \/ Rolling' \/ Resting'
      BY <1>2, <3>1, RendersShot
    <3>4. ActiveShot' = ActiveShot /\ Played' = Played
      BY <2>1 DEF ActiveShot, Played
    <3> QED BY <2>1, <3>2, <3>3, <3>4 DEF ShotInv
  <2> QED BY <2>1, <2>2, <2>3, <2>4, <2>5
<1> QED BY <1>1, <1>2

-----------------------------------------------------------------------------
(***************************************************************************)
(* Frames, and the player.                                                 *)
(***************************************************************************)
LEMMA FrameShown ==
    ASSUME Ordinary, FilterInv, Frame
    PROVE  view = next /\ next.fresh = {} /\ next.page = "match" /\ view.page = "match"
BY DEF Ordinary, FilterInv, Frame, Settled, Rendered

LEMMA ContactKeeps ==
    ASSUME Ordinary, Typed, FilterInv, TablesInv, handleCueContact
    PROVE  TablesInv'
<1> USE DEF TablesInv
<1>1. /\ server' = server /\ link' = link /\ view' = view /\ refs' = refs /\ ~cue'.striking
      /\ cue.striking
  BY DEF handleCueContact, CueReachesBall
<1>2. view = next /\ next.fresh = {} /\ next.page = "match" /\ view.page = "match"
  BY FrameShown DEF handleCueContact, CueReachesBall
<1>3. /\ next'.snap = next.snap /\ next'.shot = next.shot /\ next'.fresh = next.fresh
      /\ next'.page = next.page /\ next'.room = next.room
      /\ next'.status = "moving" /\ ~next'.aiming /\ ~next'.animating
  BY DEF handleCueContact, Typed, States
<1>4. next.animating /\ ~Ready
  BY <1>1, <1>2 DEF PageInv, Ready
<1>5. WireInv' /\ LinkInv' /\ PageInv'
  BY <1>1, <1>2, <1>3 DEF WireInv, LinkInv, PageInv, InPlay
<1>6. FreshInv' /\ NumbersInv' /\ TableInv'
  BY <1>1, <1>2, <1>3 DEF FreshInv, NumbersInv, TableInv, InPlay
<1>7. ShowsInv' /\ AimInv'
  BY <1>1, <1>2, <1>3, <1>4 DEF ShowsInv, AimInv, Aimed, InPlay, TimedSnap, Open
<1>8. ShotInv'
  <2>1. SUFFICES ASSUME Mine PROVE ShotInv'
    BY <1>1 DEF ShotInv, Mine, InPlay
  <2>2. Striking
    BY <1>2, <1>4, <2>1 DEF ShotInv, Announced, Rolling, Resting
  <2>3. ActiveShot' = ActiveShot /\ Played' = Played
    BY <1>1 DEF ActiveShot, Played
  <2>4. Rolling'
    BY <1>1, <1>3, <2>2, <2>3 DEF Striking, Rolling, Begun, NoResult
  <2> QED BY <1>1, <1>2, <1>3, <2>1, <2>3, <2>4 DEF ShotInv
<1> QED BY <1>5, <1>6, <1>7, <1>8

LEMMA RestKeeps ==
    ASSUME Ordinary, Typed, FilterInv, TablesInv, handleSimulationStopped
    PROVE  TablesInv'
<1> USE DEF TablesInv
<1> DEFINE balls == Append(refs.balls, refs.pending.seq)
           report == IF refs.pending # NoShot /\ refs.pending.shooter = Me
                     THEN refs.pending ELSE NoShot
<1>1. /\ server' = server /\ link' = link /\ view' = view /\ cue' = cue /\ ~view.aiming
  BY DEF handleSimulationStopped, BallsRest
<1>2. view = next /\ next.fresh = {} /\ next.page = "match" /\ view.page = "match"
  BY FrameShown DEF handleSimulationStopped, BallsRest
<1>3. /\ next'.snap = next.snap /\ next'.shot = next.shot /\ next'.fresh = next.fresh
      /\ next'.page = next.page /\ next'.room = next.room
      /\ next'.status = "moving" /\ next'.aiming /\ next'.animating = next.animating
  BY DEF handleSimulationStopped, Typed, States
<1>4. /\ refs'.accepted = refs.accepted /\ refs'.shown = refs.shown
      /\ refs'.shotSeq = refs.shotSeq /\ refs'.lastShot = refs.lastShot
      /\ refs'.pending = refs.pending /\ refs'.balls = balls /\ refs'.report = report
  <2>1. refs' = [refs EXCEPT !.balls = balls, !.report = report]
    BY DEF handleSimulationStopped
  <2> HIDE DEF balls, report
  <2> QED BY <2>1 DEF Typed, RefRecords
<1>5. report \in {NoShot, refs.pending}
  OBVIOUS
<1> HIDE DEF report
<1>6. ~Ready
  BY <1>1, <1>2 DEF Ready
<1>7. WireInv' /\ LinkInv' /\ PageInv'
  BY <1>1, <1>2, <1>3 DEF WireInv, LinkInv, PageInv, InPlay
<1>8. FreshInv' /\ NumbersInv' /\ TableInv'
  BY <1>1, <1>2, <1>3, <1>4 DEF FreshInv, NumbersInv, TableInv, InPlay
<1>9. ShowsInv' /\ AimInv'
  BY <1>1, <1>2, <1>3, <1>6 DEF ShowsInv, AimInv, Aimed, InPlay, TimedSnap, Open
<1>10. ShotInv'
  <2>1. SUFFICES ASSUME Mine PROVE ShotInv'
    BY <1>1 DEF ShotInv, Mine, InPlay
  <2>2. Rolling
    BY <1>1, <1>2, <2>1 DEF ShotInv, Announced, Striking, Resting
  <2>3. ActiveShot' = ActiveShot /\ Played' = Played
    BY <1>1 DEF ActiveShot, Played
  <2>4. balls = Played
    BY <2>2 DEF Rolling, Begun, Played, ActiveShot, Shot
  <2>5. Resting'
    BY <1>1, <1>3, <1>4, <1>5, <2>2, <2>3, <2>4 DEF Resting, Rolling, Begun
  <2> QED BY <1>1, <1>2, <1>3, <2>1, <2>3, <2>5 DEF ShotInv
<1> QED BY <1>7, <1>8, <1>9, <1>10

LEMMA Sends ==
    ASSUME Typed, NEW message, sendWS(message)
    PROVE  /\ link'.in = link.in /\ link'.st = link.st /\ link'.sub = link.sub
           /\ link'.greeting = link.greeting /\ Len(link.out) \in Nat
           /\ link.st # "open" => link' = link
           /\ \A i \in 1 .. Len(link'.out) :
                \/ i \in 1 .. Len(link.out) /\ link'.out[i] = link.out[i]
                \/ i = Len(link.out) + 1 /\ link'.out[i] = message /\ link.st = "open"
           /\ \A i \in 1 .. Len(link.out) : i \in 1 .. Len(link'.out) /\ link'.out[i] = link.out[i]
           /\ \A j \in 1 .. Len(link'.out) : j <= Len(link.out) + 1
<1>1. link.out \in Seq(OutMessages) /\ Len(link.out) \in Nat
  BY DEF Typed, LinkTyped
<1>2. CASE link.st # "open"
  <2>1. link' = link
    BY <1>2 DEF sendWS
  <2> QED BY <1>1, <1>2, <2>1
<1>3. CASE link.st = "open"
  <2> DEFINE out == Append(link.out, message)
  <2>1. link' = [link EXCEPT !.out = out]
    BY <1>3 DEF sendWS
  <2>2. /\ Len(out) = Len(link.out) + 1 /\ out[Len(link.out) + 1] = message
        /\ \A i \in 1 .. Len(link.out) : out[i] = link.out[i]
    BY <1>1
  <2> HIDE DEF out
  <2>3. /\ link'.in = link.in /\ link'.st = link.st /\ link'.sub = link.sub
        /\ link'.greeting = link.greeting /\ link'.out = out
    BY <2>1 DEF Typed, LinkTyped
  <2> QED BY <1>1, <1>3, <2>2, <2>3
<1> QED BY <1>2, <1>3

\* What sending does not touch.
LEMMA SendKeeps ==
    ASSUME Typed, TablesInv, NEW message, sendWS(message),
           server' = server, view' = view, cue' = cue,
           SameScreen(next, next'), next.page = "match" \/ next' = next, SameTable(refs, refs'),
           refs'.shown = refs.shown, refs'.accepted = refs.accepted
    PROVE  WireInv' /\ LinkInv' /\ PageInv' /\ FreshInv' /\ NumbersInv' /\ ShowsInv' /\ TableInv'
<1> USE DEF TablesInv
<1>1. /\ link'.in = link.in /\ link'.st = link.st /\ link'.sub = link.sub
      /\ link'.greeting = link.greeting /\ (link.st # "open" => link' = link)
      /\ \A type : Has(link.out, type) => Has(link'.out, type)
  BY Sends DEF Has
<1>2. WireInv' /\ LinkInv'
  <2>1. MatchKept /\ next'.snap = next.snap
    BY DEF MatchKept, SameScreen, SamePage
  <2> QED BY <1>1, <2>1, WireSame DEF LinkInv, InPlay
<1>3. PageInv' /\ FreshInv'
  BY <1>1 DEF PageInv, FreshInv, InPlay, SameScreen, SamePage
<1>4. NumbersInv' /\ TableInv'
  BY <1>1 DEF NumbersInv, TableInv, InPlay, SameScreen, SamePage, SameTable
<1>5. ShowsInv'
  BY <1>1 DEF ShowsInv, Aimed, InPlay, Open, Ready, SameScreen, SamePage, SameTable
<1> QED BY <1>2, <1>3, <1>4, <1>5

\* The result is that of the shot, with the table that it left.
LEMMA ReportKeeps ==
    ASSUME Typed, TablesInv, onShotResult
    PROVE  TablesInv'
<1> USE DEF TablesInv
<1> DEFINE message == [type |-> "shot_result_submitted", seq |-> refs.report.seq,
                       balls |-> refs.balls]
<1>1. /\ server' = server /\ next' = next /\ view' = view /\ cue' = cue
      /\ refs.report # NoShot /\ sendWS(message)
  BY DEF onShotResult
<1>2. /\ SameScreen(next, next')
      /\ refs'.shown = refs.shown /\ refs'.accepted = refs.accepted
      /\ refs'.shotSeq = refs.shotSeq /\ refs'.lastShot = refs.lastShot
      /\ refs'.pending = refs.pending /\ refs'.balls = refs.balls /\ refs'.report = NoShot
  BY <1>1 DEF onShotResult, Typed, RefRecords, SameScreen, SamePage
<1>3. message.type = "shot_result_submitted" /\ message.seq = refs.report.seq
      /\ message.balls = refs.balls
  OBVIOUS
<1> HIDE DEF message
<1>4. /\ link'.in = link.in /\ link'.st = link.st /\ link'.sub = link.sub
      /\ link'.greeting = link.greeting /\ (link.st # "open" => link' = link)
      /\ \A type : Has(link.out, type) => Has(link'.out, type)
      /\ \A i \in 1 .. Len(link'.out) :
                \/ i \in 1 .. Len(link.out) /\ link'.out[i] = link.out[i]
                \/ i = Len(link.out) + 1 /\ link'.out[i] = message /\ link.st = "open"
  BY <1>1, Sends DEF Has
<1>5. WireInv' /\ LinkInv'
  <2>1. MatchKept
    BY <1>1 DEF MatchKept
  <2> QED BY <1>1, <1>4, <2>1, WireSame DEF LinkInv, InPlay
<1>6. PageInv' /\ FreshInv' /\ NumbersInv' /\ TableInv'
  BY <1>1, <1>2, <1>4 DEF PageInv, FreshInv, NumbersInv, TableInv, InPlay
<1>7. ShowsInv'
  BY <1>1, <1>2, <1>4 DEF ShowsInv, Aimed, InPlay, Open, Ready
<1>8. AimInv'
  <2>1. Has(link'.out, "shot_started") => Has(link.out, "shot_started")
    BY <1>3, <1>4 DEF Has
  <2>2. ~(TimedSnap /\ server.snap.player = Me /\ Has(link'.out, "shot_started"))
    BY <1>1, <2>1 DEF AimInv
  <2> QED BY <1>1, <2>2 DEF AimInv, TimedSnap
<1>9. ShotInv'
  <2>1. SUFFICES ASSUME Mine PROVE ShotInv'
    BY <1>1 DEF ShotInv, Mine, InPlay
  <2>2. ActiveShot' = ActiveShot /\ Played' = Played /\ ActiveShot.seq = server.snap.shot
    BY <1>1 DEF ActiveShot, Played, Shot
  <2>3. next.page = "match" => Resting /\ refs.report = ActiveShot
    BY <1>1, <2>1 DEF ShotInv, Announced, Striking, Rolling, Resting
  <2>4. link.st = "open" => next.page = "match"
    BY <2>1 DEF ShotInv, PageInv
  <2>5. ASSUME NEW i \in 1 .. Len(link'.out), link'.out[i].type = "shot_result_submitted"
        PROVE  link'.out[i].seq = server.snap.shot /\ link'.out[i].balls = Played
    <3>1. CASE i \in 1 .. Len(link.out) /\ link'.out[i] = link.out[i]
      BY <2>1, <2>5, <3>1 DEF ShotInv
    <3>2. CASE link'.out[i] = message /\ link.st = "open"
      BY <1>3, <2>2, <2>3, <2>4, <3>2 DEF Resting
    <3> QED BY <1>4, <3>1, <3>2
  <2>6. next.page = "match" => Resting'
    BY <1>1, <1>2, <2>2, <2>3 DEF Resting, Begun
  <2> QED BY <1>1, <1>4, <2>1, <2>2, <2>5, <2>6 DEF ShotInv
<1> QED BY <1>5, <1>6, <1>7, <1>8, <1>9

\* A shot or a request for a rematch leaves the phase of a shot as it is.
LEMMA AskKeepsShot ==
    ASSUME Typed, ShotInv, NEW message, sendWS(message),
           message.type # "shot_result_submitted",
           server' = server, view' = view, SameScreen(next, next'), SameTable(refs, refs')
    PROVE  ShotInv'
<1>1. /\ link'.in = link.in
      /\ \A i \in 1 .. Len(link'.out) :
                \/ i \in 1 .. Len(link.out) /\ link'.out[i] = link.out[i]
                \/ i = Len(link.out) + 1 /\ link'.out[i] = message /\ link.st = "open"
  BY Sends
<1>2. SUFFICES ASSUME Mine PROVE ShotInv'
  BY DEF ShotInv, Mine, InPlay
<1>3. ActiveShot' = ActiveShot /\ Played' = Played
  BY DEF ActiveShot, Played
<1>4. NoResult => NoResult'
  BY <1>1 DEF NoResult, Has
<1>5. Announced \/ Striking \/ Rolling \/ Resting =>
            Announced' \/ Striking' \/ Rolling' \/ Resting'
  BY <1>3, <1>4
     DEF Announced, Striking, Rolling, Resting, Begun, SameScreen, SamePage, SameTable
<1>6. \A i \in 1 .. Len(link'.out) : link'.out[i].type = "shot_result_submitted" =>
                link'.out[i].seq = server.snap.shot /\ link'.out[i].balls = Played
  BY <1>1, <1>2 DEF ShotInv
<1> QED BY <1>1, <1>2, <1>3, <1>5, <1>6 DEF ShotInv, SameScreen, SamePage

\* Whoever may shoot sees the table of the turn.
LEMMA ShootsAtTable ==
    ASSUME Ordinary, FilterInv, TablesInv, handleShoot, TimedSnap
    PROVE  Clean(link.in) /\ Open /\ Current(server, next.snap) /\ Ready /\ refs.report = NoShot
<1> USE DEF TablesInv
<1>1. /\ link.sub = "on" /\ link.in = <<>> /\ Asking(Me)
      /\ ~Has(link.out, "request_game_state")
      /\ view = next /\ view.page = "match" /\ refs.report = NoShot
  BY DEF handleShoot, Ordinary, Informed, Idle, Rendered, Has
<1>2. Clean(link.in) /\ Open /\ next.fresh = {}
  BY <1>1, CleanEmpty DEF Open, FilterInv
<1>3. ~OnItsWay(server, link.in)
  BY <1>1 DEF OnItsWay
<1>4. ~\E r \in server.read : r.by = Me /\ Current(server, r.snap)
  BY <1>1 DEF Asking
<1>5. Current(server, next.snap)
  BY <1>1, <1>3, <1>4 DEF WireInv, AnswerInv, TimedSnap
<1>6. Ready
  BY <1>2, <1>5 DEF ShowsInv, Aimed, InPlay, TimedSnap
<1> QED BY <1>1, <1>2, <1>5, <1>6

LEMMA ShootKeeps ==
    ASSUME Ordinary, Typed, FilterInv, TablesInv, handleShoot
    PROVE  TablesInv'
<1> USE DEF TablesInv
<1> DEFINE message == [type |-> "shot_started", seq |-> refs.shotSeq, balls |-> refs.balls]
<1>1. /\ server' = server /\ next' = next /\ view' = view /\ refs' = refs /\ cue' = cue
      /\ sendWS(message)
  BY DEF handleShoot, browser
<1>2. SameScreen(next, next') /\ SameTable(refs, refs')
  BY <1>1 DEF SameScreen, SamePage, SameTable
<1>3. message.type = "shot_started" /\ message.balls = refs.balls
  OBVIOUS
<1> HIDE DEF message
<1>4. WireInv' /\ LinkInv' /\ PageInv' /\ FreshInv' /\ NumbersInv' /\ ShowsInv' /\ TableInv'
  BY <1>1, <1>2, SendKeeps
<1>5. ShotInv'
  BY <1>1, <1>2, <1>3, AskKeepsShot
<1>6. AimInv'
  <2>1. SUFFICES ASSUME TimedSnap, server.snap.player = Me PROVE AimInv'
    BY <1>1 DEF AimInv, TimedSnap
  <2>2. Clean(link.in) /\ Open /\ Current(server, next.snap) /\ Ready /\ refs.report = NoShot
    BY <2>1, ShootsAtTable
  <2>3. /\ link'.in = link.in /\ Len(link.out) \in Nat
        /\ \A i \in 1 .. Len(link'.out) :
                \/ i \in 1 .. Len(link.out) /\ link'.out[i] = link.out[i]
                \/ i = Len(link.out) + 1 /\ link'.out[i] = message
        /\ \A j \in 1 .. Len(link'.out) : j <= Len(link.out) + 1
    BY <1>1, Sends
  <2>4. ASSUME NEW i \in 1 .. Len(link'.out), link'.out[i].type = "shot_started"
        PROVE  /\ link'.out[i].balls = server.snap.balls
               /\ \A j \in 1 .. Len(link'.out) : j > i =>
                        link'.out[j].type # "shot_result_submitted"
    <3>1. CASE i \in 1 .. Len(link.out) /\ link'.out[i] = link.out[i]
      <4>1. /\ link.out[i].balls = server.snap.balls
            /\ \A j \in 1 .. Len(link.out) : j > i =>
                    link.out[j].type # "shot_result_submitted"
        BY <2>1, <2>4, <3>1 DEF AimInv, Has
      <4> QED BY <1>3, <2>3, <3>1, <4>1
    <3>2. CASE i = Len(link.out) + 1 /\ link'.out[i] = message
      <4>1. message.balls = server.snap.balls
        BY <1>3, <2>2 DEF Ready
      <4>2. \A j \in 1 .. Len(link'.out) : ~(j > i)
        BY <2>3, <3>2
      <4> QED BY <3>2, <4>1, <4>2
    <3> QED BY <2>3, <3>1, <3>2
  <2>5. Open' /\ Current(server', next'.snap) /\ Ready' /\ refs'.report = NoShot
    BY <1>1, <2>2 DEF Open, Ready
  <2> QED BY <1>1, <2>2, <2>3, <2>4, <2>5 DEF AimInv
<1> QED BY <1>4, <1>5, <1>6

LEMMA AskKeeps ==
    ASSUME Typed, TablesInv, handleRequestRematch
    PROVE  TablesInv'
<1> USE DEF TablesInv
<1> DEFINE message == Asks("rematch_request")
<1>1. /\ server' = server /\ view' = view /\ refs' = refs /\ cue' = cue
      /\ sendWS(message) /\ next.page = "match"
  BY DEF handleRequestRematch, Idle, Rendered
<1>2. SameScreen(next, next') /\ SameTable(refs, refs')
  BY <1>1 DEF handleRequestRematch, Typed, States, SameScreen, SamePage, SameTable
<1>3. message.type = "rematch_request"
  BY DEF Asks
<1> HIDE DEF message
<1>4. WireInv' /\ LinkInv' /\ PageInv' /\ FreshInv' /\ NumbersInv' /\ ShowsInv' /\ TableInv'
  BY <1>1, <1>2, SendKeeps
<1>5. ShotInv'
  BY <1>1, <1>2, <1>3, AskKeepsShot
<1>6. AimInv'
  <2>1. /\ link'.in = link.in /\ Len(link.out) \in Nat
        /\ \A i \in 1 .. Len(link'.out) :
                \/ i \in 1 .. Len(link.out) /\ link'.out[i] = link.out[i]
                \/ i = Len(link.out) + 1 /\ link'.out[i] = message
    BY <1>1, Sends
  <2>2. SUFFICES ASSUME TimedSnap, server.snap.player = Me, Has(link'.out, "shot_started")
                 PROVE  AimInv'
    BY <1>1 DEF AimInv, TimedSnap
  <2>3. Has(link.out, "shot_started")
    BY <1>3, <2>1, <2>2 DEF Has
  <2>4. /\ Clean(link.in) /\ Open /\ Current(server, next.snap) /\ Ready /\ refs.report = NoShot
        /\ \A i \in 1 .. Len(link.out) : link.out[i].type = "shot_started" =>
            /\ link.out[i].balls = server.snap.balls
            /\ \A j \in 1 .. Len(link.out) : j > i =>
                    link.out[j].type # "shot_result_submitted"
    BY <2>2, <2>3 DEF AimInv
  <2>5. Open' /\ Current(server', next'.snap) /\ Ready' /\ refs'.report = NoShot
    BY <1>1, <1>2, <2>4 DEF Open, Ready, SameScreen, SamePage
  <2>6. ASSUME NEW i \in 1 .. Len(link'.out), link'.out[i].type = "shot_started"
        PROVE  /\ link'.out[i].balls = server.snap.balls
               /\ \A j \in 1 .. Len(link'.out) : j > i =>
                        link'.out[j].type # "shot_result_submitted"
    <3>1. i \in 1 .. Len(link.out) /\ link'.out[i] = link.out[i]
      BY <1>3, <2>1, <2>6
    <3> QED BY <1>3, <2>1, <2>4, <2>6, <3>1
  <2> QED BY <1>1, <2>1, <2>4, <2>5, <2>6 DEF AimInv
<1> QED BY <1>4, <1>5, <1>6

-----------------------------------------------------------------------------
(***************************************************************************)
(* The invariant holds.                                                    *)
(***************************************************************************)
LEMMA InitTables == ASSUME Init PROVE TablesInv
<1>1. /\ server.room = "playing" /\ server.snap = FirstSnap(1) /\ server.read = {}
      /\ link = NoLink /\ next = EmptyPage /\ view = EmptyPage
  BY DEF Init
<1>2. /\ EmptyPage.page = "loading" /\ EmptyPage.snap = NoSnap /\ EmptyPage.fresh = {}
      /\ NoLink.in = <<>> /\ NoLink.out = <<>> /\ NoLink.st = "none" /\ NoLink.sub = "none"
      /\ FirstSnap(1).match = 1 /\ FirstSnap(1).status = "aiming"
  BY DEF EmptyPage, NoLink, FirstSnap, Snap
<1>3. WireInv
  <2>1. ReadsInv(server)
    BY <1>1, <1>2 DEF ReadsInv
  <2>2. InboxInv(server, <<>>) /\ OrderInv(server, <<>>)
    BY DEF InboxInv, OrderInv
  <2>3. AcceptedInv(server, <<>>, NoSnap) /\ AnswerInv(server, link, NoSnap)
    BY <1>1, <1>2 DEF AcceptedInv, AnswerInv
  <2> QED BY <1>1, <1>2, <2>1, <2>2, <2>3 DEF WireInv
<1>4. LinkInv /\ PageInv
  BY <1>1, <1>2 DEF LinkInv, PageInv
<1>5. FreshInv /\ NumbersInv /\ TableInv /\ ShowsInv
  BY <1>1, <1>2 DEF FreshInv, NumbersInv, TableInv, ShowsInv, Open
<1>6. AimInv
  BY <1>1, <1>2, CleanEmpty DEF AimInv
<1>7. ShotInv
  BY <1>1, <1>2 DEF ShotInv, Mine
<1> QED BY <1>3, <1>4, <1>5, <1>6, <1>7 DEF TablesInv

LEMMA StutterKeeps == ASSUME TablesInv, UNCHANGED vars PROVE TablesInv'
<1> USE DEF TablesInv
<1>1. server' = server /\ link' = link /\ next' = next /\ view' = view /\ refs' = refs
      /\ cue' = cue
  BY DEF vars
<1>2. WireInv' /\ LinkInv'
  BY <1>1 DEF WireInv, LinkInv, InPlay
<1>3. SameLink
  BY <1>1 DEF SameLink
<1> QED BY <1>1, <1>2, <1>3, SameLinkKeeps

LEMMA TablesStep ==
    ASSUME Ordinary, Typed, FilterInv, TablesInv, [Next]_vars
    PROVE  TablesInv'
<1>1. ReadsInv(server) /\ ShotInv
  BY DEF TablesInv, WireInv
<1>2. CASE Lobby
  <2>1. ServerTyped(server')
    BY <1>2, LobbyTyped DEF Typed
  <2> QED BY <1>1, <1>2, <2>1, LobbySteps, LobbyKeeps
<1>3. CASE Serve
  <2>1. ServerTyped(server')
    BY <1>3, ServeTyped DEF Typed
  <2> QED BY <1>1, <1>3, <2>1, ServeSteps, LobbyKeeps
<1>4. CASE Socket
  BY <1>4, ConnectKeeps, OpenedKeeps, GreetKeeps, SubscribeKeeps, BreakKeeps, RefusedKeeps
     DEF Socket
<1>5. CASE Page
  BY <1>5, LoadKeeps, ReloadKeeps, TokenKeeps, DeliverKeeps, RendersKeep DEF Page
<1>6. CASE Table
  BY <1>6, ContactKeeps, RestKeeps, ReportKeeps DEF Table
<1>7. CASE Player
  BY <1>7, ShootKeeps, AskKeeps DEF Player
<1>8. CASE UNCHANGED vars
  BY <1>8, StutterKeeps
<1> QED BY <1>2, <1>3, <1>4, <1>5, <1>6, <1>7, <1>8 DEF Next

LEMMA TablesInvariance ==
    ASSUME Ordinary
    PROVE  Spec => []TablesInv
<1>1. ClientInv => Typed /\ FilterInv
  BY DEF ClientInv
<1>2. Typed /\ FilterInv /\ TablesInv /\ [Next]_vars => TablesInv'
  BY TablesStep
<1>3. Init => TablesInv
  BY InitTables
<1> QED BY <1>1, <1>2, <1>3, ClientInvariance, PTL DEF Spec

\* Whoever is asked to aim looks at a table that the lobby had in this match, unless something
\* but a gap or a short match goes wrong.
THEOREM AimedTablesWereThere ==
    ASSUME Ordinary
    PROVE  Spec => []AimsAtTable
<1>1. Typed /\ FilterInv /\ TablesInv => AimsAtTable
  <2>1. SUFFICES ASSUME Typed, FilterInv, TablesInv, view = next, view.page = "match",
                        view.status = "aiming", view.snap.match = server.snap.match
                 PROVE  IsPrefix(refs.balls, server.snap.balls)
    BY DEF AimsAtTable
  <2>2. server.snap.match >= 1
    BY <2>1 DEF TablesInv, WireInv, ReadsInv
  <2>3. next.snap # NoSnap
    BY <2>1, <2>2 DEF NoSnap, Snap
  <2>4. Clean(link.in)
    <3>1. server.snap.match \in Nat
      BY <2>1, ServerFields, SnapFields DEF Typed
    <3>2. ~(next.snap.match < server.snap.match)
      BY <2>1, <3>1
    <3> QED BY <2>1, <2>3, <3>2 DEF TablesInv, WireInv, AcceptedInv
  <2> QED BY <2>1, <2>4 DEF TablesInv, TableInv, FilterInv
<1>2. ClientInv => Typed /\ FilterInv
  BY DEF ClientInv
<1> QED BY <1>1, <1>2, TablesInvariance, ClientInvariance, PTL

\* A step leaves the table, plays the shot on it, or opens the next match.
LEMMA StepPlays ==
    ASSUME Typed, ShotInv, Next
    PROVE  server'.snap.balls # server.snap.balls =>
                \/ server'.snap.match # server.snap.match
                \/ server'.snap.balls = Played
<1>1. server.snap \in LobbySnaps
  BY ServerFields DEF Typed
<1>2. CASE server'.snap = server.snap
  BY <1>2
<1>3. CASE server'.snap = Passed(server.snap)
  BY <1>1, <1>3, PassedFields
<1>4. CASE server'.snap = Started(server.snap)
  BY <1>1, <1>4, StartedFields
<1>5. CASE server'.snap \in Ended(server.snap, Played) \/ server'.snap = Won(server.snap, Played)
  BY <1>1, <1>5, EndedFields, WonFields
<1>6. CASE StartClock
  BY <1>6 DEF StartClock, Typed, ServerTyped, LobbySnaps
<1>7. CASE TurnTimeout \/ ShotTimeout
  BY <1>3, <1>7 DEF TurnTimeout, ShotTimeout, Typed, ServerTyped
<1>8. CASE OtherShoots \/ ServeShot
  BY <1>2, <1>4, <1>8 DEF OtherShoots, ServeShot, Typed, ServerTyped
<1>9. CASE OtherResult
  <2>1. \/ \E s \in Ended(server.snap, Played) : server' = [server EXCEPT !.snap = s]
        \/ server' = [server EXCEPT !.snap = Won(@, Played), !.room = "finished",
                                    !.unheard = Unheard]
    BY <1>9 DEF OtherResult, Played
  <2>2. server'.snap \in Ended(server.snap, Played) \/ server'.snap = Won(server.snap, Played)
    BY <2>1 DEF Typed, ServerTyped
  <2> QED BY <1>5, <2>2
<1>10. CASE Rematch
  <2>1. server'.snap = FirstSnap(server.snap.match + 1)
    BY <1>10 DEF Rematch, Typed, ServerTyped
  <2>2. server'.snap.match = server.snap.match + 1 /\ server.snap.match \in Nat
    BY <1>1, <2>1, SnapFields DEF FirstSnap, Snap
  <2> QED BY <2>2
<1>11. CASE OtherGone \/ OtherBack \/ OtherRequests \/ PublishRead \/ RoomEnds
            \/ RequestGameState \/ ServeRematch
  BY <1>2, <1>11
     DEF OtherGone, OtherBack, OtherRequests, PublishRead, RoomEnds, RequestGameState,
         ServeRematch, Typed, ServerTyped
<1>12. CASE ServeResult
  <2> DEFINE r == Head(link.out)
  <2>1. CASE AcceptsResult(r) /\ r.type = "shot_result_submitted" /\ link.out # <<>>
             /\ \/ \E s \in Ended(server.snap, r.balls) : server' = [server EXCEPT !.snap = s]
                \/ server' = [server EXCEPT !.snap = Won(@, r.balls), !.room = "finished"]
    <3>1. r.balls = Played
      BY <1>12, <2>1, ResultIsPlayed
    <3> HIDE DEF r
    <3>2. server'.snap \in Ended(server.snap, Played) \/ server'.snap = Won(server.snap, Played)
      BY <2>1, <3>1 DEF Typed, ServerTyped
    <3> QED BY <1>5, <3>2
  <2>2. CASE UNCHANGED server
    BY <1>2, <2>2
  <2> QED BY <1>12, <2>1, <2>2 DEF ServeResult, Serves
<1>13. CASE Socket \/ Page \/ Table \/ Player
  <2>1. server'.snap = server.snap
    BY <1>13 DEF Socket, Connect, Opened, Greet, Subscribe, Break, Refused,
                 Page, loadRoom, Reload, TokenRefreshed, Deliver, Render,
                 Table, handleCueContact, handleSimulationStopped, onShotResult,
                 Player, handleShoot, handleRequestRematch, Typed, ServerTyped
  <2> QED BY <1>2, <2>1
<1> QED BY <1>6, <1>7, <1>8, <1>9, <1>10, <1>11, <1>12, <1>13 DEF Next, Lobby, Serve

\* The lobby's table changes only by the shot that it started, played on the table as it was,
\* whatever breaks of the link, lost messages, turns and timeouts come between the shot and
\* its result.
THEOREM TablesArePlayed ==
    ASSUME Ordinary
    PROVE  Spec => TableIsPlayed
<1>1. ASSUME Typed, TablesInv, [Next]_vars
      PROVE  server'.snap.balls # server.snap.balls =>
                \/ server'.snap.match # server.snap.match
                \/ server'.snap.balls = Append(server.snap.balls, server.snap.shot)
  <2>1. CASE Next
    BY <1>1, <2>1, StepPlays DEF TablesInv, Played
  <2>2. CASE UNCHANGED vars
    BY <2>2 DEF vars
  <2> QED BY <1>1, <2>1, <2>2
<1>2. ClientInv => Typed
  BY DEF ClientInv
<1> QED BY <1>1, <1>2, TablesInvariance, ClientInvariance, PTL DEF Spec, TableIsPlayed

\* A shot of this player is started on the table that they saw when they shot, or not at all:
\* turns, timeouts, results and breaks of the link may come between the two.
THEOREM ShotsWereSeen ==
    ASSUME Ordinary
    PROVE  Spec => ShotsAreSeen
<1>1. ASSUME Typed, TablesInv, ServeShot, server'.snap.shot # server.snap.shot
      PROVE  Head(link.out).balls = server.snap.balls
  <2>1. TimedSnap /\ server.snap.player = Me
    BY <1>1 DEF ServeShot
  <2>2. link.out # <<>> /\ Head(link.out).type = "shot_started"
        /\ link.out \in Seq(OutMessages)
    BY <1>1 DEF ServeShot, Serves, Typed, LinkTyped
  <2>3. Head(link.out) = link.out[1] /\ 1 \in 1 .. Len(link.out)
    BY <2>2, TailPoints
  <2> QED BY <1>1, <2>1, <2>2, <2>3 DEF TablesInv, AimInv, Has
<1>2. ClientInv => Typed
  BY DEF ClientInv
<1> QED BY <1>1, <1>2, TablesInvariance, ClientInvariance, PTL DEF Spec, ShotsAreSeen
=============================================================================
