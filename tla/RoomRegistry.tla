---------------------------- MODULE RoomRegistry ----------------------------
(***************************************************************************)
(* The table of rooms, as repository.go reads and writes it: several       *)
(* requests at a time, some in one statement, some in a transaction that   *)
(* locks the room's row (SELECT ... FOR UPDATE) and then, one after the    *)
(* other, its users (pg_advisory_xact_lock), and GetRoomByID, which reads  *)
(* in one statement and expires in another.  The isolation is READ         *)
(* COMMITTED: a statement sees what is committed when it starts.           *)
(***************************************************************************)
EXTENDS Naturals, FiniteSets

CONSTANTS
    Rooms,          \* bound: rooms that can ever be created
    Users,          \* user ids, as numbers: sort.Strings orders them
    NoUser,         \* no opponent_id
    Requests,       \* requests in flight: HTTP handlers, match_start, sweeps
    NoRequest,      \* the holder of a free lock
    LateVacates     \* may a seat be vacated in a room that is no longer active?

ASSUME RegistryAssumption ==
    /\ Users \subseteq Nat /\ IsFiniteSet(Users)
    /\ NoUser \notin Users
    /\ NoRequest \notin Requests
    /\ LateVacates \in BOOLEAN

VARIABLES
    row,        \* rooms, as committed
    rowLock,    \* who holds the lock of a row
    userLock,   \* who holds the advisory lock of a user
    req         \* where each request is

vars == <<row, rowLock, userLock, req>>

NoRow ==
    [status |-> "none", creator |-> NoUser, opponent |-> NoUser, overdue |-> FALSE,
     creatorGone |-> FALSE, opponentGone |-> FALSE]

\* overdue is expires_at < NOW(), kept of rooms that wait for an opponent only:
\* of the others nothing reads it.  creatorGone and opponentGone are
\* creator_disconnected_at and opponent_disconnected_at, set or NULL.
NewRow(u) == [NoRow EXCEPT !.status = "waiting", !.creator = u]

Idle == [op |-> "none", pc |-> "idle", room |-> {}, user |-> NoUser, need |-> {}, late |-> FALSE]

Init ==
    /\ row = [r \in Rooms |-> NoRow]
    /\ rowLock = [r \in Rooms |-> NoRequest]
    /\ userLock = [u \in Users |-> NoRequest]
    /\ req = [p \in Requests |-> Idle]

-----------------------------------------------------------------------------
Active(s) == s.status \in {"waiting", "playing"}
Live(s)   == s.status \in {"waiting", "playing", "finished"}
Sits(u, s) == u \in {s.creator, s.opponent}

\* userHasActiveRoomTx: in a room that is not in the set left out.
HasActiveRoom(u, out) == \E r \in Rooms \ out : Active(row[r]) /\ Sits(u, row[r])

Unlocked(r) == rowLock[r] = NoRequest
Put(r, s)   == row' = [row EXCEPT ![r] = s]
Set(p, q)   == req' = [req EXCEPT ![p] = q]
At(p, pc)   == req[p].pc = pc

Released(locks, p) == [x \in DOMAIN locks |-> IF locks[x] = p THEN NoRequest ELSE locks[x]]

\* Mutant: pg_advisory_lock, which belongs to the session.
EndOfSession(p) ==
    /\ rowLock' = Released(rowLock, p)
    /\ Set(p, Idle)
    /\ UNCHANGED userLock

\* Commit or rollback: the locks go with the transaction.
End(p) ==
    /\ rowLock' = Released(rowLock, p)
    /\ userLock' = Released(userLock, p)
    /\ Set(p, Idle)

-----------------------------------------------------------------------------
(***************************************************************************)
(* Transactions.                                                           *)
(***************************************************************************)

\* CreateRoom: its first statement locks the user.  Bound: a row is left for it.
BeginCreate(p, u) ==
    /\ At(p, "idle")
    /\ Cardinality({q \in Requests : req[q].op = "create"})
          < Cardinality({r \in Rooms : row[r].status = "none"})
    /\ Set(p, [Idle EXCEPT !.op = "create", !.pc = "lock", !.user = u, !.need = {u}])
    /\ UNCHANGED <<row, rowLock, userLock>>

\* JoinRoom.  Its NOW() is the time at which the transaction began.
BeginJoin(p, u, r) ==
    /\ At(p, "idle")
    /\ row[r].status # "none"
    /\ Set(p, [Idle EXCEPT !.op = "join", !.pc = "select", !.room = {r}, !.user = u,
                           !.late = row[r].overdue])
    /\ UNCHANGED <<row, rowLock, userLock>>

\* StartRematchRoom, after both players of a finished room asked for it.
BeginRematch(p, r) ==
    /\ At(p, "idle")
    /\ row[r].status = "finished"
    /\ Set(p, [Idle EXCEPT !.op = "rematch", !.pc = "select", !.room = {r}])
    /\ UNCHANGED <<row, rowLock, userLock>>

\* Mutant: without the check of the creator.
JoinableByAny(s, q) ==
    /\ s.status = "waiting" /\ s.opponent = NoUser
    /\ ~(q.late /\ s.overdue)

\* What SELECT ... FOR UPDATE must find, and whom the transaction locks next.
\* JoinRoom's "expired" is rolled back with its transaction.
Joinable(s, q) ==
    /\ s.status = "waiting" /\ s.opponent = NoUser /\ s.creator # q.user
    /\ ~(q.late /\ s.overdue)

Selectable(s, q) ==
    CASE q.op = "join"    -> Joinable(s, q)
      [] q.op = "rematch" -> s.status = "finished" /\ s.opponent # NoUser

\* Mutant: JoinRoom locks whom it found, not whom it seats.
LocksSeated(s, q) ==
    CASE q.op = "join"    -> {s.opponent}
      [] q.op = "rematch" -> {s.creator, s.opponent}

LocksUsers(s, q) ==
    CASE q.op = "join"    -> {q.user}
      [] q.op = "rematch" -> {s.creator, s.opponent}

Select(p) ==
    /\ At(p, "select")
    /\ \E r \in req[p].room :
          /\ Unlocked(r)
          /\ \/ /\ Selectable(row[r], req[p])
                /\ rowLock' = [rowLock EXCEPT ![r] = p]
                /\ Set(p, [req[p] EXCEPT !.pc = "lock", !.need = LocksUsers(row[r], req[p])])
                /\ UNCHANGED userLock
             \/ /\ ~Selectable(row[r], req[p])
                /\ End(p)
    /\ UNCHANGED row

\* Mutant: in the order in which the callers name them.
CreatorFirst(p, u) ==
    /\ u \in req[p].need
    /\ \/ u \in {row[r].creator : r \in req[p].room}
       \/ \A r \in req[p].room : row[r].creator \notin req[p].need

\* lockActiveRoomUsersTx sorts the ids.
NextToLock(p, u) == u \in req[p].need /\ \A v \in req[p].need : u <= v

\* Mutant: the transaction goes on without the lock.
TriesLock(p) ==
    /\ At(p, "lock")
    /\ \E u \in Users :
          /\ NextToLock(p, u)
          /\ userLock' = [userLock EXCEPT ![u] = p]
          /\ Set(p, [req[p] EXCEPT !.need = @ \ {u}, !.pc = IF req[p].need = {u} THEN "check" ELSE "lock"])
    /\ UNCHANGED <<row, rowLock>>

LockUser(p) ==
    /\ At(p, "lock")
    /\ \E u \in Users :
          /\ NextToLock(p, u)
          /\ userLock[u] = NoRequest
          /\ userLock' = [userLock EXCEPT ![u] = p]
          /\ Set(p, [req[p] EXCEPT !.need = @ \ {u}, !.pc = IF req[p].need = {u} THEN "check" ELSE "lock"])
    /\ UNCHANGED <<row, rowLock>>

\* Mutant: a rematch asks for its creator only.
AsksCreator(q) ==
    IF q.op = "rematch" THEN {row[r].creator : r \in q.room} ELSE {q.user}

Asks(q) ==
    IF q.op = "rematch" THEN UNION {{row[r].creator, row[r].opponent} : r \in q.room} ELSE {q.user}

Check(p) ==
    /\ At(p, "check")
    /\ \/ /\ \E u \in Asks(req[p]) : HasActiveRoom(u, req[p].room)
          /\ End(p)
       \/ /\ \A u \in Asks(req[p]) : ~HasActiveRoom(u, req[p].room)
          /\ Set(p, [req[p] EXCEPT !.pc = "write"])
          /\ UNCHANGED <<rowLock, userLock>>
    /\ UNCHANGED row

\* INSERT or UPDATE, and COMMIT.
Write(p) ==
    /\ At(p, "write")
    /\ LET q == req[p]
       IN  \/ /\ q.op = "create"
              /\ \E r \in Rooms : row[r].status = "none" /\ Put(r, NewRow(q.user))
           \/ /\ q.op = "join"
              /\ \E r \in q.room : Put(r, [row[r] EXCEPT !.opponent = q.user, !.overdue = FALSE])
           \/ /\ q.op = "rematch"
              /\ \E r \in q.room :
                    Put(r, [row[r] EXCEPT !.status = "playing", !.creatorGone = FALSE,
                                          !.opponentGone = FALSE])
    /\ End(p)

\* The request's context is cancelled, or the service dies: ROLLBACK.
Abort(p) ==
    /\ ~At(p, "idle")
    /\ End(p)
    /\ UNCHANGED row

-----------------------------------------------------------------------------
(***************************************************************************)
(* Two statements that are not a transaction.                              *)
(***************************************************************************)

Open(s) == s.status = "waiting" /\ s.opponent = NoUser

\* GetRoomByID and GetRoomByCode: the room is read; if it looks expired ...
Get(p, r) ==
    /\ At(p, "idle")
    /\ Open(row[r]) /\ row[r].overdue
    /\ Set(p, [Idle EXCEPT !.op = "get", !.pc = "expire", !.room = {r}])
    /\ UNCHANGED <<row, rowLock, userLock>>

\* ... updateStatus, whatever the room is by now.
GetExpires(p) ==
    /\ At(p, "expire")
    /\ \E r \in req[p].room :
          /\ Unlocked(r)
          /\ Put(r, [row[r] EXCEPT !.status = "expired", !.overdue = FALSE])
    /\ Set(p, Idle)
    /\ UNCHANGED <<rowLock, userLock>>

\* Mutant: opponent_disconnected_at survives the opponent.
VacatedKeepsMark(s) == [s EXCEPT !.status = "waiting", !.opponent = NoUser, !.overdue = FALSE]

\* The opponent's slot is freed, and the room waits again, whatever it was.
Vacated(s) ==
    [s EXCEPT !.status = "waiting", !.opponent = NoUser, !.overdue = FALSE, !.opponentGone = FALSE]

Vacatable(s)    == LateVacates \/ Active(s)
Disconnected(s) == Live(s) /\ s.opponent # NoUser /\ s.opponentGone

\* ReleaseRoomsWithExpiredOpponentDisconnect is one statement, but its UPDATE
\* waits for the rows that its SELECT chose, and does not ask them again.
Sweep(p, r) ==
    /\ At(p, "idle")
    /\ Disconnected(row[r])
    /\ Set(p, [Idle EXCEPT !.op = "sweep", !.pc = "release", !.room = {r}])
    /\ UNCHANGED <<row, rowLock, userLock>>

SweepReleases(p) ==
    /\ At(p, "release")
    /\ \E r \in req[p].room :
          /\ Unlocked(r)
          /\ Put(r, IF Vacatable(row[r]) THEN Vacated(row[r]) ELSE row[r])
    /\ Set(p, Idle)
    /\ UNCHANGED <<rowLock, userLock>>

-----------------------------------------------------------------------------
(***************************************************************************)
(* Single statements, and LeaveRoom, whose transaction locks one row only. *)
(* A statement waits for the row's lock and asks its WHERE again.          *)
(***************************************************************************)
Update(r, s) ==
    /\ Unlocked(r)
    /\ Put(r, s)
    /\ UNCHANGED <<rowLock, userLock, req>>

\* LeaveRoom by the opponent.
Leave(r) ==
    /\ row[r].opponent # NoUser /\ Vacatable(row[r])
    /\ Update(r, Vacated(row[r]))

\* ReleaseOpponentIfDisconnected.
Release(r) ==
    /\ Disconnected(row[r]) /\ Vacatable(row[r])
    /\ Update(r, Vacated(row[r]))

Closed(s) == [s EXCEPT !.status = "expired", !.overdue = FALSE, !.creatorGone = FALSE, !.opponentGone = FALSE]

\* LeaveRoom by the creator, and CloseRoom.
Close(r) ==
    /\ row[r].status # "none"
    /\ Update(r, Closed(row[r]))

\* CloseRoomIfCreatorDisconnected, CloseRoomsWithExpiredCreatorDisconnect.
CloseIfGone(r) ==
    /\ Live(row[r]) /\ row[r].creatorGone
    /\ Update(r, Closed(row[r]))

StartRoom(r) ==
    /\ row[r].status = "waiting" /\ row[r].opponent # NoUser
    /\ ~row[r].creatorGone /\ ~row[r].opponentGone
    /\ Update(r, [row[r] EXCEPT !.status = "playing"])

FinishRoom(r) ==
    /\ row[r].status = "playing" /\ row[r].opponent # NoUser
    /\ Update(r, [row[r] EXCEPT !.status = "finished"])

ExpireRoom(r) ==
    /\ Open(row[r]) /\ row[r].overdue
    /\ Update(r, [row[r] EXCEPT !.status = "expired", !.overdue = FALSE])

\* expires_at goes by.
TimePasses(r) ==
    /\ Open(row[r]) /\ ~row[r].overdue
    /\ Put(r, [row[r] EXCEPT !.overdue = TRUE])
    /\ UNCHANGED <<rowLock, userLock, req>>

\* MarkCreatorConnected and MarkCreatorDisconnected, MarkOpponentConnected and
\* MarkOpponentDisconnected: a connection opens, or the last one opened ends.
MarkCreator(r, gone) ==
    /\ Live(row[r])
    /\ Update(r, [row[r] EXCEPT !.creatorGone = gone])

MarkOpponent(r, gone) ==
    /\ Live(row[r]) /\ row[r].opponent # NoUser
    /\ Update(r, [row[r] EXCEPT !.opponentGone = gone])

-----------------------------------------------------------------------------
Begin(p) ==
    \/ \E u \in Users : BeginCreate(p, u)
    \/ \E r \in Rooms :
          \/ \E u \in Users : BeginJoin(p, u, r)
          \/ BeginRematch(p, r) \/ Get(p, r) \/ Sweep(p, r)

Step(p) == Select(p) \/ LockUser(p) \/ Check(p) \/ Write(p) \/ GetExpires(p) \/ SweepReleases(p)

Statement(r) ==
    \/ Leave(r) \/ Release(r) \/ Close(r) \/ CloseIfGone(r) \/ StartRoom(r) \/ FinishRoom(r)
    \/ ExpireRoom(r) \/ TimePasses(r)
    \/ \E gone \in BOOLEAN : MarkCreator(r, gone) \/ MarkOpponent(r, gone)

Next ==
    \/ \E p \in Requests : Begin(p) \/ Step(p) \/ Abort(p)
    \/ \E r \in Rooms : Statement(r)

Spec == Init /\ [][Next]_vars

\* Every request goes on; PostgreSQL grants a lock to those that wait for it in
\* the order in which they came.
Fairness == \A p \in Requests : SF_vars(Step(p))
FairSpec == Spec /\ Fairness

-----------------------------------------------------------------------------
(***************************************************************************)
(* Properties.                                                             *)
(***************************************************************************)
Statuses == {"none", "waiting", "playing", "finished", "expired"}

RowType ==
    [status : Statuses, creator : Users \cup {NoUser}, opponent : Users \cup {NoUser},
     overdue : BOOLEAN, creatorGone : BOOLEAN, opponentGone : BOOLEAN]

RequestType ==
    [op : {"none", "create", "join", "rematch", "get", "sweep"},
     pc : {"idle", "select", "lock", "check", "write", "expire", "release"},
     room : SUBSET Rooms, user : Users \cup {NoUser}, need : SUBSET Users, late : BOOLEAN]

TypeOK ==
    /\ row \in [Rooms -> RowType]
    /\ rowLock \in [Rooms -> Requests \cup {NoRequest}]
    /\ userLock \in [Users -> Requests \cup {NoRequest}]
    /\ req \in [Requests -> RequestType]

\* A user sits in at most one room that is waiting or playing (ErrUserInActiveRoom),
\* whatever creations, joins and rematches run at the same time.
OneActiveRoom ==
    \A u \in Users : \A q, r \in Rooms :
        Active(row[q]) /\ Active(row[r]) /\ Sits(u, row[q]) /\ Sits(u, row[r]) => q = r

\* A match is played, and was played, by two different users.
TwoPlayersPlay ==
    \A r \in Rooms : row[r].status \in {"playing", "finished"} =>
        row[r].opponent # NoUser /\ row[r].opponent # row[r].creator

\* Nobody inherits the mark of a disconnected predecessor: the next sweep
\* would put a player who has just joined out of the room.
NoInheritedMark ==
    \A r \in Rooms : row[r].opponentGone => row[r].opponent # NoUser

WaitsFor(p, q) ==
    /\ p # q
    /\ \/ /\ req[p].pc \in {"select", "expire", "release"}
          /\ \E r \in req[p].room : rowLock[r] = q
       \/ /\ At(p, "lock")
          /\ \E u \in Users : NextToLock(p, u) /\ userLock[u] = q

\* Transactions never wait for each other in a circle: rows come before users,
\* and users in the order of their ids.
NoLockCycle ==
    \A S \in (SUBSET Requests) \ {{}} : \E p \in S : \A q \in S : ~WaitsFor(p, q)

\* Every request ends, and with it gives its locks back.
RequestsEnd == \A p \in Requests : []<>At(p, "idle")

\* What happens in several steps, among other requests, is one decision of
\* RoomSeats, taken on the rooms as they are at that moment.
Seats == INSTANCE RoomSeats WITH
    seats <- [r \in Rooms |-> [status |-> row[r].status, creator |-> row[r].creator,
                               opponent |-> row[r].opponent]]
ImplementsSeats == Seats!Spec
=============================================================================
