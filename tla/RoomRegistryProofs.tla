-------------------------- MODULE RoomRegistryProofs --------------------------
(***************************************************************************)
(* Theorems about RoomRegistry, for any number of rooms, users and         *)
(* requests: the types, who plays a match, whose mark a disconnection is,  *)
(* that transactions never wait for each other in a circle, who sits       *)
(* where, and that the rooms implement the seats of RoomSeats.             *)
(***************************************************************************)
EXTENDS RoomRegistry, FiniteSetTheorems, WellFoundedInduction, TLAPS

-----------------------------------------------------------------------------
(***************************************************************************)
(* The inductive invariant.                                                *)
(***************************************************************************)

\* What a row says on its own.
RowOK(s) ==
    /\ s.status # "none" => s.creator # NoUser
    /\ s.status = "none" => s.opponent = NoUser
    /\ s.opponent # NoUser => s.opponent # s.creator
    /\ s.status \in {"playing", "finished"} => s.opponent # NoUser
    /\ s.opponentGone => s.opponent # NoUser

\* What a request says on its own.
RequestOK(q) ==
    /\ q.op \in {"create", "join"} => q.user # NoUser
    /\ q.pc = "select" => q.op \in {"join", "rematch"} /\ \A r, t \in q.room : r = t

\* Past its SELECT, a transaction may hold locks.
Holding(p) == req[p].pc \in {"lock", "check", "write"}

\* What the SELECT found stays true, because its row is locked.
StillTrue(p, r) ==
    /\ rowLock[r] = p
    /\ row[r].status # "none"
    /\ req[p].op = "join" => row[r].creator # req[p].user
    /\ req[p].op = "rematch" => row[r].opponent # NoUser

SelectHolds ==
    \A p \in Requests : Holding(p) /\ req[p].op # "create" =>
        \A r \in req[p].room : StillTrue(p, r)

\* A request is about rooms that exist.
RoomsExist == \A p \in Requests : \A r \in req[p].room : row[r].status # "none"

\* Who holds a row's lock is past its SELECT.
RowLocksHeld == \A r \in Rooms : rowLock[r] # NoRequest => Holding(rowLock[r])

\* Who holds a user's lock waits for greater users only.
UserLocksInOrder ==
    \A u \in Users : userLock[u] # NoRequest =>
        Holding(userLock[u]) /\ \A v \in req[userLock[u]].need : u < v

IInv ==
    /\ TypeOK
    /\ \A r \in Rooms : RowOK(row[r])
    /\ \A p \in Requests : RequestOK(req[p])
    /\ RoomsExist
    /\ SelectHolds
    /\ RowLocksHeld
    /\ UserLocksInOrder

-----------------------------------------------------------------------------
(***************************************************************************)
(* Building blocks.                                                        *)
(***************************************************************************)

\* What an idle request is.
LEMMA IdleType == Idle \in RequestType /\ RequestOK(Idle)
BY DEF Idle, RequestType, RequestOK

\* An idle request, or one that is not in a transaction, holds no lock.
LEMMA NoLocksOutside ==
    ASSUME IInv, NEW p \in Requests, ~Holding(p)
    PROVE  /\ \A r \in Rooms : rowLock[r] # p
           /\ \A u \in Users : userLock[u] # p
BY RegistryAssumption DEF IInv, RowLocksHeld, UserLocksInOrder

\* A request begins, and holds nothing yet.
LEMMA BeginKeeps ==
    ASSUME IInv, NEW p \in Requests, At(p, "idle"), NEW q \in RequestType, RequestOK(q),
           q.pc \in {"lock", "check", "write"} => q.op = "create",
           \A r \in q.room : row[r].status # "none",
           Set(p, q), UNCHANGED <<row, rowLock, userLock>>
    PROVE  IInv'
<1>1. TypeOK'
  BY DEF IInv, TypeOK, Set
<1>2. \A r \in Rooms : RowOK(row'[r])
  BY DEF IInv
<1>3. req' = [req EXCEPT ![p] = q] /\ req \in [Requests -> RequestType]
  BY DEF Set, IInv, TypeOK
<1>4. \A x \in Requests : RequestOK(req'[x])
  BY <1>3 DEF IInv
<1>5. ~Holding(p)
  BY DEF At, Holding
<1>9. RoomsExist'
  BY <1>3 DEF IInv, RoomsExist
<1>6. SelectHolds'
  BY <1>3 DEF IInv, SelectHolds, StillTrue, Holding
<1>7. RowLocksHeld'
  BY <1>3, <1>5, NoLocksOutside, RegistryAssumption DEF IInv, RowLocksHeld, Holding, TypeOK
<1>8. UserLocksInOrder'
  BY <1>3, <1>5, NoLocksOutside, RegistryAssumption DEF IInv, UserLocksInOrder, Holding, TypeOK
<1>. QED BY <1>1, <1>2, <1>4, <1>6, <1>7, <1>8, <1>9 DEF IInv, RowOK, RequestOK

\* A request ends with its locks, and writes no row that another one locked.
LEMMA EndKeeps ==
    ASSUME IInv, NEW p \in Requests, End(p),
           row' \in [Rooms -> RowType],
           \A r \in Rooms : RowOK(row'[r]),
           \A r \in Rooms : row'[r].status = "none" => row[r].status = "none",
           \A r \in Rooms : rowLock[r] \notin {p, NoRequest} /\ row[r].status # "none" => row'[r] = row[r]
    PROVE  IInv'
<1>1. req' = [req EXCEPT ![p] = Idle] /\ req \in [Requests -> RequestType]
  BY DEF End, Set, IInv, TypeOK
<1>2. \A r \in Rooms : rowLock'[r] = IF rowLock[r] = p THEN NoRequest ELSE rowLock[r]
  BY DEF End, Released, IInv, TypeOK
<1>3. \A u \in Users : userLock'[u] = IF userLock[u] = p THEN NoRequest ELSE userLock[u]
  BY DEF End, Released, IInv, TypeOK
<1>4. TypeOK'
  BY <1>1, IdleType DEF End, Released, IInv, TypeOK
<1>5. \A x \in Requests : RequestOK(req'[x])
  BY <1>1, IdleType DEF IInv
<1>6. ~Holding(p)'
  BY <1>1 DEF Holding, Idle
<1>7. SelectHolds'
  <2>. SUFFICES ASSUME NEW x \in Requests, Holding(x)', (req[x].op # "create")', NEW r \in req'[x].room
                PROVE  StillTrue(x, r)'
    BY DEF SelectHolds
  <2>1. x # p /\ req'[x] = req[x]
    BY <1>1, <1>6
  <2>2. StillTrue(x, r) /\ r \in Rooms
    BY <2>1, <1>1 DEF IInv, SelectHolds, Holding, RequestType
  <2>3. rowLock[r] \notin {p, NoRequest} /\ row[r].status # "none"
    BY <2>1, <2>2, RegistryAssumption DEF StillTrue
  <2>4. row'[r] = row[r] /\ rowLock'[r] = rowLock[r]
    BY <2>2, <2>3, <1>2
  <2>. QED BY <2>1, <2>2, <2>4 DEF StillTrue
<1>8. RowLocksHeld'
  BY <1>1, <1>2, RegistryAssumption DEF IInv, RowLocksHeld, Holding, TypeOK
<1>9. UserLocksInOrder'
  BY <1>1, <1>3, RegistryAssumption DEF IInv, UserLocksInOrder, Holding, TypeOK
<1>10. RoomsExist'
  BY <1>1 DEF IInv, RoomsExist, Idle, RequestType
<1>. QED BY <1>4, <1>5, <1>7, <1>8, <1>9, <1>10 DEF IInv, RowOK, RequestOK

\* A single statement writes a row that nobody locked.
LEMMA UpdateKeeps ==
    ASSUME IInv, NEW r \in Rooms, NEW s \in RowType, RowOK(s), s.status # "none", Update(r, s)
    PROVE  IInv'
<1>1. row' = [row EXCEPT ![r] = s] /\ row \in [Rooms -> RowType] /\ req \in [Requests -> RequestType]
  BY DEF Update, Put, IInv, TypeOK
<1>2. rowLock[r] = NoRequest /\ UNCHANGED <<rowLock, userLock, req>>
  BY DEF Update, Unlocked
<1>3. TypeOK'
  BY <1>1, <1>2 DEF IInv, TypeOK
<1>4. \A x \in Rooms : RowOK(row'[x])
  BY <1>1 DEF IInv
<1>5. SelectHolds'
  BY <1>1, <1>2, RegistryAssumption DEF IInv, SelectHolds, StillTrue, Holding, RequestType
<1>6. RowLocksHeld' /\ UserLocksInOrder'
  BY <1>2 DEF IInv, RowLocksHeld, UserLocksInOrder, Holding
<1>7. RoomsExist'
  BY <1>1, <1>2 DEF IInv, RoomsExist
<1>. QED BY <1>2, <1>3, <1>4, <1>5, <1>6, <1>7 DEF IInv, RowOK, RequestOK

-----------------------------------------------------------------------------
(***************************************************************************)
(* Each step keeps the invariant.                                          *)
(***************************************************************************)
LEMMA InitHolds == Init => IInv
<1>. SUFFICES ASSUME Init PROVE IInv
  OBVIOUS
<1>1. NoRow \in RowType /\ RowOK(NoRow)
  BY DEF NoRow, RowType, Statuses, RowOK
<1>2. TypeOK
  BY <1>1, IdleType DEF Init, TypeOK
<1>3. \A r \in Rooms : RowOK(row[r])
  BY <1>1 DEF Init
<1>4. \A p \in Requests : RequestOK(req[p]) /\ ~Holding(p)
  BY IdleType DEF Init, Holding, Idle
<1>5. SelectHolds
  BY <1>4 DEF SelectHolds
<1>6. RowLocksHeld /\ UserLocksInOrder
  BY DEF Init, RowLocksHeld, UserLocksInOrder
<1>7. RoomsExist
  BY DEF Init, RoomsExist, Idle
<1>. QED BY <1>2, <1>3, <1>4, <1>5, <1>6, <1>7 DEF IInv

LEMMA BeginStep ==
    ASSUME IInv, NEW p \in Requests, Begin(p)
    PROVE  IInv'
<1>1. ASSUME NEW u \in Users, BeginCreate(p, u) PROVE IInv'
  <2>. DEFINE q == [Idle EXCEPT !.op = "create", !.pc = "lock", !.user = u, !.need = {u}]
  <2>1. q \in RequestType /\ RequestOK(q) /\ q.op = "create" /\ q.room = {}
    BY RegistryAssumption DEF Idle, RequestType, RequestOK
  <2>2. At(p, "idle") /\ Set(p, q) /\ UNCHANGED <<row, rowLock, userLock>>
    BY <1>1 DEF BeginCreate
  <2>. HIDE DEF q
  <2>. QED BY <2>1, <2>2, BeginKeeps
<1>2. ASSUME NEW u \in Users, NEW r \in Rooms, BeginJoin(p, u, r) PROVE IInv'
  <2>. DEFINE q == [Idle EXCEPT !.op = "join", !.pc = "select", !.room = {r}, !.user = u,
                                !.late = row[r].overdue]
  <2>1. row[r].overdue \in BOOLEAN
    BY DEF IInv, TypeOK, RowType
  <2>2. q \in RequestType /\ RequestOK(q) /\ q.pc = "select" /\ q.room = {r}
    BY <2>1, RegistryAssumption DEF Idle, RequestType, RequestOK
  <2>3. At(p, "idle") /\ Set(p, q) /\ UNCHANGED <<row, rowLock, userLock>> /\ row[r].status # "none"
    BY <1>2 DEF BeginJoin
  <2>. HIDE DEF q
  <2>. QED BY <2>2, <2>3, BeginKeeps
<1>3. ASSUME NEW r \in Rooms, BeginRematch(p, r) PROVE IInv'
  <2>. DEFINE q == [Idle EXCEPT !.op = "rematch", !.pc = "select", !.room = {r}]
  <2>1. q \in RequestType /\ RequestOK(q) /\ q.pc = "select" /\ q.room = {r}
    BY DEF Idle, RequestType, RequestOK
  <2>2. At(p, "idle") /\ Set(p, q) /\ UNCHANGED <<row, rowLock, userLock>> /\ row[r].status # "none"
    BY <1>3 DEF BeginRematch
  <2>. HIDE DEF q
  <2>. QED BY <2>1, <2>2, BeginKeeps
<1>4. ASSUME NEW r \in Rooms, Get(p, r) PROVE IInv'
  <2>. DEFINE q == [Idle EXCEPT !.op = "get", !.pc = "expire", !.room = {r}]
  <2>1. q \in RequestType /\ RequestOK(q) /\ q.pc = "expire" /\ q.room = {r}
    BY DEF Idle, RequestType, RequestOK
  <2>2. At(p, "idle") /\ Set(p, q) /\ UNCHANGED <<row, rowLock, userLock>> /\ row[r].status # "none"
    BY <1>4 DEF Get, Open
  <2>. HIDE DEF q
  <2>. QED BY <2>1, <2>2, BeginKeeps
<1>5. ASSUME NEW r \in Rooms, Sweep(p, r) PROVE IInv'
  <2>. DEFINE q == [Idle EXCEPT !.op = "sweep", !.pc = "release", !.room = {r}]
  <2>1. q \in RequestType /\ RequestOK(q) /\ q.pc = "release" /\ q.room = {r}
    BY DEF Idle, RequestType, RequestOK
  <2>2. At(p, "idle") /\ Set(p, q) /\ UNCHANGED <<row, rowLock, userLock>> /\ row[r].status # "none"
    BY <1>5 DEF Sweep, Disconnected, Live
  <2>. HIDE DEF q
  <2>. QED BY <2>1, <2>2, BeginKeeps
<1>. QED BY <1>1, <1>2, <1>3, <1>4, <1>5 DEF Begin

LEMMA AbortStep ==
    ASSUME IInv, NEW p \in Requests, Abort(p)
    PROVE  IInv'
BY EndKeeps DEF Abort, IInv, TypeOK

LEMMA SelectStep ==
    ASSUME IInv, NEW p \in Requests, Select(p)
    PROVE  IInv'
<1>1. PICK r \in req[p].room :
          /\ Unlocked(r)
          /\ \/ /\ Selectable(row[r], req[p])
                /\ rowLock' = [rowLock EXCEPT ![r] = p]
                /\ Set(p, [req[p] EXCEPT !.pc = "lock", !.need = LocksUsers(row[r], req[p])])
                /\ UNCHANGED userLock
             \/ /\ ~Selectable(row[r], req[p])
                /\ End(p)
  BY DEF Select
<1>2. /\ req \in [Requests -> RequestType] /\ req[p] \in RequestType
      /\ r \in Rooms /\ row[r] \in RowType /\ RowOK(row[r]) /\ RequestOK(req[p])
      /\ row' = row
  BY DEF IInv, TypeOK, RequestType, Select
<1>3. CASE End(p)
  BY <1>2, <1>3, EndKeeps DEF IInv, TypeOK
<1>4. ASSUME /\ Selectable(row[r], req[p])
             /\ rowLock' = [rowLock EXCEPT ![r] = p]
             /\ Set(p, [req[p] EXCEPT !.pc = "lock", !.need = LocksUsers(row[r], req[p])])
             /\ UNCHANGED userLock
      PROVE IInv'
  <2>. DEFINE need == LocksUsers(row[r], req[p])
  <2>. DEFINE q == [req[p] EXCEPT !.pc = "lock", !.need = need]
  <2>1. req[p].op \in {"join", "rematch"}
    BY <1>2 DEF RequestOK, Select, At
  <2>2. /\ row[r].status # "none"
        /\ req[p].op = "join" => row[r].creator # req[p].user
        /\ req[p].op = "rematch" => row[r].opponent # NoUser
    BY <1>4, <2>1 DEF Selectable, Joinable
  <2>3. need \subseteq Users
    BY <1>2, <2>1, <2>2 DEF LocksUsers, RowOK, RequestOK, RowType, RequestType
  <2>4. At(p, "select") /\ Unlocked(r)
    BY <1>1 DEF Select
  <2>5. req' = [req EXCEPT ![p] = q]
    BY <1>4 DEF Set
  <2>. HIDE DEF need
  <2>6. /\ q \in RequestType
        /\ q.pc = "lock" /\ q.op = req[p].op /\ q.user = req[p].user /\ q.room = req[p].room
    BY <1>2, <2>3 DEF RequestType
  <2>. HIDE DEF q
  <2>7. TypeOK'
    BY <1>2, <1>4, <2>5, <2>6 DEF IInv, TypeOK
  <2>8. \A x \in Requests : RequestOK(req'[x])
    BY <1>2, <2>5, <2>6 DEF IInv, RequestOK
  <2>9. ~Holding(p)
    BY <2>4 DEF At, Holding
  <2>10. \A t \in req[p].room : t = r
    BY <1>2, <2>4 DEF RequestOK, At
  <2>11. SelectHolds'
    <3>. SUFFICES ASSUME NEW x \in Requests, Holding(x)', (req[x].op # "create")', NEW t \in req'[x].room
                  PROVE  StillTrue(x, t)'
      BY DEF SelectHolds
    <3>1. CASE x = p
      <4>1. t = r /\ rowLock'[r] = p
        BY <1>2, <1>4, <2>5, <2>6, <2>10, <3>1 DEF IInv, TypeOK
      <4>. QED BY <1>2, <2>2, <2>5, <2>6, <3>1, <4>1 DEF StillTrue
    <3>2. CASE x # p
      <4>1. req'[x] = req[x] /\ t \in Rooms
        BY <1>2, <2>5, <3>2 DEF RequestType
      <4>2. StillTrue(x, t)
        BY <4>1 DEF IInv, SelectHolds, Holding
      <4>3. rowLock'[t] = rowLock[t]
        BY <1>4, <2>4, <4>1, <4>2, RegistryAssumption DEF Unlocked, StillTrue, IInv, TypeOK
      <4>. QED BY <1>2, <4>1, <4>2, <4>3 DEF StillTrue
    <3>. QED BY <3>1, <3>2
  <2>12. RowLocksHeld'
    BY <1>2, <1>4, <2>5, <2>6, <2>9, RegistryAssumption DEF IInv, RowLocksHeld, Holding, TypeOK
  <2>13. UserLocksInOrder'
    BY <1>2, <1>4, <2>5, <2>9, NoLocksOutside, RegistryAssumption
       DEF IInv, UserLocksInOrder, Holding, TypeOK
  <2>14. RoomsExist'
    BY <1>2, <2>5, <2>6 DEF IInv, RoomsExist
  <2>. QED BY <1>2, <2>7, <2>8, <2>11, <2>12, <2>13, <2>14 DEF IInv, RowOK, RequestOK
<1>. QED BY <1>1, <1>3, <1>4

\* The next user's lock is taken: it is greater than those taken before.
LEMMA LockUserStep ==
    ASSUME IInv, NEW p \in Requests, LockUser(p)
    PROVE  IInv'
<1>1. PICK u \in Users :
          /\ NextToLock(p, u)
          /\ userLock[u] = NoRequest
          /\ userLock' = [userLock EXCEPT ![u] = p]
          /\ Set(p, [req[p] EXCEPT !.need = @ \ {u}, !.pc = IF req[p].need = {u} THEN "check" ELSE "lock"])
  BY DEF LockUser
<1>2. /\ req \in [Requests -> RequestType] /\ req[p] \in RequestType
      /\ userLock \in [Users -> Requests \cup {NoRequest}]
      /\ UNCHANGED <<row, rowLock>>
  BY DEF IInv, TypeOK, LockUser
<1>. DEFINE need == req[p].need \ {u}
<1>. DEFINE pc == IF req[p].need = {u} THEN "check" ELSE "lock"
<1>. DEFINE q == [req[p] EXCEPT !.need = need, !.pc = pc]
<1>3. need \subseteq Users /\ pc \in {"lock", "check"}
  BY <1>2 DEF RequestType
<1>4. \A v \in need : u < v
  BY <1>1, <1>2, RegistryAssumption DEF NextToLock, RequestType
<1>5. need \subseteq req[p].need
  OBVIOUS
<1>6. req' = [req EXCEPT ![p] = q]
  BY <1>1 DEF Set
<1>. HIDE DEF need, pc
<1>7. /\ q \in RequestType
      /\ q.need = need /\ q.pc = pc
      /\ q.op = req[p].op /\ q.user = req[p].user /\ q.room = req[p].room
  BY <1>2, <1>3 DEF RequestType
<1>. HIDE DEF q
<1>8. Holding(p)
  BY DEF LockUser, At, Holding
<1>9. TypeOK'
  BY <1>1, <1>2, <1>6, <1>7 DEF IInv, TypeOK
<1>10. \A x \in Requests : RequestOK(req'[x])
  BY <1>2, <1>3, <1>6, <1>7 DEF IInv, RequestOK
<1>11. \A x \in Requests : Holding(x)' => Holding(x) /\ req'[x].op = req[x].op
                              /\ req'[x].user = req[x].user /\ req'[x].room = req[x].room
  BY <1>2, <1>6, <1>7, <1>8 DEF Holding
<1>12. SelectHolds'
  BY <1>2, <1>11 DEF IInv, SelectHolds, StillTrue
<1>13. \A x \in Requests : Holding(x) => Holding(x)' /\ req'[x].need \subseteq req[x].need
  BY <1>2, <1>3, <1>5, <1>6, <1>7 DEF Holding
<1>14. RowLocksHeld'
  BY <1>2, <1>13 DEF IInv, RowLocksHeld, TypeOK
<1>15. UserLocksInOrder'
  <2>. SUFFICES ASSUME NEW v \in Users, NEW x \in Requests, userLock'[v] = x
                PROVE  Holding(x)' /\ \A w \in req'[x].need : v < w
    BY <1>9 DEF UserLocksInOrder, Holding, TypeOK
  <2>1. CASE v = u
    <3>1. x = p
      BY <1>1, <1>2, <2>1
    <3>2. req'[x].need = need
      BY <1>2, <1>6, <1>7, <3>1
    <3>. QED BY <1>4, <1>8, <1>13, <2>1, <3>1, <3>2
  <2>2. CASE v # u
    <3>1. userLock[v] = x
      BY <1>1, <1>2, <2>2
    <3>2. Holding(x) /\ \A w \in req[x].need : v < w
      BY <3>1, RegistryAssumption DEF IInv, UserLocksInOrder
    <3>. QED BY <1>13, <3>2
  <2>. QED BY <2>1, <2>2
<1>16. RoomsExist'
  BY <1>2, <1>6, <1>7 DEF IInv, RoomsExist
<1>. QED BY <1>2, <1>9, <1>10, <1>12, <1>14, <1>15, <1>16 DEF IInv, RowOK, RequestOK

LEMMA CheckStep ==
    ASSUME IInv, NEW p \in Requests, Check(p)
    PROVE  IInv'
<1>1. /\ req \in [Requests -> RequestType] /\ req[p] \in RequestType
      /\ row' = row /\ row \in [Rooms -> RowType] /\ req[p].pc = "check"
  BY DEF IInv, TypeOK, Check, At
<1>2. CASE End(p)
  BY <1>1, <1>2, EndKeeps DEF IInv
<1>3. ASSUME Set(p, [req[p] EXCEPT !.pc = "write"]), UNCHANGED <<rowLock, userLock>>
      PROVE  IInv'
  <2>. DEFINE q == [req[p] EXCEPT !.pc = "write"]
  <2>1. req' = [req EXCEPT ![p] = q]
    BY <1>3 DEF Set
  <2>2. /\ q \in RequestType
        /\ q.need = req[p].need /\ q.pc = "write"
        /\ q.op = req[p].op /\ q.user = req[p].user /\ q.room = req[p].room
    BY <1>1 DEF RequestType
  <2>. HIDE DEF q
  <2>3. TypeOK'
    BY <1>1, <1>3, <2>1, <2>2 DEF IInv, TypeOK
  <2>4. \A x \in Requests : RequestOK(req'[x])
    BY <1>1, <2>1, <2>2 DEF IInv, RequestOK
  <2>5. \A x \in Requests : /\ Holding(x)' <=> Holding(x)
                            /\ req'[x].op = req[x].op /\ req'[x].user = req[x].user
                            /\ req'[x].room = req[x].room /\ req'[x].need = req[x].need
    BY <1>1, <2>1, <2>2 DEF Holding
  <2>6. SelectHolds'
    BY <1>1, <1>3, <2>5 DEF IInv, SelectHolds, StillTrue
  <2>7. RowLocksHeld'
    BY <1>3, <2>5 DEF IInv, RowLocksHeld, TypeOK
  <2>8. UserLocksInOrder'
    BY <1>3, <2>5 DEF IInv, UserLocksInOrder, TypeOK
  <2>9. RoomsExist'
    BY <1>1, <2>5 DEF IInv, RoomsExist
  <2>. QED BY <1>1, <2>3, <2>4, <2>6, <2>7, <2>8, <2>9 DEF IInv, RowOK, RequestOK
<1>. QED BY <1>2, <1>3 DEF Check

\* What is written is a row whose lock is held, or that did not exist.
LEMMA WriteStep ==
    ASSUME IInv, NEW p \in Requests, Write(p)
    PROVE  IInv'
<1>1. /\ req[p] \in RequestType /\ RequestOK(req[p]) /\ row \in [Rooms -> RowType]
      /\ Holding(p) /\ End(p)
  BY DEF IInv, TypeOK, Write, At, Holding
<1>2. ASSUME NEW r \in Rooms, row[r].status = "none", Put(r, NewRow(req[p].user)), req[p].op = "create"
      PROVE  IInv'
  <2>. DEFINE s == NewRow(req[p].user)
  <2>1. s \in RowType /\ RowOK(s)
    BY <1>1, <1>2 DEF NewRow, NoRow, RowType, Statuses, RowOK, RequestOK, RequestType
  <2>. HIDE DEF s
  <2>2. row' = [row EXCEPT ![r] = s]
    BY <1>2 DEF Put, s
  <2>. QED BY <1>1, <1>2, <2>1, <2>2, EndKeeps DEF IInv
<1>3. ASSUME NEW r \in req[p].room, req[p].op = "join",
             Put(r, [row[r] EXCEPT !.opponent = req[p].user, !.overdue = FALSE])
      PROVE  IInv'
  <2>1. r \in Rooms /\ StillTrue(p, r) /\ row[r] \in RowType /\ RowOK(row[r])
    BY <1>1, <1>3 DEF IInv, SelectHolds, RequestType
  <2>. DEFINE s == [row[r] EXCEPT !.opponent = req[p].user, !.overdue = FALSE]
  <2>2. s \in RowType
    BY <1>1, <2>1 DEF RowType, RequestType
  <2>3. s.status = row[r].status /\ s.creator = row[r].creator /\ s.opponent = req[p].user
    BY <2>1 DEF RowType
  <2>6. s.status # "none"
    BY <2>1, <2>3 DEF StillTrue
  <2>4. RowOK(s)
    BY <1>1, <1>3, <2>1, <2>3 DEF RowOK, StillTrue, RequestOK
  <2>. HIDE DEF s
  <2>5. row' = [row EXCEPT ![r] = s]
    BY <1>3 DEF Put, s
  <2>. QED BY <1>1, <2>1, <2>2, <2>4, <2>5, <2>6, EndKeeps DEF IInv, StillTrue
<1>4. ASSUME NEW r \in req[p].room, req[p].op = "rematch",
             Put(r, [row[r] EXCEPT !.status = "playing", !.creatorGone = FALSE, !.opponentGone = FALSE])
      PROVE  IInv'
  <2>1. r \in Rooms /\ StillTrue(p, r) /\ row[r] \in RowType /\ RowOK(row[r])
    BY <1>1, <1>4 DEF IInv, SelectHolds, RequestType
  <2>. DEFINE s == [row[r] EXCEPT !.status = "playing", !.creatorGone = FALSE, !.opponentGone = FALSE]
  <2>2. s \in RowType
    BY <2>1 DEF RowType, Statuses
  <2>3. s.creator = row[r].creator /\ s.opponent = row[r].opponent /\ s.opponentGone = FALSE
    BY <2>1 DEF RowType
  <2>6. s.status # "none"
    BY <2>1 DEF RowType
  <2>4. RowOK(s)
    BY <1>4, <2>1, <2>3 DEF RowOK, StillTrue
  <2>. HIDE DEF s
  <2>5. row' = [row EXCEPT ![r] = s]
    BY <1>4 DEF Put, s
  <2>. QED BY <1>1, <2>1, <2>2, <2>4, <2>5, <2>6, EndKeeps DEF IInv, StillTrue
<1>. QED BY <1>2, <1>3, <1>4 DEF Write

\* A row that lost its opponent, or that was closed or expired.
LEMMA RowsAfter ==
    ASSUME NEW s \in RowType, RowOK(s), s.status # "none"
    PROVE  /\ Vacated(s) \in RowType /\ RowOK(Vacated(s))
           /\ Closed(s) \in RowType /\ RowOK(Closed(s))
           /\ [s EXCEPT !.status = "expired", !.overdue = FALSE] \in RowType
           /\ RowOK([s EXCEPT !.status = "expired", !.overdue = FALSE])
           /\ Vacated(s).status = "waiting" /\ Closed(s).status = "expired"
           /\ [s EXCEPT !.status = "expired", !.overdue = FALSE].status = "expired"
<1>1. Vacated(s) \in RowType /\ RowOK(Vacated(s))
  BY DEF Vacated, RowType, Statuses, RowOK
<1>2. Closed(s) \in RowType /\ RowOK(Closed(s))
  BY DEF Closed, RowType, Statuses, RowOK
<1>3. /\ [s EXCEPT !.status = "expired", !.overdue = FALSE] \in RowType
      /\ RowOK([s EXCEPT !.status = "expired", !.overdue = FALSE])
  BY DEF RowType, Statuses, RowOK
<1>4. /\ Vacated(s).status = "waiting" /\ Closed(s).status = "expired"
      /\ [s EXCEPT !.status = "expired", !.overdue = FALSE].status = "expired"
  BY DEF RowType, Vacated, Closed
<1>. QED BY <1>1, <1>2, <1>3, <1>4

\* GetRoomByID's second statement, and the sweep's.
LEMMA LooseStep ==
    ASSUME IInv, NEW p \in Requests, GetExpires(p) \/ SweepReleases(p)
    PROVE  IInv'
<1>1. /\ ~Holding(p) /\ Set(p, Idle) /\ UNCHANGED <<rowLock, userLock>>
      /\ row \in [Rooms -> RowType] /\ req[p] \in RequestType
      /\ rowLock \in [Rooms -> Requests \cup {NoRequest}]
      /\ userLock \in [Users -> Requests \cup {NoRequest}]
  BY DEF GetExpires, SweepReleases, At, Holding, IInv, TypeOK
<1>2. End(p)
  BY <1>1, NoLocksOutside DEF End, Released
<1>3. PICK r \in req[p].room :
          /\ Unlocked(r)
          /\ \/ Put(r, [row[r] EXCEPT !.status = "expired", !.overdue = FALSE])
             \/ Put(r, IF Vacatable(row[r]) THEN Vacated(row[r]) ELSE row[r])
  BY DEF GetExpires, SweepReleases
<1>4. r \in Rooms /\ row[r] \in RowType /\ RowOK(row[r]) /\ row[r].status # "none"
  BY <1>1 DEF IInv, RoomsExist, RequestType
<1>5. ASSUME NEW s \in RowType, RowOK(s), s.status # "none", Put(r, s)
      PROVE  IInv'
  BY <1>1, <1>2, <1>3, <1>4, <1>5, EndKeeps DEF IInv, Put, Unlocked
<1>6. CASE Put(r, [row[r] EXCEPT !.status = "expired", !.overdue = FALSE])
  <2>. DEFINE s == [row[r] EXCEPT !.status = "expired", !.overdue = FALSE]
  <2>1. s \in RowType /\ RowOK(s) /\ s.status # "none"
    BY <1>4, RowsAfter
  <2>. HIDE DEF s
  <2>. QED BY <1>5, <1>6, <2>1 DEF s
<1>7. CASE Put(r, IF Vacatable(row[r]) THEN Vacated(row[r]) ELSE row[r])
  <2>. DEFINE s == IF Vacatable(row[r]) THEN Vacated(row[r]) ELSE row[r]
  <2>1. s \in RowType /\ RowOK(s) /\ s.status # "none"
    BY <1>4, RowsAfter
  <2>. HIDE DEF s
  <2>. QED BY <1>5, <1>7, <2>1 DEF s
<1>. QED BY <1>3, <1>6, <1>7

LEMMA StatementStep ==
    ASSUME IInv, NEW r \in Rooms, Statement(r)
    PROVE  IInv'
<1>1. /\ row \in [Rooms -> RowType] /\ row[r] \in RowType /\ RowOK(row[r])
      /\ row[r].status \in Statuses
  BY DEF IInv, TypeOK, RowType
<1>2. CASE Leave(r) \/ Release(r)
  <2>1. row[r].status # "none"
    BY <1>1, <1>2 DEF Leave, Release, Disconnected, Live, RowOK
  <2>. QED BY <1>1, <1>2, <2>1, RowsAfter, UpdateKeeps DEF Leave, Release
<1>3. CASE Close(r) \/ CloseIfGone(r)
  <2>1. row[r].status # "none"
    BY <1>3 DEF Close, CloseIfGone, Live
  <2>. QED BY <1>1, <1>3, <2>1, RowsAfter, UpdateKeeps DEF Close, CloseIfGone
<1>4. CASE StartRoom(r)
  <2>. DEFINE s == [row[r] EXCEPT !.status = "playing"]
  <2>1. s \in RowType /\ RowOK(s) /\ s.status # "none"
    BY <1>1, <1>4 DEF StartRoom, RowType, Statuses, RowOK
  <2>. HIDE DEF s
  <2>. QED BY <1>4, <2>1, UpdateKeeps DEF StartRoom, s
<1>5. CASE FinishRoom(r)
  <2>. DEFINE s == [row[r] EXCEPT !.status = "finished"]
  <2>1. s \in RowType /\ RowOK(s) /\ s.status # "none"
    BY <1>1, <1>5 DEF FinishRoom, RowType, Statuses, RowOK
  <2>. HIDE DEF s
  <2>. QED BY <1>5, <2>1, UpdateKeeps DEF FinishRoom, s
<1>6. CASE ExpireRoom(r)
  <2>. DEFINE s == [row[r] EXCEPT !.status = "expired", !.overdue = FALSE]
  <2>1. s \in RowType /\ RowOK(s) /\ s.status # "none"
    BY <1>1, <1>6, RowsAfter DEF ExpireRoom, Open
  <2>. HIDE DEF s
  <2>. QED BY <1>6, <2>1, UpdateKeeps DEF ExpireRoom, s
<1>7. CASE TimePasses(r)
  <2>. DEFINE s == [row[r] EXCEPT !.overdue = TRUE]
  <2>1. /\ s \in RowType /\ RowOK(s)
        /\ s.status = row[r].status /\ s.creator = row[r].creator /\ s.opponent = row[r].opponent
    BY <1>1 DEF RowType, RowOK
  <2>2. row' = [row EXCEPT ![r] = s] /\ UNCHANGED <<rowLock, userLock, req>>
    BY <1>7 DEF TimePasses, Put
  <2>. HIDE DEF s
  <2>3. \A x \in Rooms : /\ row'[x] \in RowType /\ RowOK(row'[x])
                         /\ row'[x].status = row[x].status /\ row'[x].creator = row[x].creator
                         /\ row'[x].opponent = row[x].opponent
    BY <1>1, <2>1, <2>2 DEF IInv
  <2>4. TypeOK'
    BY <1>1, <2>1, <2>2 DEF IInv, TypeOK
  <2>5. RoomsExist' /\ SelectHolds'
    BY <2>2, <2>3 DEF IInv, TypeOK, RequestType, RoomsExist, SelectHolds, StillTrue, Holding
  <2>6. RowLocksHeld' /\ UserLocksInOrder' /\ \A p \in Requests : RequestOK(req'[p])
    BY <2>2 DEF IInv, RowLocksHeld, UserLocksInOrder, Holding
  <2>. QED BY <2>2, <2>3, <2>4, <2>5, <2>6 DEF IInv, RowOK, RequestOK
<1>8. ASSUME NEW gone \in BOOLEAN, MarkCreator(r, gone) PROVE IInv'
  <2>. DEFINE s == [row[r] EXCEPT !.creatorGone = gone]
  <2>1. s \in RowType /\ RowOK(s) /\ s.status # "none"
    BY <1>1, <1>8 DEF MarkCreator, Live, RowType, RowOK
  <2>. HIDE DEF s
  <2>. QED BY <1>8, <2>1, UpdateKeeps DEF MarkCreator, s
<1>9. ASSUME NEW gone \in BOOLEAN, MarkOpponent(r, gone) PROVE IInv'
  <2>. DEFINE s == [row[r] EXCEPT !.opponentGone = gone]
  <2>1. s \in RowType /\ RowOK(s) /\ s.status # "none"
    BY <1>1, <1>9 DEF MarkOpponent, Live, RowType, RowOK
  <2>. HIDE DEF s
  <2>. QED BY <1>9, <2>1, UpdateKeeps DEF MarkOpponent, s
<1>. QED BY <1>2, <1>3, <1>4, <1>5, <1>6, <1>7, <1>8, <1>9 DEF Statement

LEMMA StepHolds == IInv /\ [Next]_vars => IInv'
<1>. SUFFICES ASSUME IInv, [Next]_vars PROVE IInv'
  OBVIOUS
<1>1. CASE UNCHANGED vars
  BY <1>1 DEF vars, IInv, TypeOK, RowOK, RequestOK, RoomsExist, SelectHolds, StillTrue, RowLocksHeld,
              UserLocksInOrder, Holding
<1>2. ASSUME NEW p \in Requests, Begin(p) \/ Step(p) \/ Abort(p) PROVE IInv'
  BY <1>2, BeginStep, SelectStep, LockUserStep, CheckStep, WriteStep, LooseStep, AbortStep DEF Step
<1>3. ASSUME NEW r \in Rooms, Statement(r) PROVE IInv'
  BY <1>3, StatementStep
<1>. QED BY <1>1, <1>2, <1>3 DEF Next

\* The inductive invariant holds of every behaviour.
THEOREM Invariance == Spec => []IInv
BY InitHolds, StepHolds, PTL DEF Spec

-----------------------------------------------------------------------------
(***************************************************************************)
(* What follows from it.                                                   *)
(***************************************************************************)

\* Every variable keeps its type.
THEOREM RoomTypes == Spec => []TypeOK
<1>1. IInv => TypeOK
  BY DEF IInv
<1>. QED BY <1>1, Invariance, PTL

\* Whatever joins, leaves, sweeps and rematches run at the same time, a match
\* is played, and was played, by two different users.
THEOREM MatchesHaveTwoPlayers == Spec => []TwoPlayersPlay
<1>1. IInv => TwoPlayersPlay
  BY DEF IInv, RowOK, TwoPlayersPlay
<1>. QED BY <1>1, Invariance, PTL

\* Who joins a room does not inherit the mark of a disconnected predecessor.
THEOREM MarksAreOnesOwn == Spec => []NoInheritedMark
<1>1. IInv => NoInheritedMark
  BY DEF IInv, RowOK, NoInheritedMark
<1>. QED BY <1>1, Invariance, PTL

\* A finite set of numbers in which each has a greater one is empty.
LEMMA NoGreatest ==
    ASSUME NEW T, T \subseteq Nat, IsFiniteSet(T), \A u \in T : \E v \in T : u < v
    PROVE  T = {}
<1>. DEFINE Above(u) == {v \in T : u < v}
<1>. DEFINE Sets == {Above(u) : u \in T}
<1>1. Sets \subseteq FiniteSubsetsOf(T)
  BY FS_FiniteSubsetsOfFinite
<1>2. IsWellFoundedOn(StrictSubsetOrdering(T), FiniteSubsetsOf(T))
  BY FS_StrictSubsetOrderingWellFounded
<1>. SUFFICES ASSUME Sets # {} PROVE FALSE
  OBVIOUS
<1>3. PICK A \in Sets : \A B \in Sets : <<B, A>> \notin StrictSubsetOrdering(T)
  <2>. HIDE DEF Sets
  <2>. QED BY <1>1, <1>2, WFMin
<1>4. PICK u \in T : A = Above(u)
  OBVIOUS
<1>5. PICK v \in T : u < v
  OBVIOUS
<1>6. Above(v) \subseteq Above(u) /\ v \in Above(u) /\ v \notin Above(v)
  <2>1. u \in Nat /\ v \in Nat
    OBVIOUS
  <2>2. \A w \in T : w \in Nat /\ (v < w => u < w)
    BY <1>5, <2>1
  <2>3. ~(v < v)
    BY <2>1
  <2>. QED BY <1>5, <2>2, <2>3
<1>7. <<Above(v), Above(u)>> \in StrictSubsetOrdering(T)
  BY <1>6 DEF StrictSubsetOrdering
<1>. QED BY <1>3, <1>4, <1>7

\* Transactions never wait for each other in a circle.  In a circle, each would
\* hold a user and wait for a greater one.
THEOREM NoDeadlock == Spec => []NoLockCycle
<1>1. IInv => NoLockCycle
  <2>. SUFFICES ASSUME IInv, NEW S \in (SUBSET Requests) \ {{}},
                       \A p \in S : \E q \in S : WaitsFor(p, q)
                PROVE  FALSE
    BY DEF NoLockCycle
  <2>1. ASSUME NEW p \in S, NEW q \in S, WaitsFor(p, q)
        PROVE  Holding(q)
    BY <2>1, RegistryAssumption DEF WaitsFor, IInv, RowLocksHeld, UserLocksInOrder, TypeOK, RequestType
  <2>2. ASSUME NEW q \in S, Holding(q)
        PROVE  \E u \in Users : \E x \in S : NextToLock(q, u) /\ userLock[u] = x /\ Holding(x)
    BY <2>1, <2>2 DEF WaitsFor, Holding
  <2>. DEFINE T == {u \in Users : \E x \in S : userLock[u] = x /\ Holding(x)}
  <2>3. \A u \in T : \E v \in T : u < v
    <3>. SUFFICES ASSUME NEW u \in T PROVE \E v \in T : u < v
      OBVIOUS
    <3>1. PICK x \in S : userLock[u] = x /\ Holding(x)
      OBVIOUS
    <3>2. PICK v \in Users : \E y \in S : NextToLock(x, v) /\ userLock[v] = y /\ Holding(y)
      BY <2>2, <3>1
    <3>3. u < v
      BY <3>1, <3>2, RegistryAssumption DEF IInv, UserLocksInOrder, NextToLock
    <3>. QED BY <3>2, <3>3
  <2>4. T # {}
    <3>1. PICK p \in S : TRUE
      OBVIOUS
    <3>2. PICK q \in S : Holding(q)
      BY <2>1, <3>1
    <3>. QED BY <2>2, <3>2
  <2>5. T \subseteq Nat /\ IsFiniteSet(T)
    BY RegistryAssumption, FS_Subset
  <2>. HIDE DEF T
  <2>. QED BY <2>3, <2>4, <2>5, NoGreatest
<1>. QED BY <1>1, Invariance, PTL

-----------------------------------------------------------------------------
(***************************************************************************)
(* Who sits where.  A seat that counts is an opponent's, and, unless rooms *)
(* that are over come back with their creators, a creator's.               *)
(***************************************************************************)
Counts(u, s) == Active(s) /\ (u = s.opponent \/ (~LateVacates /\ u = s.creator))

Exclusive ==
    \A u \in Users : \A q, r \in Rooms : Counts(u, row[q]) /\ Counts(u, row[r]) => q = r

\* What the SELECT found is still so.
Found(p) ==
    Holding(p) =>
        /\ req[p].op \in {"create", "join", "rematch"}
        /\ \A r, t \in req[p].room : r = t
        /\ req[p].op = "create" => req[p].room = {}
        /\ req[p].op = "join" =>
              \A r \in req[p].room : row[r].status = "waiting" /\ row[r].opponent = NoUser
        /\ req[p].op = "rematch" => \A r \in req[p].room : row[r].status = "finished"

\* Whoever is asked about is locked, or still to be.
Locked(p) ==
    Holding(p) =>
        /\ \A u \in Asks(req[p]) : u \in Users /\ (u \in req[p].need \/ userLock[u] = p)
        /\ req[p].pc # "lock" => req[p].need = {}

\* What was checked stays true, because the users are locked.
CheckedFree(p) ==
    At(p, "write") =>
        \A u \in Asks(req[p]) : \A r \in Rooms \ req[p].room : ~Counts(u, row[r])

Seated(p) == Found(p) /\ Locked(p) /\ CheckedFree(p)

SeatInv == Exclusive /\ \A p \in Requests : Seated(p)

\* The same players in the same status.
SameSeats(r) ==
    /\ row'[r].status = row[r].status
    /\ row'[r].creator = row[r].creator
    /\ row'[r].opponent = row[r].opponent

\* Nobody gets a seat.
NoNewSeats == \A r \in Rooms : \A u \in Users : Counts(u, row[r])' => Counts(u, row[r])

\* Transactions in which nothing happens keep what they have, when their rows
\* are left alone and nobody they locked gets a seat.
LEMMA OthersKeep ==
    ASSUME IInv, NEW x \in Requests, Seated(x), req'[x] = req[x],
           \A u \in Users : userLock[u] = x => userLock'[u] = x,
           Holding(x) => \A r \in req[x].room : SameSeats(r),
           \A r \in Rooms : \A u \in Users :
               Counts(u, row[r])' => Counts(u, row[r]) \/ userLock[u] # x
    PROVE  Seated(x)'
<1>1. req[x] \in RequestType
  BY DEF IInv, TypeOK
<1>2. ASSUME Holding(x)
      PROVE  \A r \in req[x].room : r \in Rooms /\ SameSeats(r)
  BY <1>1, <1>2 DEF RequestType
<1>3. Holding(x)' <=> Holding(x)
  BY DEF Holding
<1>4. Found(x)'
  BY <1>2, <1>3 DEF Seated, Found, SameSeats
<1>5. ASSUME Holding(x)
      PROVE  Asks(req[x])' = Asks(req[x])
  <2>1. req'[x] = req[x] /\ \A r \in req[x].room : SameSeats(r)
    BY <1>2, <1>5
  <2>2. \A u : u \in Asks(req[x])' <=> u \in Asks(req[x])
    BY <2>1 DEF Asks, SameSeats
  <2>. QED BY <2>2
<1>6. Locked(x)'
  BY <1>3, <1>5 DEF Seated, Locked
<1>7. CheckedFree(x)'
  <2>. SUFFICES ASSUME At(x, "write"), NEW u \in Asks(req[x]), NEW r \in Rooms \ req[x].room
                PROVE  ~Counts(u, row[r])'
    BY <1>3, <1>5 DEF CheckedFree, At, Holding
  <2>1. Holding(x) /\ req[x].need = {}
    BY DEF At, Holding, Seated, Locked
  <2>2. u \in Users /\ userLock[u] = x
    BY <2>1 DEF Seated, Locked
  <2>3. ~Counts(u, row[r])
    BY DEF Seated, CheckedFree
  <2>. QED BY <2>2, <2>3
<1>. QED BY <1>4, <1>6, <1>7 DEF Seated

\* Rows change and nobody gets a seat.
LEMMA NoNewSeatsKeep ==
    ASSUME SeatInv, NoNewSeats
    PROVE  Exclusive'
BY DEF SeatInv, Exclusive, NoNewSeats

\* An idle request has nothing to keep.
LEMMA IdleIsSeated ==
    ASSUME NEW p \in Requests, ~Holding(p)'
    PROVE  Seated(p)'
BY DEF Seated, Found, Locked, CheckedFree, Holding, At

LEMMA SeatsInit == Init => SeatInv
<1>. SUFFICES ASSUME Init PROVE SeatInv
  OBVIOUS
<1>1. \A p \in Requests : ~Holding(p)
  BY DEF Init, Holding, Idle
<1>2. \A p \in Requests : Seated(p)
  BY <1>1 DEF Seated, Found, Locked, CheckedFree, Holding, At
<1>3. \A r \in Rooms : ~Active(row[r])
  BY DEF Init, NoRow, Active
<1>. QED BY <1>2, <1>3 DEF SeatInv, Exclusive, Counts

\* A request begins: a transaction past its SELECT is one of CreateRoom.
LEMMA SeatsBegin ==
    ASSUME IInv, SeatInv, NEW p \in Requests, Begin(p)
    PROVE  SeatInv'
<1>1. UNCHANGED <<row, rowLock, userLock>> /\ ~Holding(p)
  BY DEF Begin, BeginCreate, BeginJoin, BeginRematch, Get, Sweep, At, Holding
<1>2. \A x \in Requests : x # p => req'[x] = req[x]
  BY DEF Begin, BeginCreate, BeginJoin, BeginRematch, Get, Sweep, Set, IInv, TypeOK
<1>3. Exclusive'
  BY <1>1 DEF SeatInv, Exclusive, Counts
<1>4. ASSUME NEW x \in Requests, x # p PROVE Seated(x)'
  <2>1. Seated(x) /\ req'[x] = req[x]
    BY <1>2, <1>4 DEF SeatInv
  <2>. QED BY <1>1, <2>1, OthersKeep DEF SameSeats, Counts
<1>5. Seated(p)'
  <2>1. CASE ~Holding(p)'
    BY <2>1, IdleIsSeated
  <2>2. CASE Holding(p)'
    <3>1. PICK u \in Users : BeginCreate(p, u)
      <4>1. req \in [Requests -> RequestType]
        BY DEF IInv, TypeOK
      <4>2. ASSUME NEW r \in Rooms, BeginRematch(p, r) \/ Get(p, r) \/ Sweep(p, r)
            PROVE  req'[p].pc \in {"select", "expire", "release"}
        BY <4>1, <4>2 DEF BeginRematch, Get, Sweep, Set, Idle
      <4>3. ASSUME NEW r \in Rooms, NEW u \in Users, BeginJoin(p, u, r)
            PROVE  req'[p].pc = "select"
        BY <4>1, <4>3 DEF BeginJoin, Set, Idle
      <4>. QED BY <2>2, <4>2, <4>3 DEF Begin, Holding
    <3>2. /\ req'[p].op = "create" /\ req'[p].pc = "lock" /\ req'[p].user = u
          /\ req'[p].need = {u} /\ req'[p].room = {}
      BY <3>1 DEF BeginCreate, Set, Idle, IInv, TypeOK
    <3>. QED BY <3>2 DEF Seated, Found, Locked, CheckedFree, Holding, At, Asks
  <2>. QED BY <2>1, <2>2
<1>. QED BY <1>3, <1>4, <1>5 DEF SeatInv

\* A transaction ends and writes no row.
LEMMA SeatsEnd ==
    ASSUME IInv, SeatInv, NEW p \in Requests, End(p), row' = row
    PROVE  SeatInv'
<1>1. req' = [req EXCEPT ![p] = Idle] /\ req \in [Requests -> RequestType]
  BY DEF End, Set, IInv, TypeOK
<1>2. \A u \in Users : \A x \in Requests : x # p /\ userLock[u] = x => userLock'[u] = x
  BY DEF End, Released, IInv, TypeOK
<1>3. Exclusive'
  BY DEF SeatInv, Exclusive, Counts
<1>4. ASSUME NEW x \in Requests, x # p PROVE Seated(x)'
  <2>1. Seated(x) /\ req'[x] = req[x]
    BY <1>1, <1>4 DEF SeatInv
  <2>. QED BY <1>2, <1>4, <2>1, OthersKeep DEF SameSeats, Counts
<1>5. ~Holding(p)'
  BY <1>1 DEF Holding, Idle
<1>. QED BY <1>3, <1>4, <1>5, IdleIsSeated DEF SeatInv

LEMMA SeatsSelect ==
    ASSUME IInv, SeatInv, NEW p \in Requests, Select(p)
    PROVE  SeatInv'
<1>1. PICK r \in req[p].room :
          /\ Unlocked(r)
          /\ \/ /\ Selectable(row[r], req[p])
                /\ rowLock' = [rowLock EXCEPT ![r] = p]
                /\ Set(p, [req[p] EXCEPT !.pc = "lock", !.need = LocksUsers(row[r], req[p])])
                /\ UNCHANGED userLock
             \/ /\ ~Selectable(row[r], req[p])
                /\ End(p)
  BY DEF Select
<1>2. /\ req \in [Requests -> RequestType] /\ req[p] \in RequestType
      /\ r \in Rooms /\ row[r] \in RowType /\ RowOK(row[r]) /\ RequestOK(req[p])
      /\ row' = row /\ req[p].pc = "select"
  BY DEF IInv, TypeOK, RequestType, Select, At
<1>3. CASE End(p)
  BY <1>2, <1>3, SeatsEnd
<1>4. ASSUME Selectable(row[r], req[p]),
             Set(p, [req[p] EXCEPT !.pc = "lock", !.need = LocksUsers(row[r], req[p])]),
             UNCHANGED userLock
      PROVE  SeatInv'
  <2>1. req[p].op \in {"join", "rematch"} /\ req[p].room = {r}
    BY <1>1, <1>2 DEF RequestOK
  <2>2. /\ req'[p].op = req[p].op /\ req'[p].pc = "lock" /\ req'[p].room = {r}
        /\ req'[p].user = req[p].user /\ req'[p].need = LocksUsers(row[r], req[p])
    BY <1>2, <1>4, <2>1 DEF Set, RequestType
  <2>3. Asks(req[p])' = LocksUsers(row[r], req[p])
    BY <1>2, <2>1, <2>2 DEF Asks, LocksUsers
  <2>4. LocksUsers(row[r], req[p]) \subseteq Users
    BY <1>2, <1>4, <2>1 DEF LocksUsers, Selectable, Joinable, RowOK, RequestOK, RowType, RequestType
  <2>5. Seated(p)'
    BY <1>2, <1>4, <2>1, <2>2, <2>3, <2>4
       DEF Seated, Found, Locked, CheckedFree, Holding, At, Selectable, Joinable
  <2>6. ASSUME NEW x \in Requests, x # p PROVE Seated(x)'
    <3>1. Seated(x) /\ req'[x] = req[x]
      BY <1>2, <1>4, <2>6 DEF SeatInv, Set
    <3>. QED BY <1>2, <1>4, <3>1, OthersKeep DEF SameSeats, Counts
  <2>7. Exclusive'
    BY <1>2 DEF SeatInv, Exclusive, Counts
  <2>. QED BY <2>5, <2>6, <2>7 DEF SeatInv
<1>. QED BY <1>1, <1>3, <1>4

LEMMA SeatsLockUser ==
    ASSUME IInv, SeatInv, NEW p \in Requests, LockUser(p)
    PROVE  SeatInv'
<1>1. PICK u \in Users :
          /\ NextToLock(p, u)
          /\ userLock[u] = NoRequest
          /\ userLock' = [userLock EXCEPT ![u] = p]
          /\ Set(p, [req[p] EXCEPT !.need = @ \ {u}, !.pc = IF req[p].need = {u} THEN "check" ELSE "lock"])
  BY DEF LockUser
<1>2. /\ req \in [Requests -> RequestType] /\ req[p] \in RequestType
      /\ userLock \in [Users -> Requests \cup {NoRequest}]
      /\ UNCHANGED <<row, rowLock>> /\ Holding(p)
  BY DEF IInv, TypeOK, LockUser, At, Holding
<1>3. /\ req'[p].op = req[p].op /\ req'[p].room = req[p].room /\ req'[p].user = req[p].user
      /\ req'[p].need = req[p].need \ {u}
      /\ req'[p].pc = IF req[p].need = {u} THEN "check" ELSE "lock"
  BY <1>1, <1>2 DEF Set, RequestType
<1>4. Asks(req[p])' = Asks(req[p])
  BY <1>2, <1>3 DEF Asks
<1>5. Seated(p)
  BY DEF SeatInv
<1>6. Found(p)' /\ CheckedFree(p)'
  BY <1>2, <1>3, <1>5 DEF Seated, Found, CheckedFree, Holding, At
<1>7. Locked(p)'
  BY <1>1, <1>2, <1>3, <1>4, <1>5 DEF Seated, Locked, Holding
<1>8. ASSUME NEW x \in Requests, x # p PROVE Seated(x)'
  <2>1. Seated(x) /\ req'[x] = req[x]
    BY <1>1, <1>2, <1>8 DEF SeatInv, Set
  <2>2. \A v \in Users : userLock[v] = x => userLock'[v] = x
    BY <1>1, <1>2, RegistryAssumption
  <2>. QED BY <1>2, <2>1, <2>2, OthersKeep DEF SameSeats, Counts
<1>9. Exclusive'
  BY <1>2 DEF SeatInv, Exclusive, Counts
<1>. QED BY <1>6, <1>7, <1>8, <1>9 DEF SeatInv, Seated

LEMMA SeatsCheck ==
    ASSUME IInv, SeatInv, NEW p \in Requests, Check(p)
    PROVE  SeatInv'
<1>1. /\ req \in [Requests -> RequestType] /\ req[p] \in RequestType
      /\ row' = row /\ row \in [Rooms -> RowType] /\ req[p].pc = "check" /\ Holding(p)
  BY DEF IInv, TypeOK, Check, At, Holding
<1>2. CASE End(p)
  BY <1>1, <1>2, SeatsEnd
<1>3. ASSUME \A u \in Asks(req[p]) : ~HasActiveRoom(u, req[p].room),
             Set(p, [req[p] EXCEPT !.pc = "write"]), UNCHANGED <<rowLock, userLock>>
      PROVE  SeatInv'
  <2>1. /\ req'[p].op = req[p].op /\ req'[p].room = req[p].room /\ req'[p].user = req[p].user
        /\ req'[p].need = req[p].need /\ req'[p].pc = "write"
    BY <1>1, <1>3 DEF Set, RequestType
  <2>2. Asks(req[p])' = Asks(req[p])
    BY <1>1, <2>1 DEF Asks
  <2>3. Seated(p)
    BY DEF SeatInv
  <2>4. Found(p)' /\ Locked(p)'
    BY <1>1, <1>3, <2>1, <2>2, <2>3 DEF Seated, Found, Locked, Holding
  <2>5. CheckedFree(p)'
    BY <1>1, <1>3, <2>1, <2>2 DEF CheckedFree, HasActiveRoom, Counts, Sits
  <2>6. ASSUME NEW x \in Requests, x # p PROVE Seated(x)'
    <3>1. Seated(x) /\ req'[x] = req[x]
      BY <1>1, <1>3, <2>6 DEF SeatInv, Set
    <3>. QED BY <1>1, <1>3, <3>1, OthersKeep DEF SameSeats, Counts
  <2>7. Exclusive'
    BY <1>1 DEF SeatInv, Exclusive, Counts
  <2>. QED BY <2>4, <2>5, <2>6, <2>7 DEF SeatInv, Seated
<1>. QED BY <1>2, <1>3 DEF Check

\* Whom a transaction seats is locked by it, so that no other one has found
\* that user free.
LEMMA SeatsWrite ==
    ASSUME IInv, SeatInv, NEW p \in Requests, Write(p)
    PROVE  SeatInv'
<1>1. /\ req[p] \in RequestType /\ RequestOK(req[p]) /\ row \in [Rooms -> RowType]
      /\ req \in [Requests -> RequestType]
      /\ Holding(p) /\ End(p) /\ At(p, "write") /\ Seated(p) /\ req[p].need = {}
  BY DEF IInv, TypeOK, Write, At, Holding, SeatInv, Seated, Locked
<1>2. req' = [req EXCEPT ![p] = Idle]
  BY <1>1 DEF End, Set
<1>3. \A u \in Users : \A x \in Requests : x # p /\ userLock[u] = x => userLock'[u] = x
  BY <1>1 DEF End, Released, IInv, TypeOK
<1>4. ASSUME NEW r \in Rooms, NEW s,
             Put(r, s), r \in req[p].room \/ (req[p].op = "create" /\ row[r].status = "none"),
             \A u \in Users : Counts(u, s) => Counts(u, row[r]) \/ u \in Asks(req[p])
      PROVE  SeatInv'
  <2>1. row' = [row EXCEPT ![r] = s]
    BY <1>4 DEF Put
  <2>2. \A t \in Rooms : t # r => row'[t] = row[t]
    BY <1>1, <2>1
  <2>3. row'[r] = s
    BY <1>1, <2>1
  <2>4. \A u \in Asks(req[p]) : u \in Users /\ userLock[u] = p
    BY <1>1 DEF Seated, Locked
  <2>5. \A u \in Asks(req[p]) : \A t \in Rooms \ {r} : ~Counts(u, row[t])
    <3>1. CASE r \in req[p].room
      <4>1. req[p].room = {r}
        BY <1>1, <3>1 DEF Seated, Found
      <4>. QED BY <1>1, <4>1 DEF Seated, CheckedFree
    <3>2. CASE req[p].op = "create"
      BY <1>1, <3>2 DEF Seated, Found, CheckedFree
    <3>. QED BY <1>4, <3>1, <3>2
  <2>6. Exclusive'
    <3>. SUFFICES ASSUME NEW u \in Users, NEW q \in Rooms, NEW t \in Rooms,
                         Counts(u, row'[q]), Counts(u, row'[t])
                  PROVE  q = t
      BY DEF Exclusive, Counts
    <3>1. CASE q # r /\ t # r
      BY <2>2, <3>1 DEF SeatInv, Exclusive
    <3>2. ASSUME NEW w \in Rooms, Counts(u, row'[w]), Counts(u, row'[r]) PROVE w = r
      <4>1. Counts(u, row[r]) \/ u \in Asks(req[p])
        BY <1>4, <2>3, <3>2
      <4>. QED BY <2>2, <2>5, <3>2, <4>1 DEF SeatInv, Exclusive
    <3>. QED BY <3>1, <3>2
  <2>7. ASSUME NEW x \in Requests, x # p PROVE Seated(x)'
    <3>1. Seated(x) /\ req'[x] = req[x]
      BY <1>1, <1>2, <2>7 DEF SeatInv
    <3>2. Holding(x) => r \notin req[x].room
      <4>. SUFFICES ASSUME Holding(x), r \in req[x].room PROVE FALSE
        OBVIOUS
      <4>1. r \in req[p].room
        BY <1>4 DEF IInv, RoomsExist
      <4>2. req[p].op # "create" /\ req[x].op # "create"
        BY <1>1, <3>1, <4>1 DEF Seated, Found
      <4>. QED BY <1>1, <2>7, <4>1, <4>2 DEF IInv, SelectHolds, StillTrue
    <3>3. Holding(x) => \A t \in req[x].room : SameSeats(t)
      BY <1>1, <2>2, <3>2 DEF SameSeats, IInv, TypeOK, RequestType
    <3>4. \A t \in Rooms : \A u \in Users :
              Counts(u, row[t])' => Counts(u, row[t]) \/ userLock[u] # x
      <4>. SUFFICES ASSUME NEW t \in Rooms, NEW u \in Users, Counts(u, row'[t]),
                           ~Counts(u, row[t]), userLock[u] = x
                    PROVE  FALSE
        BY DEF Counts
      <4>1. t = r
        BY <2>2
      <4>2. u \in Asks(req[p])
        BY <1>4, <2>3, <4>1
      <4>. QED BY <2>4, <2>7, <4>2
    <3>. QED BY <1>3, <2>7, <3>1, <3>3, <3>4, OthersKeep
  <2>8. ~Holding(p)'
    BY <1>1, <1>2 DEF Holding, Idle
  <2>. QED BY <2>6, <2>7, <2>8, IdleIsSeated DEF SeatInv
<1>5. ASSUME NEW r \in Rooms, row[r].status = "none", Put(r, NewRow(req[p].user)), req[p].op = "create"
      PROVE  SeatInv'
  <2>1. \A u \in Users : Counts(u, NewRow(req[p].user)) => u \in Asks(req[p])
    BY <1>5, RegistryAssumption DEF Counts, NewRow, NoRow, Asks
  <2>. QED BY <1>4, <1>5, <2>1
<1>6. ASSUME NEW r \in req[p].room, req[p].op = "join",
             Put(r, [row[r] EXCEPT !.opponent = req[p].user, !.overdue = FALSE])
      PROVE  SeatInv'
  <2>. DEFINE s == [row[r] EXCEPT !.opponent = req[p].user, !.overdue = FALSE]
  <2>1. r \in Rooms /\ row[r] \in RowType
    BY <1>1 DEF RequestType
  <2>2. s.status = row[r].status /\ s.creator = row[r].creator /\ s.opponent = req[p].user
    BY <2>1 DEF RowType
  <2>. HIDE DEF s
  <2>3. \A u \in Users : Counts(u, s) => Counts(u, row[r]) \/ u \in Asks(req[p])
    BY <1>6, <2>2 DEF Counts, Asks, Active
  <2>. QED BY <1>4, <1>6, <2>1, <2>3 DEF s
<1>7. ASSUME NEW r \in req[p].room, req[p].op = "rematch",
             Put(r, [row[r] EXCEPT !.status = "playing", !.creatorGone = FALSE, !.opponentGone = FALSE])
      PROVE  SeatInv'
  <2>. DEFINE s == [row[r] EXCEPT !.status = "playing", !.creatorGone = FALSE, !.opponentGone = FALSE]
  <2>1. r \in Rooms /\ row[r] \in RowType
    BY <1>1 DEF RequestType
  <2>2. s.creator = row[r].creator /\ s.opponent = row[r].opponent
    BY <2>1 DEF RowType
  <2>. HIDE DEF s
  <2>3. \A u \in Users : Counts(u, s) => u \in Asks(req[p])
    BY <1>7, <2>2 DEF Counts, Asks
  <2>. QED BY <1>4, <1>7, <2>1, <2>3 DEF s
<1>. QED BY <1>5, <1>6, <1>7 DEF Write

\* One row changes that nobody locked, or changes no seats; nobody gets a seat.
LEMMA SeatsLoose ==
    ASSUME IInv, SeatInv,
           NoNewSeats,
           \A r \in Rooms : SameSeats(r) \/ rowLock[r] = NoRequest,
           \A x \in Requests : req'[x] = req[x] \/ ~Holding(x)',
           UNCHANGED <<rowLock, userLock>>
    PROVE  SeatInv'
<1>1. Exclusive'
  BY NoNewSeatsKeep
<1>2. ASSUME NEW x \in Requests PROVE Seated(x)'
  <2>1. CASE ~Holding(x)'
    BY <2>1, IdleIsSeated
  <2>2. CASE req'[x] = req[x]
    <3>1. Holding(x) => \A r \in req[x].room : SameSeats(r)
      <4>. SUFFICES ASSUME Holding(x), NEW r \in req[x].room PROVE SameSeats(r)
        OBVIOUS
      <4>1. r \in Rooms
        BY DEF IInv, TypeOK, RequestType
      <4>2. CASE req[x].op = "create"
        BY <4>2 DEF SeatInv, Seated, Found
      <4>3. CASE req[x].op # "create"
        BY <4>1, <4>3, RegistryAssumption DEF IInv, SelectHolds, StillTrue
      <4>. QED BY <4>2, <4>3
    <3>2. \A r \in Rooms : \A u \in Users :
              Counts(u, row[r])' => Counts(u, row[r]) \/ userLock[u] # x
      BY DEF NoNewSeats
    <3>. QED BY <2>2, <3>1, <3>2, OthersKeep DEF SeatInv
  <2>. QED BY <2>1, <2>2
<1>. QED BY <1>1, <1>2 DEF SeatInv

\* What a statement makes of a row: the same seats, or one less, or none.
Lessens(s, t) ==
    \/ t.status = s.status /\ t.creator = s.creator /\ t.opponent = s.opponent
    \/ t.status \in {"expired", "finished"}
    \/ Active(s) /\ Active(t) /\ t.creator = s.creator /\ t.opponent \in {s.opponent, NoUser}

LEMMA VacatedLessens ==
    ASSUME NEW s \in RowType
    PROVE  /\ Vacated(s).opponent = NoUser
           /\ Active(s) => Lessens(s, Vacated(s))
BY DEF Vacated, Lessens, RowType, Active

LEMMA SeatsPut ==
    ASSUME IInv, SeatInv, NEW r \in Rooms, NEW s, Put(r, s), s \in RowType,
           LateVacates => Lessens(row[r], s) \/ s.opponent = NoUser,
           ~LateVacates => Lessens(row[r], s),
           \/ rowLock[r] = NoRequest
           \/ /\ s.status = row[r].status /\ s.creator = row[r].creator
              /\ s.opponent = row[r].opponent,
           \A x \in Requests : req'[x] = req[x] \/ ~Holding(x)',
           UNCHANGED <<rowLock, userLock>>
    PROVE  SeatInv'
<1>1. row' = [row EXCEPT ![r] = s] /\ row \in [Rooms -> RowType]
  BY DEF Put, IInv, TypeOK
<1>2. row'[r] = s /\ \A t \in Rooms : t # r => row'[t] = row[t]
  BY <1>1
<1>3. \A u \in Users : Counts(u, s) => Counts(u, row[r])
  BY RegistryAssumption DEF Counts, Lessens, Active
<1>4. NoNewSeats
  BY <1>2, <1>3 DEF NoNewSeats, Counts
<1>5. \A t \in Rooms : SameSeats(t) \/ rowLock[t] = NoRequest
  BY <1>2 DEF SameSeats
<1>. QED BY <1>4, <1>5, SeatsLoose

LEMMA SeatsRequestStep ==
    ASSUME IInv, SeatInv, NEW p \in Requests, GetExpires(p) \/ SweepReleases(p)
    PROVE  SeatInv'
<1>1. /\ Set(p, Idle) /\ UNCHANGED <<rowLock, userLock>>
      /\ row \in [Rooms -> RowType] /\ req[p] \in RequestType /\ req \in [Requests -> RequestType]
  BY DEF GetExpires, SweepReleases, IInv, TypeOK
<1>2. \A x \in Requests : req'[x] = req[x] \/ ~Holding(x)'
  BY <1>1 DEF Set, Holding, Idle
<1>3. PICK r \in req[p].room :
          /\ Unlocked(r)
          /\ \/ Put(r, [row[r] EXCEPT !.status = "expired", !.overdue = FALSE])
             \/ Put(r, IF Vacatable(row[r]) THEN Vacated(row[r]) ELSE row[r])
  BY DEF GetExpires, SweepReleases
<1>4. r \in Rooms /\ row[r] \in RowType /\ RowOK(row[r]) /\ row[r].status # "none"
  BY <1>1 DEF IInv, RoomsExist, RequestType
<1>5. CASE Put(r, [row[r] EXCEPT !.status = "expired", !.overdue = FALSE])
  <2>. DEFINE s == [row[r] EXCEPT !.status = "expired", !.overdue = FALSE]
  <2>1. s \in RowType /\ s.status = "expired"
    BY <1>4, RowsAfter
  <2>. HIDE DEF s
  <2>2. Lessens(row[r], s)
    BY <2>1 DEF Lessens
  <2>. QED BY <1>1, <1>2, <1>3, <1>4, <1>5, <2>1, <2>2, SeatsPut DEF Unlocked, s
<1>6. CASE Put(r, IF Vacatable(row[r]) THEN Vacated(row[r]) ELSE row[r])
  <2>. DEFINE s == IF Vacatable(row[r]) THEN Vacated(row[r]) ELSE row[r]
  <2>1. s \in RowType
    BY <1>4, RowsAfter
  <2>2. /\ LateVacates => Lessens(row[r], s) \/ s.opponent = NoUser
        /\ ~LateVacates => Lessens(row[r], s)
    BY <1>4, VacatedLessens DEF Vacatable, Lessens
  <2>. HIDE DEF s
  <2>. QED BY <1>1, <1>2, <1>3, <1>4, <1>6, <2>1, <2>2, SeatsPut DEF Unlocked, s
<1>. QED BY <1>3, <1>5, <1>6

LEMMA SeatsStatement ==
    ASSUME IInv, SeatInv, NEW r \in Rooms, Statement(r)
    PROVE  SeatInv'
<1>1. /\ row \in [Rooms -> RowType] /\ row[r] \in RowType /\ RowOK(row[r])
  BY DEF IInv, TypeOK
<1>2. ASSUME NEW s \in RowType, Put(r, s), UNCHANGED <<rowLock, userLock, req>>,
             LateVacates => Lessens(row[r], s) \/ s.opponent = NoUser,
             ~LateVacates => Lessens(row[r], s),
             \/ rowLock[r] = NoRequest
             \/ /\ s.status = row[r].status /\ s.creator = row[r].creator
                /\ s.opponent = row[r].opponent
      PROVE  SeatInv'
  BY <1>2, SeatsPut
<1>3. ASSUME NEW s \in RowType, Update(r, s), Lessens(row[r], s)
      PROVE  SeatInv'
  BY <1>2, <1>3 DEF Update, Unlocked
<1>4. CASE Leave(r) \/ Release(r)
  <2>1. row[r].status # "none"
    BY <1>1, <1>4 DEF Leave, Release, Disconnected, Live, RowOK
  <2>2. Vacated(row[r]) \in RowType
    BY <1>1, <2>1, RowsAfter
  <2>3. /\ LateVacates => Vacated(row[r]).opponent = NoUser
        /\ ~LateVacates => Lessens(row[r], Vacated(row[r]))
    BY <1>1, <1>4, VacatedLessens DEF Leave, Release, Vacatable
  <2>. QED BY <1>2, <1>4, <2>2, <2>3 DEF Leave, Release, Update, Unlocked
<1>5. CASE Close(r) \/ CloseIfGone(r)
  <2>1. row[r].status # "none"
    BY <1>5 DEF Close, CloseIfGone, Live
  <2>2. Closed(row[r]) \in RowType /\ Lessens(row[r], Closed(row[r]))
    BY <1>1, <2>1, RowsAfter DEF Lessens
  <2>. QED BY <1>3, <1>5, <2>2 DEF Close, CloseIfGone
<1>6. CASE StartRoom(r)
  <2>. DEFINE s == [row[r] EXCEPT !.status = "playing"]
  <2>1. s \in RowType /\ Lessens(row[r], s)
    BY <1>1, <1>6 DEF StartRoom, RowType, Statuses, Lessens, Active
  <2>. HIDE DEF s
  <2>. QED BY <1>3, <1>6, <2>1 DEF StartRoom, s
<1>7. CASE FinishRoom(r)
  <2>. DEFINE s == [row[r] EXCEPT !.status = "finished"]
  <2>1. s \in RowType /\ Lessens(row[r], s)
    BY <1>1 DEF RowType, Statuses, Lessens
  <2>. HIDE DEF s
  <2>. QED BY <1>3, <1>7, <2>1 DEF FinishRoom, s
<1>8. CASE ExpireRoom(r)
  <2>. DEFINE s == [row[r] EXCEPT !.status = "expired", !.overdue = FALSE]
  <2>1. s \in RowType /\ Lessens(row[r], s)
    BY <1>1 DEF RowType, Statuses, Lessens
  <2>. HIDE DEF s
  <2>. QED BY <1>3, <1>8, <2>1 DEF ExpireRoom, s
<1>9. CASE TimePasses(r)
  <2>. DEFINE s == [row[r] EXCEPT !.overdue = TRUE]
  <2>1. /\ s \in RowType
        /\ s.status = row[r].status /\ s.creator = row[r].creator /\ s.opponent = row[r].opponent
    BY <1>1 DEF RowType
  <2>. HIDE DEF s
  <2>2. Lessens(row[r], s)
    BY <2>1 DEF Lessens
  <2>. QED BY <1>2, <1>9, <2>1, <2>2 DEF TimePasses, s
<1>10. ASSUME NEW gone \in BOOLEAN, MarkCreator(r, gone) PROVE SeatInv'
  <2>. DEFINE s == [row[r] EXCEPT !.creatorGone = gone]
  <2>1. s \in RowType /\ Lessens(row[r], s)
    BY <1>1 DEF RowType, Lessens
  <2>. HIDE DEF s
  <2>. QED BY <1>3, <1>10, <2>1 DEF MarkCreator, s
<1>11. ASSUME NEW gone \in BOOLEAN, MarkOpponent(r, gone) PROVE SeatInv'
  <2>. DEFINE s == [row[r] EXCEPT !.opponentGone = gone]
  <2>1. s \in RowType /\ Lessens(row[r], s)
    BY <1>1 DEF RowType, Lessens
  <2>. HIDE DEF s
  <2>. QED BY <1>3, <1>11, <2>1 DEF MarkOpponent, s
<1>. QED BY <1>4, <1>5, <1>6, <1>7, <1>8, <1>9, <1>10, <1>11 DEF Statement

LEMMA SeatsStep == IInv /\ SeatInv /\ [Next]_vars => SeatInv'
<1>. SUFFICES ASSUME IInv, SeatInv, [Next]_vars PROVE SeatInv'
  OBVIOUS
<1>1. CASE UNCHANGED vars
  <2>1. UNCHANGED row /\ UNCHANGED rowLock /\ UNCHANGED userLock /\ UNCHANGED req
    BY <1>1 DEF vars
  <2>. QED BY <2>1, SeatsLoose DEF NoNewSeats, SameSeats, Counts
<1>2. ASSUME NEW p \in Requests, Begin(p) \/ Step(p) \/ Abort(p) PROVE SeatInv'
  BY <1>2, SeatsBegin, SeatsSelect, SeatsLockUser, SeatsCheck, SeatsWrite, SeatsRequestStep, SeatsEnd
     DEF Step, Abort
<1>3. ASSUME NEW r \in Rooms, Statement(r) PROVE SeatInv'
  BY <1>3, SeatsStatement
<1>. QED BY <1>1, <1>2, <1>3 DEF Next

\* The invariants hold in every reachable state, for any number of rooms, users and requests.
THEOREM SeatInvariance == Spec => [](IInv /\ SeatInv)
<1>1. Init => IInv /\ SeatInv
  BY InitHolds, SeatsInit
<1>2. IInv /\ SeatInv /\ [Next]_vars => IInv' /\ SeatInv'
  BY StepHolds, SeatsStep
<1>. QED BY <1>1, <1>2, PTL DEF Spec

\* Whatever the code does, a user is the opponent in at most one active room: to
\* become one takes a check under the user's lock, and only creators come back
\* with rooms that were over.
JoinedOnce ==
    \A u \in Users : \A q, r \in Rooms :
        /\ Active(row[q]) /\ row[q].opponent = u
        /\ Active(row[r]) /\ row[r].opponent = u
        => q = r

\* Creates, joins and rematches that overlap never make a user the opponent in a second room.
THEOREM OpponentsJoinOnce == Spec => []JoinedOnce
<1>1. SeatInv => JoinedOnce
  BY DEF SeatInv, Exclusive, Counts, JoinedOnce
<1>. QED BY <1>1, SeatInvariance, PTL

\* Nobody is in two active rooms, as long as no seat is vacated in a room that
\* is over: that is the one way in.
THEOREM NobodyInTwoRooms ==
    ASSUME ~LateVacates
    PROVE  Spec => []OneActiveRoom
<1>1. SeatInv => OneActiveRoom
  BY DEF SeatInv, Exclusive, Counts, Sits, OneActiveRoom
<1>. QED BY <1>1, SeatInvariance, PTL

-----------------------------------------------------------------------------
(***************************************************************************)
(* The rooms implement RoomSeats, as long as no seat is vacated in a room  *)
(* that is over: a transaction of many steps is one decision, which its    *)
(* Write takes on the rooms as they are.                                   *)
(***************************************************************************)
SeatOf(s) == [status |-> s.status, creator |-> s.creator, opponent |-> s.opponent]
SeatMap == [r \in Rooms |-> SeatOf(row[r])]

LEMMA InitMaps == Init => Seats!Init
BY DEF Init, Seats!Init, NoRow

\* A row that is written changes its seats alone.
LEMMA PutMaps ==
    ASSUME IInv, NEW r \in Rooms, NEW s \in RowType, Put(r, s)
    PROVE  SeatMap' = [SeatMap EXCEPT ![r] = SeatOf(s)]
<1>1. row' = [row EXCEPT ![r] = s] /\ row \in [Rooms -> RowType]
  BY DEF Put, IInv, TypeOK
<1>. QED BY <1>1 DEF SeatMap, SeatOf

\* Where the seats of a row stay, all do.
LEMMA PutStutters ==
    ASSUME IInv, NEW r \in Rooms, NEW s \in RowType, Put(r, s), SeatOf(s) = SeatOf(row[r])
    PROVE  SeatMap' = SeatMap
<1>1. row' = [row EXCEPT ![r] = s] /\ row \in [Rooms -> RowType]
  BY DEF Put, IInv, TypeOK
<1>. QED BY <1>1 DEF SeatMap

\* What CheckedFree says in the terms of RoomSeats.
LEMMA FreeMaps ==
    ASSUME ~LateVacates, NEW r \in Rooms, NEW u,
           \A q \in Rooms \ {r} : ~Counts(u, row[q])
    PROVE  Seats!FreeBut(u, r)
BY DEF Counts, Active, Seats!FreeBut, Seats!Active, Seats!Sits

LEMMA WriteMaps ==
    ASSUME IInv, SeatInv, ~LateVacates, NEW p \in Requests, Write(p)
    PROVE  Seats!Next
<1>1. /\ req[p] \in RequestType /\ RequestOK(req[p]) /\ row \in [Rooms -> RowType]
      /\ Holding(p) /\ At(p, "write") /\ Seated(p)
  BY DEF IInv, TypeOK, Write, At, Holding, SeatInv
<1>2. ASSUME NEW r \in Rooms, row[r].status = "none", Put(r, NewRow(req[p].user)), req[p].op = "create"
      PROVE  Seats!Next
  <2>. DEFINE u == req[p].user
  <2>1. u \in Users /\ u \in Asks(req[p])
    BY <1>1, <1>2 DEF RequestOK, RequestType, Asks
  <2>2. \A q \in Rooms \ {r} : ~Counts(u, row[q])
    BY <1>1, <1>2, <2>1 DEF Seated, Found, CheckedFree
  <2>3. Seats!FreeBut(u, r)
    BY <2>2, FreeMaps
  <2>4. /\ NewRow(u) \in RowType
        /\ SeatOf(NewRow(u)) = [status |-> "waiting", creator |-> u, opponent |-> NoUser]
    BY <2>1 DEF NewRow, NoRow, RowType, Statuses, SeatOf
  <2>5. SeatMap' = [SeatMap EXCEPT ![r] = [status |-> "waiting", creator |-> u, opponent |-> NoUser]]
    BY <1>2, <2>4, PutMaps
  <2>6. Seats!Open(u, r)
    BY <1>2, <2>3, <2>5 DEF Seats!Open, Seats!Put, SeatMap, SeatOf
  <2>. QED BY <2>1, <2>6 DEF Seats!Next
<1>3. ASSUME NEW r \in req[p].room, req[p].op = "join",
             Put(r, [row[r] EXCEPT !.opponent = req[p].user, !.overdue = FALSE])
      PROVE  Seats!Next
  <2>. DEFINE u == req[p].user
  <2>. DEFINE s == [row[r] EXCEPT !.opponent = req[p].user, !.overdue = FALSE]
  <2>1. /\ r \in Rooms /\ row[r] \in RowType /\ req[p].room = {r} /\ u \in Users /\ u \in Asks(req[p])
        /\ row[r].status = "waiting" /\ row[r].opponent = NoUser /\ row[r].creator # u
    BY <1>1, <1>3 DEF IInv, SelectHolds, StillTrue, Seated, Found, RequestOK, RequestType, Asks
  <2>2. \A q \in Rooms \ {r} : ~Counts(u, row[q])
    BY <1>1, <2>1 DEF Seated, CheckedFree
  <2>3. Seats!FreeBut(u, r)
    BY <2>1, <2>2, FreeMaps
  <2>7. /\ s \in RowType
        /\ s.status = row[r].status /\ s.creator = row[r].creator /\ s.opponent = u
    BY <2>1 DEF RowType
  <2>. HIDE DEF s
  <2>4. SeatOf(s) = [SeatOf(row[r]) EXCEPT !.opponent = u]
    BY <2>7 DEF SeatOf
  <2>5. SeatMap' = [SeatMap EXCEPT ![r] = [SeatOf(row[r]) EXCEPT !.opponent = u]]
    BY <1>3, <2>1, <2>4, <2>7, PutMaps DEF s
  <2>6. Seats!Sit(u, r)
    BY <2>1, <2>3, <2>5 DEF Seats!Sit, Seats!Put, SeatMap, SeatOf
  <2>. QED BY <2>1, <2>6 DEF Seats!Next
<1>4. ASSUME NEW r \in req[p].room, req[p].op = "rematch",
             Put(r, [row[r] EXCEPT !.status = "playing", !.creatorGone = FALSE, !.opponentGone = FALSE])
      PROVE  Seats!Next
  <2>. DEFINE s == [row[r] EXCEPT !.status = "playing", !.creatorGone = FALSE, !.opponentGone = FALSE]
  <2>1. /\ r \in Rooms /\ row[r] \in RowType /\ req[p].room = {r}
        /\ row[r].creator \in Asks(req[p]) /\ row[r].opponent \in Asks(req[p])
        /\ row[r].status = "finished"
    BY <1>1, <1>4 DEF Seated, Found, RequestType, Asks
  <2>2. \A u \in {row[r].creator, row[r].opponent} : \A q \in Rooms \ {r} : ~Counts(u, row[q])
    BY <1>1, <2>1 DEF Seated, CheckedFree
  <2>3. Seats!FreeBut(row[r].creator, r) /\ Seats!FreeBut(row[r].opponent, r)
    BY <2>1, <2>2, FreeMaps
  <2>7. /\ s \in RowType
        /\ s.status = "playing" /\ s.creator = row[r].creator /\ s.opponent = row[r].opponent
    BY <2>1 DEF RowType, Statuses
  <2>. HIDE DEF s
  <2>4. SeatOf(s) = [SeatOf(row[r]) EXCEPT !.status = "playing"]
    BY <2>7 DEF SeatOf
  <2>5. SeatMap' = [SeatMap EXCEPT ![r] = [SeatOf(row[r]) EXCEPT !.status = "playing"]]
    BY <1>4, <2>1, <2>4, <2>7, PutMaps DEF s
  <2>6. Seats!PlayAgain(r)
    BY <2>1, <2>3, <2>5 DEF Seats!PlayAgain, Seats!Put, SeatMap, SeatOf
  <2>. QED BY <2>1, <2>6 DEF Seats!Next
<1>. QED BY <1>2, <1>3, <1>4 DEF Write

\* A seat is vacated, a room is closed or expires.
LEMMA VacatedMaps ==
    ASSUME IInv, NEW r \in Rooms, Active(row[r]), row[r].opponent # NoUser, Put(r, Vacated(row[r]))
    PROVE  Seats!Next
<1>1. row[r] \in RowType /\ RowOK(row[r]) /\ row[r].status # "none"
  BY DEF IInv, TypeOK, Active
<1>5. /\ Vacated(row[r]) \in RowType
      /\ Vacated(row[r]).status = "waiting" /\ Vacated(row[r]).creator = row[r].creator
      /\ Vacated(row[r]).opponent = NoUser
  BY <1>1 DEF Vacated, RowType, Statuses
<1>6. SeatOf(Vacated(row[r]))
        = [status |-> "waiting", creator |-> row[r].creator, opponent |-> NoUser]
  BY <1>5 DEF SeatOf
<1>. DEFINE half == [SeatOf(row[r]) EXCEPT !.status = "waiting"]
<1>7. /\ half = [status |-> "waiting", creator |-> row[r].creator, opponent |-> row[r].opponent]
      /\ [SeatOf(row[r]) EXCEPT !.status = "waiting", !.opponent = NoUser]
            = [half EXCEPT !.opponent = NoUser]
  BY DEF SeatOf
<1>. HIDE DEF half
<1>8. [half EXCEPT !.opponent = NoUser]
        = [status |-> "waiting", creator |-> row[r].creator, opponent |-> NoUser]
  BY <1>7
<1>2. SeatOf(Vacated(row[r])) = [SeatOf(row[r]) EXCEPT !.status = "waiting", !.opponent = NoUser]
  BY <1>6, <1>7, <1>8
<1>3. SeatMap' = [SeatMap EXCEPT ![r] = [SeatOf(row[r]) EXCEPT !.status = "waiting", !.opponent = NoUser]]
  BY <1>2, <1>5, PutMaps
<1>4. Seats!StandUp(r)
  BY <1>3 DEF Seats!StandUp, Seats!Put, Seats!Active, Active, SeatMap, SeatOf
<1>. QED BY <1>4 DEF Seats!Next

LEMMA ClosedMaps ==
    ASSUME IInv, NEW r \in Rooms, row[r].status # "none", NEW s \in RowType, Put(r, s),
           SeatOf(s) = [SeatOf(row[r]) EXCEPT !.status = "expired"]
    PROVE  Seats!Next
<1>1. SeatMap' = [SeatMap EXCEPT ![r] = [SeatOf(row[r]) EXCEPT !.status = "expired"]]
  BY PutMaps
<1>2. Seats!Close(r)
  BY <1>1 DEF Seats!Close, Seats!Put, SeatMap, SeatOf
<1>. QED BY <1>2 DEF Seats!Next

LEMMA ExpiredSeat ==
    ASSUME NEW s \in RowType
    PROVE  /\ Closed(s) \in RowType
           /\ SeatOf(Closed(s)) = [SeatOf(s) EXCEPT !.status = "expired"]
           /\ [s EXCEPT !.status = "expired", !.overdue = FALSE] \in RowType
           /\ SeatOf([s EXCEPT !.status = "expired", !.overdue = FALSE])
                 = [SeatOf(s) EXCEPT !.status = "expired"]
<1>1. /\ Closed(s) \in RowType
      /\ Closed(s).status = "expired" /\ Closed(s).creator = s.creator
      /\ Closed(s).opponent = s.opponent
  BY DEF Closed, RowType, Statuses
<1>. DEFINE t == [s EXCEPT !.status = "expired", !.overdue = FALSE]
<1>2. /\ t \in RowType
      /\ t.status = "expired" /\ t.creator = s.creator /\ t.opponent = s.opponent
  BY DEF RowType, Statuses
<1>. HIDE DEF t
<1>3. SeatOf(Closed(s)) = [SeatOf(s) EXCEPT !.status = "expired"]
  BY <1>1 DEF SeatOf
<1>4. SeatOf(t) = [SeatOf(s) EXCEPT !.status = "expired"]
  BY <1>2 DEF SeatOf
<1>. QED BY <1>1, <1>2, <1>3, <1>4 DEF t

LEMMA LooseMaps ==
    ASSUME IInv, ~LateVacates, NEW p \in Requests, GetExpires(p) \/ SweepReleases(p)
    PROVE  Seats!Next \/ SeatMap' = SeatMap
<1>1. PICK r \in req[p].room :
          \/ Put(r, [row[r] EXCEPT !.status = "expired", !.overdue = FALSE])
          \/ Put(r, IF Vacatable(row[r]) THEN Vacated(row[r]) ELSE row[r])
  BY DEF GetExpires, SweepReleases
<1>2. r \in Rooms /\ row[r] \in RowType /\ RowOK(row[r]) /\ row[r].status # "none"
  BY DEF IInv, TypeOK, RoomsExist, RequestType
<1>3. CASE Put(r, [row[r] EXCEPT !.status = "expired", !.overdue = FALSE])
  BY <1>2, <1>3, ExpiredSeat, ClosedMaps
<1>4. CASE Put(r, IF Vacatable(row[r]) THEN Vacated(row[r]) ELSE row[r])
  <2>1. CASE ~Active(row[r])
    BY <1>2, <1>4, <2>1, PutStutters DEF Vacatable
  <2>2. CASE Active(row[r]) /\ row[r].opponent # NoUser
    BY <1>2, <1>4, <2>2, VacatedMaps DEF Vacatable
  <2>3. CASE Active(row[r]) /\ row[r].opponent = NoUser
    <3>1. row[r].status = "waiting"
      BY <1>2, <2>3 DEF Active, RowOK
    <3>2. Vacated(row[r]) \in RowType /\ SeatOf(Vacated(row[r])) = SeatOf(row[r])
      BY <1>2, <2>3, <3>1 DEF Vacated, RowType, Statuses, SeatOf
    <3>. QED BY <1>2, <1>4, <2>3, <3>2, PutStutters DEF Vacatable
  <2>. QED BY <2>1, <2>2, <2>3
<1>. QED BY <1>1, <1>3, <1>4

LEMMA StatementMaps ==
    ASSUME IInv, ~LateVacates, NEW r \in Rooms, Statement(r)
    PROVE  Seats!Next \/ SeatMap' = SeatMap
<1>1. row \in [Rooms -> RowType] /\ row[r] \in RowType /\ RowOK(row[r])
  BY DEF IInv, TypeOK
<1>2. CASE Leave(r) \/ Release(r)
  BY <1>1, <1>2, VacatedMaps DEF Leave, Release, Disconnected, Vacatable, Update
<1>3. CASE Close(r) \/ CloseIfGone(r)
  <2>1. row[r].status # "none"
    BY <1>3 DEF Close, CloseIfGone, Live
  <2>. QED BY <1>1, <1>3, <2>1, ExpiredSeat, ClosedMaps DEF Close, CloseIfGone, Update
<1>4. CASE StartRoom(r)
  <2>. DEFINE s == [row[r] EXCEPT !.status = "playing"]
  <2>1. s \in RowType /\ SeatOf(s) = [SeatOf(row[r]) EXCEPT !.status = "playing"]
    BY <1>1 DEF RowType, Statuses, SeatOf
  <2>. HIDE DEF s
  <2>2. SeatMap' = [SeatMap EXCEPT ![r] = [SeatOf(row[r]) EXCEPT !.status = "playing"]]
    BY <1>4, <2>1, PutMaps DEF StartRoom, Update, s
  <2>3. Seats!Start(r)
    BY <1>4, <2>2 DEF StartRoom, Seats!Start, Seats!Put, SeatMap, SeatOf
  <2>. QED BY <2>3 DEF Seats!Next
<1>5. CASE FinishRoom(r)
  <2>. DEFINE s == [row[r] EXCEPT !.status = "finished"]
  <2>1. s \in RowType /\ SeatOf(s) = [SeatOf(row[r]) EXCEPT !.status = "finished"]
    BY <1>1 DEF RowType, Statuses, SeatOf
  <2>. HIDE DEF s
  <2>2. SeatMap' = [SeatMap EXCEPT ![r] = [SeatOf(row[r]) EXCEPT !.status = "finished"]]
    BY <1>5, <2>1, PutMaps DEF FinishRoom, Update, s
  <2>3. Seats!Finish(r)
    BY <1>5, <2>2 DEF FinishRoom, Seats!Finish, Seats!Put, SeatMap, SeatOf
  <2>. QED BY <2>3 DEF Seats!Next
<1>6. CASE ExpireRoom(r)
  <2>1. row[r].status # "none"
    BY <1>6 DEF ExpireRoom, Open
  <2>. QED BY <1>1, <1>6, <2>1, ExpiredSeat, ClosedMaps DEF ExpireRoom, Update
<1>7. CASE TimePasses(r)
  <2>. DEFINE s == [row[r] EXCEPT !.overdue = TRUE]
  <2>1. s \in RowType /\ SeatOf(s) = SeatOf(row[r])
    BY <1>1 DEF RowType, SeatOf
  <2>. HIDE DEF s
  <2>. QED BY <1>7, <2>1, PutStutters DEF TimePasses, s
<1>8. ASSUME NEW gone \in BOOLEAN, MarkCreator(r, gone) PROVE SeatMap' = SeatMap
  <2>. DEFINE s == [row[r] EXCEPT !.creatorGone = gone]
  <2>1. s \in RowType /\ SeatOf(s) = SeatOf(row[r])
    BY <1>1 DEF RowType, SeatOf
  <2>. HIDE DEF s
  <2>. QED BY <1>8, <2>1, PutStutters DEF MarkCreator, Update, s
<1>9. ASSUME NEW gone \in BOOLEAN, MarkOpponent(r, gone) PROVE SeatMap' = SeatMap
  <2>. DEFINE s == [row[r] EXCEPT !.opponentGone = gone]
  <2>1. s \in RowType /\ SeatOf(s) = SeatOf(row[r])
    BY <1>1 DEF RowType, SeatOf
  <2>. HIDE DEF s
  <2>. QED BY <1>9, <2>1, PutStutters DEF MarkOpponent, Update, s
<1>. QED BY <1>2, <1>3, <1>4, <1>5, <1>6, <1>7, <1>8, <1>9 DEF Statement

LEMMA StepMaps ==
    ASSUME IInv, SeatInv, ~LateVacates, [Next]_vars
    PROVE  Seats!Next \/ SeatMap' = SeatMap
<1>1. CASE row' = row
  BY <1>1 DEF SeatMap
<1>2. ASSUME NEW p \in Requests, Begin(p) \/ Step(p) \/ Abort(p)
      PROVE  Seats!Next \/ SeatMap' = SeatMap
  <2>1. CASE Write(p)
    BY <2>1, WriteMaps
  <2>2. CASE GetExpires(p) \/ SweepReleases(p)
    BY <2>2, LooseMaps
  <2>3. CASE Begin(p) \/ Abort(p) \/ Select(p) \/ LockUser(p) \/ Check(p)
    <3>1. row' = row
      BY <2>3 DEF Begin, BeginCreate, BeginJoin, BeginRematch, Get, Sweep, Abort, Select, LockUser,
                  Check
    <3>. QED BY <1>1, <3>1
  <2>. QED BY <1>2, <2>1, <2>2, <2>3 DEF Step
<1>3. ASSUME NEW r \in Rooms, Statement(r) PROVE Seats!Next \/ SeatMap' = SeatMap
  BY <1>3, StatementMaps
<1>. QED BY <1>1, <1>2, <1>3 DEF Next, vars

\* What happens in many steps among other requests is one decision of RoomSeats, as
\* long as no seat is vacated in a room that is over.
THEOREM RegistryImplementsSeats ==
    ASSUME ~LateVacates
    PROVE  Spec => ImplementsSeats
<1>1. IInv /\ SeatInv /\ [Next]_vars => Seats!Next \/ SeatMap' = SeatMap
  BY StepMaps
<1>2. Seats!Next \/ SeatMap' = SeatMap => [Seats!Next]_SeatMap
  OBVIOUS
<1>. QED BY InitMaps, <1>1, <1>2, SeatInvariance, PTL DEF Spec, ImplementsSeats, Seats!Spec, SeatMap, SeatOf
===============================================================================
