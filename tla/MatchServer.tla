---------------------------- MODULE MatchServer ----------------------------
(***************************************************************************)
(* The lobby service as the referee of one room's matches: the canonical   *)
(* snapshot in its cache and in room_match_states, the mutex matchStateMu, *)
(* the three kinds of timers, and the goroutines that work on them: one    *)
(* per participant's WebSocket, those of fired timers, and one that takes  *)
(* a player out of the room or closes it.  Goroutines interleave wherever  *)
(* the code reads or writes the cache or the database.                     *)
(***************************************************************************)
EXTENDS MatchRules

CONSTANTS
    Opponent,       \* the user that takes the opponent's slot
    Goroutines,     \* goroutines of fired timers (time.AfterFunc)
    Leaver,         \* the goroutine of a leave, close or release
    NoWorker,       \* holder of a free matchStateMu
    RetryDelay,     \* matchReconcileRetryDelay
    Stalls,         \* may a goroutine lag behind a deadline, or behind a new opponent?
    CueStates,      \* do clients send cue_state, which reads without matchStateMu?
    MaxTurns,       \* bound: no shot starts and time stands still at this turn
    Budget          \* bound: how often each kind of event below may happen

Events == {"start", "rematch", "leave", "crash", "writeFault", "readFault"}
Users  == {Creator, Opponent}
Workers == Users \cup Goroutines \cup {Leaver}
Kinds  == {"prepare", "turn", "shot"}

ASSUME ServerAssumption ==
    /\ Opponent \notin {Creator, NoUser}
    /\ Leaver \notin Users \cup Goroutines
    /\ Goroutines \cap Users = {}
    /\ NoWorker \notin Workers
    /\ RetryDelay \in Nat \ {0}
    /\ {Stalls, CueStates} \subseteq BOOLEAN
    /\ MaxTurns \in Nat \ {0}
    /\ Budget \in [Events -> Nat]

VARIABLES
    now,        \* time.Now().UnixMilli()
    room,       \* the row of rooms: status and opponent_id
    stored,     \* the row of room_match_states
    cache,      \* h.snapshots[roomID]
    timer,      \* h.prepareTimers, h.turnTimers, h.shotTimers at roomID
    requested,  \* h.rematches: who asked for a rematch
    lock,       \* who holds h.matchStateMu
    work,       \* where each goroutine is, and what it holds
    dealt,      \* history: the running match has had its first snapshot stored
    budget      \* what is left of Budget

vars == <<now, room, stored, cache, timer, requested, lock, work, dealt, budget>>

NoTimer == [seq |-> 0, deadline |-> 0, at |-> 0]
NoRoom  == [status |-> "none", opponent |-> NoUser]
Idle    == [pc |-> "idle", job |-> "none", seq |-> 0, room |-> NoRoom, snap |-> NoSnapshot]

Init ==
    /\ now = 1
    /\ room = [status |-> "waiting", opponent |-> NoUser]
    /\ stored = NoSnapshot
    /\ cache = NoSnapshot
    /\ timer = [k \in Kinds |-> NoTimer]
    /\ requested = {}
    /\ lock = NoWorker
    /\ work = [w \in Workers |-> Idle]
    /\ dealt = FALSE
    /\ budget = Budget

Spend(event) ==
    /\ budget[event] > 0
    /\ budget' = [budget EXCEPT ![event] = @ - 1]

At(w, pc)        == work[w].pc = pc
Set(w, r)        == work' = [work EXCEPT ![w] = r]
Goto(w, pc)      == Set(w, [work[w] EXCEPT !.pc = pc])
Done(w)          == Set(w, Idle)
IsTimerJob(job)  == job \in Kinds
Reconciles(job)  == IsTimerJob(job) \/ job = "reconcile"

-----------------------------------------------------------------------------
(***************************************************************************)
(* Timers.  A timer that is already set for the same turn (and deadline)   *)
(* or the same shot is left alone.                                         *)
(***************************************************************************)
Armed(t) == t.at > 0

delayed(deadline) == IF deadline > now THEN deadline ELSE now

cancelled(kinds) == [k \in Kinds |-> IF k \in kinds THEN NoTimer ELSE timer[k]]

syncTimer(t, seq, deadline, at) ==
    IF Armed(t) /\ t.seq = seq /\ t.deadline = deadline
    THEN t
    ELSE [seq |-> seq, deadline |-> deadline, at |-> delayed(at)]

PhaseOf(s) ==
    CASE Undecided(s, "moving") /\ s.shooter # NoUser      -> "shot"
      [] Undecided(s, "aiming") /\ turnClockStarted(s)     -> "turn"
      [] Undecided(s, "aiming") /\ ~turnClockStarted(s)    -> "prepare"
      [] OTHER                                             -> "over"

syncedTimer(k, s) ==
    CASE k = "prepare" -> syncTimer(timer[k], s.turnSeq, 0, s.updatedAt + PrepareTime)
      [] k = "turn"    -> syncTimer(timer[k], s.turnSeq, s.turnDeadline, s.turnDeadline)
      [] k = "shot"    -> syncTimer(timer[k], s.shotSeq, 0, shotResultDeadline(s))

\* Mutant: a shot that starts is not timed.
syncTurnTimers(s) ==
    [k \in Kinds |-> IF k = PhaseOf(s) /\ k # "shot" THEN syncedTimer(k, s) ELSE NoTimer]

syncMatchTimers(s) ==
    [k \in Kinds |-> IF k = PhaseOf(s) THEN syncedTimer(k, s) ELSE NoTimer]

rescheduled(k, seq) ==
    [timer EXCEPT ![k] = [seq |-> seq, deadline |-> 0, at |-> now + RetryDelay]]

(***************************************************************************)
(* The cache takes only a snapshot that is newer than the one it holds.    *)
(***************************************************************************)
setCachedSnapshotAccepts(s) == ~Exists(cache) \/ snapshotIsNewer(s, cache)

clearCachedSnapshot == cache' = NoSnapshot /\ timer' = cancelled(Kinds)

-----------------------------------------------------------------------------
(***************************************************************************)
(* The room's row, and the requests that go to it before matchStateMu.     *)
(***************************************************************************)

\* JoinRoom.  Unless Stalls, every goroutine of before is done by then.
Join ==
    /\ room.status = "waiting" /\ room.opponent = NoUser
    /\ Stalls \/ \A w \in Workers : At(w, "idle")
    /\ room' = [room EXCEPT !.opponent = Opponent]
    /\ UNCHANGED <<now, stored, cache, timer, requested, lock, work, dealt, budget>>

\* match_start: StartRoom, then the goroutine waits for matchStateMu.
StartMatch ==
    /\ At(Creator, "idle")
    /\ room.status = "waiting" /\ room.opponent # NoUser
    /\ Spend("start")
    /\ room' = [room EXCEPT !.status = "playing"]
    /\ Set(Creator, [Idle EXCEPT !.pc = "clear", !.job = "match_start", !.room = room'])
    /\ dealt' = FALSE
    /\ UNCHANGED <<now, stored, cache, timer, requested, lock>>

\* rematch_request, up to the answer of rematchStore.Request.
RequestRematch(u) ==
    /\ At(u, "idle")
    /\ room.status = "finished" /\ isRoomParticipant(room, u)
    /\ budget["rematch"] > 0
    /\ requested' = requested \cup {u}
    /\ IF Users \subseteq requested'
       THEN Set(u, [Idle EXCEPT !.pc = "restart", !.job = "rematch_request", !.room = room])
       ELSE UNCHANGED work
    /\ UNCHANGED <<now, room, stored, cache, timer, lock, dealt, budget>>

\* rematch_request: StartRematchRoom and, when it starts, ClearRoom.
Restart(u) ==
    /\ At(u, "restart")
    /\ \/ /\ room.status = "finished" /\ room.opponent # NoUser
          /\ Spend("rematch")
          /\ room' = [room EXCEPT !.status = "playing"]
          /\ requested' = {}
          /\ dealt' = FALSE
          /\ Set(u, [work[u] EXCEPT !.pc = "clear", !.room = room'])
       \/ /\ \/ room.status # "finished" /\ UNCHANGED budget
             \/ Spend("writeFault")
          /\ Done(u)
          /\ UNCHANGED <<room, requested, dealt>>
    /\ UNCHANGED <<now, stored, cache, timer, lock>>

\* The opponent leaves, or is released after its disconnection: LeaveRoom,
\* ReleaseOpponentIfDisconnected.  The creator leaves, closes the room or is
\* gone too long: LeaveRoom, CloseRoom, CloseRoomIfCreatorDisconnected.
Leave(role) ==
    /\ At(Leaver, "idle")
    /\ Spend("leave")
    /\ \/ /\ role = "opponent" /\ room.opponent # NoUser
          /\ room' = [status |-> "waiting", opponent |-> NoUser]
       \/ /\ role = "creator" /\ room.status # "expired"
          /\ room' = [room EXCEPT !.status = "expired"]
    /\ Set(Leaver, [Idle EXCEPT !.pc = "clear", !.job = "leave"])
    /\ UNCHANGED <<now, stored, cache, timer, requested, lock, dealt>>

\* rematches.ClearRoom and clearCanonicalSnapshot, outside matchStateMu: first
\* the cache and the timers, then the row; an error of the delete is logged.
LeaveClears ==
    /\ At(Leaver, "clear")
    /\ requested' = {}
    /\ clearCachedSnapshot
    /\ Goto(Leaver, "delete")
    /\ UNCHANGED <<now, room, stored, lock, dealt, budget>>

LeaveDeletes ==
    /\ At(Leaver, "delete")
    /\ \/ stored' = NoSnapshot /\ UNCHANGED budget
       \/ UNCHANGED stored /\ Spend("writeFault")
    /\ Done(Leaver)
    /\ UNCHANGED <<now, room, cache, timer, requested, lock, dealt>>

-----------------------------------------------------------------------------
(***************************************************************************)
(* Who goes for matchStateMu.                                              *)
(***************************************************************************)

\* A participant's message reaches handleRoomClientEvent, which reads the room;
\* the gameplay messages and request_game_state reconcile first.  When the read
\* fails the message is handled on the copy of the room that its socket has: one
\* of a match, maybe of one before, or it is refused.
Reconciling(r) == [Idle EXCEPT !.pc = "enter", !.job = "reconcile", !.room = r]
CopyOfMatch == [status |-> "playing", opponent |-> Opponent]

Receive(u) ==
    /\ At(u, "idle")
    /\ \/ /\ room.status = "playing" /\ isRoomParticipant(room, u)
          /\ Set(u, Reconciling(room))
          /\ UNCHANGED budget
       \/ /\ budget["start"] < Budget["start"]
          /\ Spend("readFault")
          /\ Set(u, Reconciling(CopyOfMatch))
    /\ UNCHANGED <<now, room, stored, cache, timer, requested, lock, dealt>>

\* handlePrepareTimer, handleTurnTimer, handleShotTimer, up to reconcileMatchState.
Fire(g, k) ==
    /\ At(g, "idle")
    /\ Armed(timer[k]) /\ now >= timer[k].at
    /\ \/ /\ room.status = "playing"
          /\ timer' = cancelled({k})
          /\ Set(g, [Idle EXCEPT !.pc = "enter", !.job = k, !.seq = timer[k].seq,
                                 !.room = room])
          /\ UNCHANGED budget
       \/ /\ room.status # "playing"
          /\ timer' = cancelled({k})
          /\ UNCHANGED <<work, budget>>
       \/ /\ Spend("readFault")
          /\ timer' = rescheduled(k, timer[k].seq)
          /\ UNCHANGED work
    /\ UNCHANGED <<now, room, stored, cache, requested, lock, dealt>>

(***************************************************************************)
(* The end of a locked section.  A timer's goroutine that failed tries     *)
(* again; a message that failed is dropped.                                *)
(***************************************************************************)
Unlock == lock' = NoWorker

FailWith(w, timers) ==
    /\ Unlock
    /\ Done(w)
    /\ timer' = IF IsTimerJob(work[w].job)
                THEN [timers EXCEPT ![work[w].job] =
                         [seq |-> work[w].seq, deadline |-> 0, at |-> now + RetryDelay]]
                ELSE timers

AfterSection(w, s) ==
    CASE work[w].job = "reconcile"                              -> [work[w] EXCEPT !.pc = "event", !.snap = NoSnapshot]
      [] work[w].job = "shot_result" /\ s.winner # NoUser       -> [work[w] EXCEPT !.pc = "finish"]
      [] OTHER                                                  -> Idle

\* storeCanonicalSnapshot, its first half: setCachedSnapshot, or failure.
Stage(w, s, pc) ==
    \/ /\ setCachedSnapshotAccepts(s)
       /\ cache' = s
       /\ Set(w, [work[w] EXCEPT !.pc = pc, !.snap = s])
       /\ UNCHANGED <<timer, lock>>
    \/ /\ ~setCachedSnapshotAccepts(s)
       /\ FailWith(w, timer)
       /\ UNCHANGED cache

\* ensureCanonicalSnapshot without a snapshot: a new one if the room, as this
\* goroutine read it, is playing.  shot_result_submitted takes none.
NoCanonicalSnapshot(w) ==
    \/ /\ work[w].job # "shot_result"
       /\ Stage(w, newInitialMatchSnapshot(now), "create")
    \/ /\ work[w].job = "shot_result"
       /\ FailWith(w, timer)
       /\ UNCHANGED cache

-----------------------------------------------------------------------------
(***************************************************************************)
(* The locked sections.                                                    *)
(***************************************************************************)

\* Lock and look into the cache.
Enter(w) ==
    /\ At(w, "enter") /\ lock = NoWorker
    /\ lock' = w
    /\ IF Exists(cache)
       THEN Set(w, [work[w] EXCEPT !.pc = "decide", !.snap = cache])
       ELSE Goto(w, "load")
    /\ UNCHANGED <<now, room, stored, cache, timer, requested, dealt, budget>>

\* Mutant: the database is not asked after a miss.
LoadIgnoresRow(w) ==
    /\ At(w, "load")
    /\ NoCanonicalSnapshot(w)
    /\ UNCHANGED <<now, room, stored, requested, dealt, budget>>

\* getCanonicalSnapshot: GetMatchSnapshot after a miss.  "No such row" and a
\* failed read are one answer to ensureCanonicalSnapshot.
Load(w) ==
    /\ At(w, "load")
    /\ \/ /\ Exists(stored)
          /\ Set(w, [work[w] EXCEPT !.pc = "fill", !.snap = stored])
          /\ UNCHANGED <<cache, timer, lock, budget>>
       \/ /\ ~Exists(stored)
          /\ NoCanonicalSnapshot(w)
          /\ UNCHANGED budget
       \/ /\ Exists(stored) /\ Spend("readFault")
          /\ NoCanonicalSnapshot(w)
    /\ UNCHANGED <<now, room, stored, requested, dealt>>

\* getCanonicalSnapshot: setCachedSnapshot of the row that was read.
Fill(w) ==
    /\ At(w, "fill")
    /\ \/ /\ setCachedSnapshotAccepts(work[w].snap)
          /\ cache' = work[w].snap
          /\ Goto(w, "decide")
          /\ UNCHANGED <<timer, lock>>
       \/ /\ ~setCachedSnapshotAccepts(work[w].snap)
          /\ NoCanonicalSnapshot(w)
    /\ UNCHANGED <<now, room, stored, requested, dealt, budget>>

\* reconcileMatchState: the one clock that ran out, or only the timers.
reconcileDue(s) ==
    isTurnExpired(s, now) \/ turnPrepareDue(s, now) \/ shotResultExpired(s, now)

reconciled(r, s) ==
    CASE isTurnExpired(s, now)     -> applyTurnTimeout(r, s, now)
      [] turnPrepareDue(s, now)    -> startTurnClock(s, now)
      [] shotResultExpired(s, now) -> applyShotResultTimeout(r, s, now)

Reconcile(w) ==
    /\ At(w, "decide") /\ Reconciles(work[w].job)
    /\ LET s == work[w].snap
       IN  \/ /\ reconcileDue(s)
              /\ Stage(w, reconciled(work[w].room, s), "persist")
           \/ /\ ~reconcileDue(s)
              /\ timer' = syncMatchTimers(s)
              /\ Set(w, AfterSection(w, s))
              /\ Unlock
              /\ UNCHANGED cache
    /\ UNCHANGED <<now, room, stored, requested, dealt, budget>>

\* A message that the section refuses: it only unlocks.
Refuse(u) ==
    /\ Unlock
    /\ Done(u)
    /\ UNCHANGED <<cache, timer>>

\* turn_ready.  turnSeq = 0 in the message matches any turn.
TurnReady(u) ==
    /\ At(u, "decide") /\ work[u].job = "turn_ready"
    /\ LET s == work[u].snap
           ready(seq) == Undecided(s, "aiming") /\ s.turnUser = u /\ seq \in {0, s.turnSeq}
       IN  \E seq \in 0 .. MaxTurns :
              \/ ready(seq) /\ ~turnClockStarted(s) /\ Stage(u, startTurnClock(s, now), "persist")
              \/ (~ready(seq) \/ turnClockStarted(s)) /\ Refuse(u)
    /\ UNCHANGED <<now, room, stored, requested, dealt, budget>>

\* shot_started.  A shot after the deadline times the turn out.
ShotStarted(u) ==
    /\ At(u, "decide") /\ work[u].job = "shot_started"
    /\ LET s == work[u].snap
           onTurn == Undecided(s, "aiming") /\ s.turnUser = u /\ turnClockStarted(s)
       IN  \/ onTurn /\ isTurnExpired(s, now) /\
                 Stage(u, applyTurnTimeout(work[u].room, s, now), "persist")
           \/ onTurn /\ ~isTurnExpired(s, now) /\ s.turnSeq < MaxTurns /\
                 Stage(u, startShot(s, u, now), "persist")
           \/ (~onTurn \/ s.turnSeq >= MaxTurns) /\ Refuse(u)
    /\ UNCHANGED <<now, room, stored, requested, dealt, budget>>

\* shot_result_submitted, up to storeCanonicalSnapshot.
ShotResultSubmitted(u) ==
    /\ At(u, "decide") /\ work[u].job = "shot_result"
    /\ LET s == work[u].snap
       IN  \E result \in ShotResult(MaxTurns) :
              LET accepted == s.shooter = u /\ acceptsShotResult(s, result)
              IN  \/ accepted /\ Stage(u, applyShotResult(work[u].room, s, result, now), "persist")
                  \/ ~accepted /\ Refuse(u)
    /\ UNCHANGED <<now, room, stored, requested, dealt, budget>>

\* Mutant: the cache still holds the match before.
StartKeepsCache(u) ==
    /\ At(u, "clear") /\ work[u].job \in {"match_start", "rematch_request"}
    /\ lock = NoWorker
    /\ lock' = u
    /\ Goto(u, "deal")
    /\ UNCHANGED <<now, room, stored, cache, timer, requested, dealt, budget>>

\* match_start and rematch_request: lock and clearCachedSnapshot ...
StartClears(u) ==
    /\ At(u, "clear") /\ work[u].job \in {"match_start", "rematch_request"}
    /\ lock = NoWorker
    /\ lock' = u
    /\ clearCachedSnapshot
    /\ Goto(u, "deal")
    /\ UNCHANGED <<now, room, stored, requested, dealt, budget>>

\* ... then newInitialMatchSnapshot and the first half of its store.
Deal(u) ==
    /\ At(u, "deal")
    /\ Stage(u, newInitialMatchSnapshot(now), "persist")
    /\ UNCHANGED <<now, room, stored, requested, dealt, budget>>

\* storeCanonicalSnapshot, its second half: UpsertMatchSnapshot, and then
\* syncMatchTimers or, if it failed, clearCachedSnapshot.
Deals(w) == At(w, "create") \/ work[w].job \in {"match_start", "rematch_request"}

PersistSucceeds(w) ==
    /\ stored' = work[w].snap
    /\ timer' = syncMatchTimers(work[w].snap)
    /\ dealt' = (dealt \/ Deals(w))
    /\ \/ At(w, "create") /\ Goto(w, "decide") /\ UNCHANGED <<lock, requested>>
       \/ /\ At(w, "persist")
          /\ Set(w, AfterSection(w, work[w].snap))
          /\ Unlock
          /\ requested' = IF work[w].job = "match_start" THEN {} ELSE requested
    /\ UNCHANGED <<cache, budget>>

\* Mutant: the cache keeps what the database refused.
PersistFailsKeepingCache(w) ==
    /\ Spend("writeFault")
    /\ FailWith(w, cancelled(Kinds))
    /\ UNCHANGED <<cache, stored, requested, dealt>>

\* Mutant: the handler goes on after a failed store.
PersistFailsUnnoticed(w) ==
    /\ At(w, "persist")
    /\ Spend("writeFault")
    /\ cache' = NoSnapshot
    /\ timer' = cancelled(Kinds)
    /\ Unlock
    /\ Set(w, AfterSection(w, work[w].snap))
    /\ UNCHANGED <<stored, requested, dealt>>

PersistFails(w) ==
    /\ Spend("writeFault")
    /\ cache' = NoSnapshot
    /\ FailWith(w, cancelled(Kinds))
    /\ UNCHANGED <<stored, requested, dealt>>

Persist(w) ==
    /\ work[w].pc \in {"persist", "create"}
    /\ PersistSucceeds(w) \/ PersistFails(w)
    /\ UNCHANGED <<now, room>>

-----------------------------------------------------------------------------
(***************************************************************************)
(* What a message does after its reconciliation.                           *)
(***************************************************************************)

\* request_game_state ends here; the others lock again, on the same copy of
\* the room, or (cue_state) read the snapshot without the lock.
Dispatch(u) ==
    /\ At(u, "event") /\ work[u].job = "reconcile"
    /\ \/ Done(u)
       \/ \E job \in {"turn_ready", "shot_started", "shot_result"} :
             Set(u, [work[u] EXCEPT !.pc = "enter", !.job = job])
       \/ CueStates /\ Set(u, [work[u] EXCEPT !.pc = "peek", !.job = "cue_state"])
    /\ UNCHANGED <<now, room, stored, cache, timer, requested, lock, dealt, budget>>

\* cue_state: getCanonicalSnapshot outside matchStateMu.
Peek(u) ==
    /\ At(u, "peek")
    /\ \/ Exists(cache) /\ Done(u)
       \/ ~Exists(cache) /\ Exists(stored) /\ Set(u, [work[u] EXCEPT !.pc = "peekFill", !.snap = stored])
       \/ ~Exists(cache) /\ ~Exists(stored) /\ Done(u)
    /\ UNCHANGED <<now, room, stored, cache, timer, requested, lock, dealt, budget>>

PeekFill(u) ==
    /\ At(u, "peekFill")
    /\ cache' = IF setCachedSnapshotAccepts(work[u].snap) THEN work[u].snap ELSE cache
    /\ Done(u)
    /\ UNCHANGED <<now, room, stored, timer, requested, lock, dealt, budget>>

\* shot_result_submitted, after a winning shot: FinishRoom.  On an error the
\* handler returns: nothing tries again.
Finish(u) ==
    /\ At(u, "finish")
    /\ \/ /\ room.status = "playing" /\ room.opponent # NoUser
          /\ room' = [room EXCEPT !.status = "finished"]
          /\ UNCHANGED budget
       \/ /\ room.status # "playing"
          /\ UNCHANGED <<room, budget>>
       \/ Spend("writeFault") /\ UNCHANGED room
    /\ Done(u)
    /\ UNCHANGED <<now, stored, cache, timer, requested, lock, dealt>>

-----------------------------------------------------------------------------
(***************************************************************************)
(* The world around.                                                       *)
(***************************************************************************)

\* Time passes as long as some deadline is still ahead (bound: later instants
\* are all alike) and the turn's number is within MaxTurns.  Unless Stalls, no
\* deadline passes between the row's "playing" and the lock of match_start.
Ahead(s) ==
    \/ PhaseOf(s) = "prepare" /\ now < s.updatedAt + PrepareTime
    \/ PhaseOf(s) = "turn"    /\ now < s.turnDeadline
    \/ PhaseOf(s) = "shot"    /\ now < shotResultDeadline(s)

Tick ==
    /\ \/ Ahead(cache) \/ Ahead(stored)
       \/ \E k \in Kinds : now < timer[k].at
    /\ Stalls \/ \A u \in Users : ~At(u, "clear")
    /\ cache.turnSeq < MaxTurns /\ stored.turnSeq < MaxTurns
    /\ now' = now + 1
    /\ UNCHANGED <<room, stored, cache, timer, requested, lock, work, dealt, budget>>

\* The process dies and starts again: only the database is left.
Crash ==
    /\ Spend("crash")
    /\ cache' = NoSnapshot
    /\ timer' = [k \in Kinds |-> NoTimer]
    /\ requested' = {}
    /\ lock' = NoWorker
    /\ work' = [w \in Workers |-> Idle]
    /\ UNCHANGED <<now, room, stored, dealt>>

\* What a goroutine does on its own once it has begun.
Section(w) == Enter(w) \/ Load(w) \/ Fill(w) \/ Reconcile(w) \/ Persist(w)

Connection(u) ==
    \/ Restart(u) \/ StartClears(u) \/ Deal(u)
    \/ TurnReady(u) \/ ShotStarted(u) \/ ShotResultSubmitted(u)
    \/ Dispatch(u) \/ Peek(u) \/ PeekFill(u) \/ Finish(u)

Next ==
    \/ Join \/ StartMatch \/ Tick \/ Crash
    \/ \E role \in {"creator", "opponent"} : Leave(role)
    \/ LeaveClears \/ LeaveDeletes
    \/ \E u \in Users : RequestRematch(u) \/ Receive(u) \/ Connection(u)
    \/ \E g \in Goroutines, k \in Kinds : Fire(g, k)
    \/ \E w \in Workers : Section(w)

Spec == Init /\ [][Next]_vars
-----------------------------------------------------------------------------
(***************************************************************************)
(* What the referee guarantees.                                            *)
(***************************************************************************)
Snapshots ==
    [status : {"none", "aiming", "moving", "finished"}, turnUser : Users \cup {NoUser},
     turnSeq : Nat, turnDeadline : Nat, shotSeq : Nat, shooter : Users \cup {NoUser},
     shotStartedAt : Nat, winner : Users \cup {NoUser}, sunk : SUBSET Balls,
     creatorScore : Nat, opponentScore : Nat, updatedAt : Nat]

Rooms == [status : {"none", "waiting", "playing", "finished", "expired"},
          opponent : {Opponent, NoUser}]

Timers == [seq : Nat, deadline : Nat, at : Nat]

Steps == {"idle", "clear", "delete", "restart", "enter", "load", "fill", "create", "decide",
          "deal", "persist", "event", "peek", "peekFill", "finish"}

Jobs == Kinds \cup {"none", "leave", "reconcile", "turn_ready", "shot_started", "shot_result",
                    "cue_state", "match_start", "rematch_request"}

Works == [pc : Steps, job : Jobs, seq : Nat, room : Rooms, snap : Snapshots]

\* Every variable has its type.
TypeOK ==
    /\ now \in Nat \ {0}
    /\ room \in Rooms
    /\ stored \in Snapshots /\ cache \in Snapshots
    /\ timer \in [Kinds -> Timers]
    /\ requested \subseteq Users
    /\ lock \in Workers \cup {NoWorker}
    /\ work \in [Workers -> Works]
    /\ dealt \in BOOLEAN
    /\ budget \in [Events -> Nat]

\* The steps a goroutine takes with matchStateMu held.
LockedSteps == {"load", "fill", "create", "decide", "deal", "persist"}

Starting == \E u \in Users : work[u].job \in {"match_start", "rematch_request"} /\ ~At(u, "restart")

(***************************************************************************)
(* What the snapshot of a match says is consistent, whatever goroutines    *)
(* wrote it: a shot is the turn's user's, a winner and the status          *)
(* "finished" come together, the scores are those of the pocketed balls,   *)
(* and a match goes on only while neither player has cleared its balls and *)
(* the black one is on the table.                                          *)
(***************************************************************************)
TurnIsSound(s) ==
    /\ s.turnUser \in Users /\ s.turnSeq > 0 /\ s.updatedAt > 0
    /\ s.shooter = IF s.status = "moving" THEN s.turnUser ELSE NoUser
    /\ s.status = "finished" <=> s.winner # NoUser
    /\ s.status # "aiming" => s.turnDeadline = 0

ScoreIsSound(s) ==
    /\ s.creatorScore = BallPoints * Cardinality(s.sunk \cap CreatorBalls)
    /\ s.opponentScore = BallPoints * Cardinality(s.sunk \cap OpponentBalls)

TableIsOpen(s) ==
    /\ ~(CreatorBalls \subseteq s.sunk)
    /\ ~(OpponentBalls \subseteq s.sunk)
    /\ BlackBall \notin s.sunk

Sound(s) ==
    Exists(s) => /\ TurnIsSound(s)
                 /\ ScoreIsSound(s)
                 /\ s.status # "finished" => TableIsOpen(s)

StoredIsSound == Sound(stored) /\ Sound(cache)

\* An event of the budget has happened.
Happened(event) == budget[event] < Budget[event]

(***************************************************************************)
(* Between two locked sections the cache holds what the database holds, or *)
(* nothing: what clients are told survives a crash.  A leave deletes the   *)
(* row outside matchStateMu, and a section that it crosses may cache the   *)
(* snapshot again, without a row.                                          *)
(***************************************************************************)
CacheIsStored ==
    lock = NoWorker => \/ cache \in {NoSnapshot, stored}
                       \/ Happened("leave") /\ ~Exists(stored)

(***************************************************************************)
(* A finished room has the result of its match in the database: no         *)
(* handler, timer or match_start overwrites it before FinishRoom or after. *)
(* After a leave that crossed a handler, or a read that failed, a result   *)
(* may be reached on another table than the one that match_start deals.    *)
(***************************************************************************)
FinishedRoomHasResult ==
    room.status = "finished" =>
        \/ stored.status = "finished" /\ stored.winner \in Users
        \/ Happened("leave") \/ Happened("readFault")

(***************************************************************************)
(* A match that was opened is dealt: a room being played whose match_start *)
(* or rematch_request is over has had its first snapshot stored, whatever  *)
(* the match before it, or a handler from before, left behind.  Only a     *)
(* failed write, or a restart in between, leaves that to the next message. *)
(***************************************************************************)
MatchIsDealt ==
    (room.status = "playing" /\ ~Starting) =>
        dealt \/ Happened("crash") \/ Happened("writeFault")

(***************************************************************************)
(* The row of a match is only ever replaced by a newer version, except by  *)
(* the first snapshot of the next match, and after a failed read, which    *)
(* ensureCanonicalSnapshot takes for a missing row.                        *)
(***************************************************************************)
Dealing(u) == At(u, "persist") /\ work[u].job \in {"match_start", "rematch_request"}

RowOnlyGetsNewer ==
    [][ stored' # stored /\ Exists(stored) /\ Exists(stored')
          => \/ snapshotIsNewer(stored', stored)
             \/ \E u \in Users : Dealing(u)
             \/ Happened("readFault") ]_vars

(***************************************************************************)
(* The referee implements MatchTurns: its table is the stored row, which   *)
(* may be dealt until it is, or while match_start or rematch_request is at *)
(* work.                                                                   *)
(***************************************************************************)
Opening == room.status = "playing" /\ (~dealt \/ Starting)

Table ==
    [phase |-> IF Exists(stored) THEN PhaseOf(stored) ELSE "none",
     turn |-> stored.turnSeq, shot |-> stored.shotSeq, player |-> stored.turnUser,
     sunk |-> stored.sunk, winner |-> stored.winner]

Turns == INSTANCE MatchTurns WITH status <- room.status, opening <- Opening, table <- Table

ImplementsTurns == Turns!Spec

(***************************************************************************)
(* Goroutines run, timers fire and time passes.  Nothing makes players     *)
(* act, and nothing makes the service crash or the database fail.  Taking  *)
(* the lock is strongly fair: a Go mutex hands over to a starving waiter.  *)
(***************************************************************************)
Fairness ==
    /\ WF_vars(Tick)
    /\ WF_vars(LeaveClears) /\ WF_vars(LeaveDeletes)
    /\ \A u \in Users : SF_vars(StartClears(u)) /\ WF_vars(Connection(u))
    /\ \A w \in Workers : SF_vars(Enter(w)) /\ WF_vars(Section(w))
    /\ WF_vars(\E g \in Goroutines, k \in Kinds : Fire(g, k))

FairSpec == Spec /\ Fairness

StillAt(phases, turn) ==
    room.status = "playing" /\ PhaseOf(stored) \in phases /\ stored.turnSeq = turn

(***************************************************************************)
(* Every turn ends, up to the last one of the bound: a player that never   *)
(* shoots, or whose client never reports the shot, does not hold the match *)
(* up, because the timers take it on.                                      *)
(***************************************************************************)
TurnsEnd ==
    \A n \in 1 .. MaxTurns - 1 :
        StillAt({"prepare", "turn", "shot"}, n) ~> ~StillAt({"prepare", "turn", "shot"}, n)
=============================================================================
