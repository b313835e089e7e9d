------------------------- MODULE MatchServerProofs --------------------------
(***************************************************************************)
(* What is proved of MatchServer, for every value of its constants: its    *)
(* type invariant, and that no interleaving, stall, crash, failed read or  *)
(* failed write makes the stored or the cached snapshot inconsistent.      *)
(***************************************************************************)
EXTENDS MatchServer, FiniteSetTheorems, TLAPS

-----------------------------------------------------------------------------
(***************************************************************************)
(* Types of what the rules compute.                                        *)
(***************************************************************************)
LEMMA BallSetsFinite ==
    ASSUME NEW S, S \subseteq Balls
    PROVE  IsFiniteSet(S) /\ Cardinality(S) \in Nat
<1>1. IsFiniteSet(CreatorBalls) /\ IsFiniteSet(OpponentBalls) /\ IsFiniteSet({BlackBall})
  BY RulesAssumption, FS_Singleton
<1>2. IsFiniteSet(Balls)
  BY <1>1, FS_Union DEF Balls
<1>3. IsFiniteSet(S)
  BY <1>2, FS_Subset
<1> QED BY <1>3, FS_CardinalityType

LEMMA InitialType ==
    ASSUME NEW n \in Nat
    PROVE  newInitialMatchSnapshot(n) \in Snapshots /\ NoSnapshot \in Snapshots
BY DEF newInitialMatchSnapshot, NoSnapshot, Snapshots, Users

LEMMA UpdateTimeType ==
    ASSUME NEW s \in Snapshots, NEW n \in Nat
    PROVE  snapshotUpdateTimeAfter(s, n) \in Nat
BY DEF snapshotUpdateTimeAfter, Snapshots

LEMMA ClockType ==
    ASSUME NEW s \in Snapshots, NEW n \in Nat
    PROVE  startTurnClock(s, n) \in Snapshots
<1> DEFINE at == snapshotUpdateTimeAfter(s, n)
<1>1. at \in Nat /\ at + TurnTime \in Nat
  BY UpdateTimeType, RulesAssumption
<1> QED BY <1>1 DEF startTurnClock, Snapshots

LEMMA NextTurnType ==
    ASSUME NEW r \in Rooms, NEW user
    PROVE  nextTurnUserIDFor(r, user) \in Users
BY DEF nextTurnUserIDFor, Rooms, Users

LEMMA PassTurnType ==
    ASSUME NEW s \in Snapshots, NEW n \in Nat, NEW user \in Users
    PROVE  passTurn(s, user, n) \in Snapshots
<1> DEFINE at == snapshotUpdateTimeAfter(s, n)
           seq == s.turnSeq + 1
           ended == [s EXCEPT !.status = "aiming", !.shooter = NoUser, !.shotStartedAt = 0]
           passed == [ended EXCEPT !.turnUser = user, !.turnSeq = seq]
           next == [passed EXCEPT !.turnDeadline = 0, !.updatedAt = at]
<1>1. at \in Nat /\ seq \in Nat
  BY UpdateTimeType DEF Snapshots
<1>2. passTurn(s, user, n) = next
  BY DEF passTurn, Snapshots
<1> HIDE DEF at, seq
<1>3. ended \in Snapshots
  BY DEF Snapshots
<1> HIDE DEF ended
<1>4. passed \in Snapshots
  BY <1>1, <1>3 DEF Snapshots
<1> HIDE DEF passed
<1>5. next \in Snapshots
  BY <1>1, <1>4 DEF Snapshots
<1> QED BY <1>2, <1>5

LEMMA StartShotType ==
    ASSUME NEW s \in Snapshots, NEW n \in Nat, NEW user \in Users
    PROVE  startShot(s, user, n) \in Snapshots
<1> DEFINE at == snapshotUpdateTimeAfter(s, n)
           seq == s.shotSeq + 1
           shot == [s EXCEPT !.status = "moving", !.shotSeq = seq, !.shooter = user]
           next == [shot EXCEPT !.turnDeadline = 0, !.shotStartedAt = at, !.updatedAt = at]
<1>1. at \in Nat /\ seq \in Nat
  BY UpdateTimeType DEF Snapshots
<1>2. startShot(s, user, n) = next
  BY DEF startShot, Snapshots
<1> HIDE DEF at, seq
<1>3. shot \in Snapshots
  BY <1>1 DEF Snapshots
<1> HIDE DEF shot
<1>4. next \in Snapshots
  BY <1>1, <1>3 DEF Snapshots
<1> QED BY <1>2, <1>4

LEMMA ScoredType ==
    ASSUME NEW s \in Snapshots, NEW result \in ShotResult(MaxTurns),
           NEW side, side \subseteq Balls
    PROVE  scored(s, result, side) \in Nat
<1>1. (result.sunk \ s.sunk) \cap side \subseteq Balls
  OBVIOUS
<1>2. Cardinality((result.sunk \ s.sunk) \cap side) \in Nat
  BY <1>1, BallSetsFinite
<1> QED BY <1>2 DEF scored, BallPoints

LEMMA WinnerType ==
    ASSUME NEW s \in Snapshots, NEW r \in Rooms, NEW result \in ShotResult(MaxTurns)
    PROVE  winnerAfterShot(r, s, result) \in Users \cup {NoUser}
<1>1. opponentUserIDFor(r, s.shooter) \in Users \cup {NoUser}
  BY DEF opponentUserIDFor, Rooms, Users
<1>2. ASSUME NEW role
      PROVE  userForRole(r, role) \in Users \cup {NoUser}
  BY DEF userForRole, Rooms, Users
<1> QED BY <1>1, <1>2 DEF winnerAfterShot

LEMMA ShotResultType ==
    ASSUME NEW s \in Snapshots, NEW r \in Rooms, NEW result \in ShotResult(MaxTurns),
           NEW n \in Nat
    PROVE  applyShotResult(r, s, result, n) \in Snapshots
<1> DEFINE next == applyShotResult(r, s, result, n)
<1>1. next.winner \in Users \cup {NoUser}
  BY WinnerType DEF applyShotResult
<1>2. next.creatorScore \in Nat /\ next.opponentScore \in Nat
  <2>1. scored(s, result, CreatorBalls) \in Nat /\ scored(s, result, OpponentBalls) \in Nat
    BY ScoredType DEF Balls
  <2>2. s.creatorScore \in Nat /\ s.opponentScore \in Nat
    BY DEF Snapshots
  <2> QED BY <2>1, <2>2 DEF applyShotResult
<1>3. next.turnUser \in Users \cup {NoUser}
  <2>1. nextTurnUserIDFor(r, s.turnUser) \in Users
    BY NextTurnType
  <2>2. s.turnUser \in Users \cup {NoUser} /\ s.shooter \in Users \cup {NoUser}
    BY DEF Snapshots
  <2> QED BY <2>1, <2>2 DEF applyShotResult
<1>4. next.status \in {"aiming", "finished"} /\ next.turnSeq \in Nat
  BY DEF applyShotResult, Snapshots
<1>5. next.sunk \in SUBSET Balls
  BY DEF applyShotResult, ShotResult
<1>6. next.updatedAt \in Nat
  BY UpdateTimeType DEF applyShotResult
<1>7. next.shotSeq \in Nat /\ next.turnDeadline = 0 /\ next.shooter = NoUser /\ next.shotStartedAt = 0
  BY DEF applyShotResult, Snapshots
<1> DEFINE a == next.status     b == next.turnUser     c == next.turnSeq
           d == next.winner     e == next.sunk         f == next.creatorScore
           g == next.opponentScore                     h == next.updatedAt
<1>8. next = [status |-> a, turnUser |-> b, turnSeq |-> c, turnDeadline |-> 0,
              shotSeq |-> s.shotSeq, shooter |-> NoUser, shotStartedAt |-> 0, winner |-> d,
              sunk |-> e, creatorScore |-> f, opponentScore |-> g, updatedAt |-> h]
  BY DEF applyShotResult
<1>9. /\ a \in {"aiming", "finished"} /\ b \in Users \cup {NoUser} /\ c \in Nat
      /\ s.shotSeq \in Nat /\ d \in Users \cup {NoUser} /\ e \in SUBSET Balls
      /\ f \in Nat /\ g \in Nat /\ h \in Nat
  <2> HIDE DEF next
  <2> QED BY <1>1, <1>2, <1>3, <1>4, <1>5, <1>6 DEF Snapshots
<1> HIDE DEF a, b, c, d, e, f, g, h
<1>10. [status |-> a, turnUser |-> b, turnSeq |-> c, turnDeadline |-> 0,
        shotSeq |-> s.shotSeq, shooter |-> NoUser, shotStartedAt |-> 0, winner |-> d,
        sunk |-> e, creatorScore |-> f, opponentScore |-> g, updatedAt |-> h] \in Snapshots
  BY <1>9 DEF Snapshots
<1> QED BY <1>8, <1>10

LEMMA ReconciledType ==
    ASSUME NEW s \in Snapshots, NEW r \in Rooms, now \in Nat, reconcileDue(s)
    PROVE  reconciled(r, s) \in Snapshots
<1>1. applyTurnTimeout(r, s, now) \in Snapshots
  BY NextTurnType, PassTurnType DEF applyTurnTimeout
<1>2. applyShotResultTimeout(r, s, now) \in Snapshots
  BY NextTurnType, PassTurnType DEF applyShotResultTimeout
<1>3. startTurnClock(s, now) \in Snapshots
  BY ClockType
<1> QED BY <1>1, <1>2, <1>3 DEF reconciled, reconcileDue

-----------------------------------------------------------------------------
(***************************************************************************)
(* Types of the timers and of what a goroutine holds.                      *)
(***************************************************************************)
LEMMA NoTimers ==
    ASSUME timer \in [Kinds -> Timers], NEW kinds
    PROVE  cancelled(kinds) \in [Kinds -> Timers]
BY DEF cancelled, NoTimer, Timers

LEMMA SyncedTimers ==
    ASSUME TypeOK, NEW s \in Snapshots
    PROVE  syncMatchTimers(s) \in [Kinds -> Timers]
<1>1. ASSUME NEW t \in Timers, NEW seq \in Nat, NEW deadline \in Nat, NEW at \in Nat
      PROVE  syncTimer(t, seq, deadline, at) \in Timers
  BY <1>1 DEF syncTimer, delayed, Timers, TypeOK
<1>2. ASSUME NEW k \in Kinds
      PROVE  syncedTimer(k, s) \in Timers
  <2>1. timer[k] \in Timers
    BY DEF TypeOK
  <2>2. /\ s.turnSeq \in Nat /\ s.shotSeq \in Nat /\ s.turnDeadline \in Nat
        /\ s.updatedAt + PrepareTime \in Nat /\ s.shotStartedAt + ShotTime \in Nat
    BY RulesAssumption DEF Snapshots
  <2> QED BY <1>1, <2>1, <2>2 DEF syncedTimer, shotResultDeadline, Kinds
<1>3. NoTimer \in Timers
  BY DEF NoTimer, Timers
<1> QED BY <1>2, <1>3 DEF syncMatchTimers

LEMMA IdleType == Idle \in Works
BY InitialType DEF Idle, Works, Steps, Jobs, NoRoom, Rooms

LEMMA SetType ==
    ASSUME TypeOK, NEW w \in Workers, NEW r \in Works, Set(w, r)
    PROVE  work' \in [Workers -> Works]
BY DEF Set, TypeOK

LEMMA GotoType ==
    ASSUME TypeOK, NEW w \in Workers, NEW pc \in Steps, Goto(w, pc)
    PROVE  work' \in [Workers -> Works]
<1>1. [work[w] EXCEPT !.pc = pc] \in Works
  BY DEF TypeOK, Works
<1> QED BY <1>1, SetType DEF Goto

LEMMA DoneType ==
    ASSUME TypeOK, NEW w \in Workers, Done(w)
    PROVE  work' \in [Workers -> Works]
BY IdleType, SetType DEF Done

LEMMA HoldType ==
    ASSUME TypeOK, NEW w \in Workers, NEW pc \in Steps, NEW s \in Snapshots
    PROVE  [work[w] EXCEPT !.pc = pc, !.snap = s] \in Works
BY DEF TypeOK, Works

LEMMA SpendType ==
    ASSUME TypeOK, NEW event \in Events, Spend(event)
    PROVE  budget' \in [Events -> Nat]
BY DEF Spend, TypeOK

LEMMA FailType ==
    ASSUME TypeOK, NEW w \in Workers, NEW timers \in [Kinds -> Timers], FailWith(w, timers)
    PROVE  /\ lock' \in Workers \cup {NoWorker}
           /\ work' \in [Workers -> Works]
           /\ timer' \in [Kinds -> Timers]
<1>1. work' \in [Workers -> Works]
  BY DoneType DEF FailWith
<1>2. timer' \in [Kinds -> Timers]
  <2>1. work[w].seq \in Nat /\ now + RetryDelay \in Nat
    BY ServerAssumption DEF TypeOK, Works
  <2>2. [seq |-> work[w].seq, deadline |-> 0, at |-> now + RetryDelay] \in Timers
    BY <2>1 DEF Timers
  <2> QED BY <2>2 DEF FailWith
<1> QED BY <1>1, <1>2 DEF FailWith, Unlock

LEMMA StageType ==
    ASSUME TypeOK, NEW w \in Workers, NEW s \in Snapshots, NEW pc \in Steps, Stage(w, s, pc)
    PROVE  /\ cache' \in Snapshots
           /\ lock' \in Workers \cup {NoWorker}
           /\ work' \in [Workers -> Works]
           /\ timer' \in [Kinds -> Timers]
<1>1. CASE cache' = s /\ Set(w, [work[w] EXCEPT !.pc = pc, !.snap = s]) /\ UNCHANGED <<timer, lock>>
  BY <1>1, HoldType, SetType DEF TypeOK
<1>2. CASE FailWith(w, timer) /\ UNCHANGED cache
  <2>1. timer \in [Kinds -> Timers]
    BY DEF TypeOK
  <2> QED BY <1>2, <2>1, FailType DEF TypeOK
<1> QED BY <1>1, <1>2 DEF Stage

LEMMA NoCanonicalType ==
    ASSUME TypeOK, NEW w \in Workers, NoCanonicalSnapshot(w)
    PROVE  /\ cache' \in Snapshots
           /\ lock' \in Workers \cup {NoWorker}
           /\ work' \in [Workers -> Works]
           /\ timer' \in [Kinds -> Timers]
<1>1. CASE Stage(w, newInitialMatchSnapshot(now), "create")
  <2>1. newInitialMatchSnapshot(now) \in Snapshots /\ "create" \in Steps
    BY InitialType DEF TypeOK, Steps
  <2> QED BY <1>1, <2>1, StageType
<1>2. CASE FailWith(w, timer) /\ UNCHANGED cache
  <2>1. timer \in [Kinds -> Timers]
    BY DEF TypeOK
  <2> QED BY <1>2, <2>1, FailType DEF TypeOK
<1> QED BY <1>1, <1>2 DEF NoCanonicalSnapshot

LEMMA AfterSectionType ==
    ASSUME TypeOK, NEW w \in Workers, NEW s
    PROVE  AfterSection(w, s) \in Works
<1>1. [work[w] EXCEPT !.pc = "event", !.snap = NoSnapshot] \in Works
  BY HoldType, InitialType DEF Steps
<1>2. [work[w] EXCEPT !.pc = "finish"] \in Works
  BY DEF TypeOK, Works, Steps
<1> QED BY <1>1, <1>2, IdleType DEF AfterSection

-----------------------------------------------------------------------------
(***************************************************************************)
(* Every action keeps the types.  The actions of the locked sections are   *)
(* lemmas of their own.                                                    *)
(***************************************************************************)
LEMMA LoadKeepsType ==
    ASSUME TypeOK, NEW w \in Workers, Load(w)
    PROVE  TypeOK'
<1>1. ASSUME NoCanonicalSnapshot(w)
      PROVE  /\ cache' \in Snapshots
             /\ lock' \in Workers \cup {NoWorker}
             /\ work' \in [Workers -> Works]
             /\ timer' \in [Kinds -> Timers]
  BY <1>1, NoCanonicalType
<1>2. [work[w] EXCEPT !.pc = "fill", !.snap = stored] \in Works
  BY HoldType DEF TypeOK, Steps
<1>3. ASSUME Spend("readFault")
      PROVE  budget' \in [Events -> Nat]
  BY <1>3, SpendType DEF Events
<1>4. CASE Set(w, [work[w] EXCEPT !.pc = "fill", !.snap = stored]) /\ UNCHANGED <<cache, timer, lock, budget>>
  <2>1. work' \in [Workers -> Works]
    BY <1>2, <1>4, SetType
  <2> QED BY <1>4, <2>1 DEF Load, TypeOK
<1>5. CASE NoCanonicalSnapshot(w) /\ (UNCHANGED budget \/ Spend("readFault"))
  BY <1>1, <1>3, <1>5 DEF Load, TypeOK
<1> QED BY <1>4, <1>5 DEF Load

LEMMA FillKeepsType ==
    ASSUME TypeOK, NEW w \in Workers, Fill(w)
    PROVE  TypeOK'
<1>1. CASE cache' = work[w].snap /\ Goto(w, "decide") /\ UNCHANGED <<timer, lock>>
  <2>1. work' \in [Workers -> Works]
    BY <1>1, GotoType DEF Steps
  <2>2. work[w].snap \in Snapshots
    BY DEF TypeOK, Works
  <2> QED BY <1>1, <2>1, <2>2 DEF Fill, TypeOK
<1>2. CASE NoCanonicalSnapshot(w)
  BY <1>2, NoCanonicalType DEF Fill, TypeOK
<1> QED BY <1>1, <1>2 DEF Fill

LEMMA ReconcileKeepsType ==
    ASSUME TypeOK, NEW w \in Workers, Reconcile(w)
    PROVE  TypeOK'
<1> DEFINE s == work[w].snap
<1>1. s \in Snapshots /\ work[w].room \in Rooms /\ now \in Nat
  BY DEF TypeOK, Works
<1>2. CASE reconcileDue(s) /\ Stage(w, reconciled(work[w].room, s), "persist")
  <2>1. reconciled(work[w].room, s) \in Snapshots /\ "persist" \in Steps
    BY <1>1, <1>2, ReconciledType DEF Steps
  <2> QED BY <1>2, <2>1, StageType DEF Reconcile, TypeOK
<1>3. CASE /\ timer' = syncMatchTimers(s) /\ Set(w, AfterSection(w, s)) /\ Unlock
           /\ UNCHANGED cache
  <2>1. timer' \in [Kinds -> Timers]
    BY <1>1, <1>3, SyncedTimers
  <2>2. work' \in [Workers -> Works]
    BY <1>3, AfterSectionType, SetType
  <2> QED BY <1>3, <2>1, <2>2 DEF Reconcile, TypeOK, Unlock
<1> QED BY <1>2, <1>3 DEF Reconcile

LEMMA PersistKeepsType ==
    ASSUME TypeOK, NEW w \in Workers, Persist(w)
    PROVE  TypeOK'
<1> DEFINE s == work[w].snap
<1>1. s \in Snapshots
  BY DEF TypeOK, Works
<1>2. CASE PersistSucceeds(w)
  <2>1. timer' \in [Kinds -> Timers]
    BY <1>1, <1>2, SyncedTimers DEF PersistSucceeds
  <2>2. dealt' \in BOOLEAN
    BY <1>2 DEF PersistSucceeds, Deals
  <2>3. CASE Goto(w, "decide") /\ UNCHANGED <<lock, requested>>
    <3>1. work' \in [Workers -> Works]
      BY <2>3, GotoType DEF Steps
    <3> QED BY <1>1, <1>2, <2>1, <2>2, <2>3, <3>1 DEF PersistSucceeds, Persist, TypeOK
  <2>4. CASE /\ Set(w, AfterSection(w, s)) /\ Unlock
             /\ requested' = IF work[w].job = "match_start" THEN {} ELSE requested
    <3>1. work' \in [Workers -> Works]
      BY <2>4, AfterSectionType, SetType
    <3>2. requested' \subseteq Users
      BY <2>4 DEF TypeOK
    <3> QED BY <1>1, <1>2, <2>1, <2>2, <2>4, <3>1, <3>2 DEF PersistSucceeds, Persist, TypeOK, Unlock
  <2> QED BY <1>2, <2>3, <2>4 DEF PersistSucceeds
<1>3. CASE PersistFails(w)
  <2>1. cancelled(Kinds) \in [Kinds -> Timers]
    BY NoTimers DEF TypeOK
  <2>2. budget' \in [Events -> Nat]
    BY <1>3, SpendType DEF PersistFails, Events
  <2>3. /\ lock' \in Workers \cup {NoWorker}
        /\ work' \in [Workers -> Works]
        /\ timer' \in [Kinds -> Timers]
    BY <1>3, <2>1, FailType DEF PersistFails
  <2>4. cache' \in Snapshots
    BY <1>3, InitialType DEF PersistFails
  <2> QED BY <1>3, <2>2, <2>3, <2>4 DEF PersistFails, Persist, TypeOK
<1> QED BY <1>2, <1>3 DEF Persist

LEMMA RefuseType ==
    ASSUME TypeOK, NEW u \in Users, Refuse(u)
    PROVE  /\ cache' \in Snapshots
           /\ lock' \in Workers \cup {NoWorker}
           /\ work' \in [Workers -> Works]
           /\ timer' \in [Kinds -> Timers]
<1>1. work' \in [Workers -> Works]
  BY DoneType DEF Refuse, Workers
<1> QED BY <1>1 DEF Refuse, Unlock, TypeOK

LEMMA DecisionKeepsType ==
    ASSUME TypeOK, NEW u \in Users,
           TurnReady(u) \/ ShotStarted(u) \/ ShotResultSubmitted(u) \/ Deal(u)
    PROVE  TypeOK'
<1> DEFINE s == work[u].snap
           r == work[u].room
           Typed == /\ cache' \in Snapshots
                    /\ lock' \in Workers \cup {NoWorker}
                    /\ work' \in [Workers -> Works]
                    /\ timer' \in [Kinds -> Timers]
<1>1. s \in Snapshots /\ r \in Rooms /\ now \in Nat /\ u \in Workers /\ "persist" \in Steps
  BY DEF TypeOK, Works, Workers, Steps
<1>2. ASSUME NEW t \in Snapshots, Stage(u, t, "persist")
      PROVE  Typed
  BY <1>1, <1>2, StageType
<1>3. ASSUME Refuse(u)
      PROVE  Typed
  BY <1>3, RefuseType
<1>4. CASE TurnReady(u)
  <2>1. startTurnClock(s, now) \in Snapshots
    BY <1>1, ClockType
  <2>2. Stage(u, startTurnClock(s, now), "persist") \/ Refuse(u)
    BY <1>4 DEF TurnReady
  <2> HIDE DEF Typed
  <2>3. Typed
    BY <1>2, <1>3, <2>1, <2>2
  <2> QED BY <1>4, <2>3 DEF TurnReady, TypeOK, Typed
<1>5. CASE ShotStarted(u)
  <2>1. startShot(s, u, now) \in Snapshots
    BY <1>1, StartShotType
  <2>2. applyTurnTimeout(r, s, now) \in Snapshots
    BY <1>1, NextTurnType, PassTurnType DEF applyTurnTimeout
  <2>3. \/ Stage(u, applyTurnTimeout(r, s, now), "persist")
        \/ Stage(u, startShot(s, u, now), "persist")
        \/ Refuse(u)
    BY <1>5 DEF ShotStarted
  <2> HIDE DEF Typed
  <2>4. Typed
    BY <1>2, <1>3, <2>1, <2>2, <2>3
  <2> QED BY <1>5, <2>4 DEF ShotStarted, TypeOK, Typed
<1>6. CASE ShotResultSubmitted(u)
  <2>1. PICK result \in ShotResult(MaxTurns) :
          Stage(u, applyShotResult(r, s, result, now), "persist") \/ Refuse(u)
    BY <1>6 DEF ShotResultSubmitted
  <2>2. applyShotResult(r, s, result, now) \in Snapshots
    BY <1>1, ShotResultType
  <2> HIDE DEF Typed
  <2>3. Typed
    BY <1>2, <1>3, <2>1, <2>2
  <2> QED BY <1>6, <2>3 DEF ShotResultSubmitted, TypeOK, Typed
<1>7. CASE Deal(u)
  <2>1. newInitialMatchSnapshot(now) \in Snapshots
    BY <1>1, InitialType
  <2> HIDE DEF Typed
  <2>2. Typed
    BY <1>2, <1>7, <2>1 DEF Deal
  <2> QED BY <1>7, <2>2 DEF Deal, TypeOK, Typed
<1> QED BY <1>4, <1>5, <1>6, <1>7

\* The actions on the room's row, before and after the locked sections.
LEMMA RoomKeepsType ==
    ASSUME TypeOK,
           \/ Join \/ StartMatch \/ LeaveClears \/ LeaveDeletes \/ Tick \/ Crash
           \/ \E role \in {"creator", "opponent"} : Leave(role)
    PROVE  TypeOK'
<1> USE DEF TypeOK
<1>1. CASE Join
  BY <1>1 DEF Join, Rooms
<1>2. CASE StartMatch
  <2>1. room' \in Rooms /\ budget' \in [Events -> Nat]
    BY <1>2, SpendType DEF StartMatch, Rooms, Events
  <2>2. [Idle EXCEPT !.pc = "clear", !.job = "match_start", !.room = room'] \in Works
    BY <2>1, IdleType DEF Works, Steps, Jobs
  <2>3. Creator \in Workers
    BY DEF Workers, Users
  <2>4. work' \in [Workers -> Works]
    BY <1>2, <2>2, <2>3, SetType DEF StartMatch
  <2> QED BY <1>2, <2>1, <2>4 DEF StartMatch
<1>3. ASSUME NEW role, Leave(role)
      PROVE  TypeOK'
  <2>1. room' \in Rooms /\ budget' \in [Events -> Nat]
    BY <1>3, SpendType DEF Leave, Rooms, Events
  <2>2. [Idle EXCEPT !.pc = "clear", !.job = "leave"] \in Works
    BY IdleType DEF Works, Steps, Jobs
  <2>3. work' \in [Workers -> Works]
    BY <1>3, <2>2, SetType DEF Leave, Workers
  <2> QED BY <1>3, <2>1, <2>3 DEF Leave
<1>4. CASE LeaveClears
  <2>1. cache' \in Snapshots /\ timer' \in [Kinds -> Timers]
    BY <1>4, InitialType, NoTimers DEF LeaveClears, clearCachedSnapshot
  <2>2. work' \in [Workers -> Works]
    BY <1>4, GotoType DEF LeaveClears, Workers, Steps
  <2> QED BY <1>4, <2>1, <2>2 DEF LeaveClears
<1>5. CASE LeaveDeletes
  <2>1. stored' \in Snapshots /\ budget' \in [Events -> Nat]
    BY <1>5, InitialType, SpendType DEF LeaveDeletes, Events
  <2>2. work' \in [Workers -> Works]
    BY <1>5, DoneType DEF LeaveDeletes, Workers
  <2> QED BY <1>5, <2>1, <2>2 DEF LeaveDeletes
<1>6. CASE Tick
  BY <1>6 DEF Tick
<1>7. CASE Crash
  <2>1. cache' \in Snapshots /\ timer' \in [Kinds -> Timers]
    BY <1>7, InitialType DEF Crash, NoTimer, Timers
  <2>2. work' \in [Workers -> Works] /\ budget' \in [Events -> Nat]
    BY <1>7, IdleType, SpendType DEF Crash, Events
  <2> QED BY <1>7, <2>1, <2>2 DEF Crash
<1> QED BY <1>1, <1>2, <1>3, <1>4, <1>5, <1>6, <1>7

\* What a participant's goroutine does outside the locked sections.
LEMMA ConnectionKeepsType ==
    ASSUME TypeOK, NEW u \in Users,
           \/ RequestRematch(u) \/ Receive(u) \/ Restart(u) \/ StartClears(u)
           \/ Dispatch(u) \/ Peek(u) \/ PeekFill(u) \/ Finish(u)
    PROVE  TypeOK'
<1> USE DEF TypeOK
<1>1. u \in Workers /\ work[u] \in Works /\ stored \in Snapshots
  BY DEF Workers
<1>2. CASE RequestRematch(u)
  <2>1. [Idle EXCEPT !.pc = "restart", !.job = "rematch_request", !.room = room] \in Works
    BY IdleType DEF Works, Steps, Jobs
  <2>2. work' \in [Workers -> Works]
    BY <1>1, <1>2, <2>1, SetType DEF RequestRematch
  <2> QED BY <1>2, <2>2 DEF RequestRematch
<1>3. CASE Receive(u)
  <2>1. Reconciling(room) \in Works /\ Reconciling(CopyOfMatch) \in Works
    BY IdleType DEF Works, Steps, Jobs, Reconciling, CopyOfMatch, Rooms
  <2>2. work' \in [Workers -> Works]
    BY <1>1, <1>3, <2>1, SetType DEF Receive
  <2>3. budget' \in [Events -> Nat]
    BY <1>3, SpendType DEF Receive, Events
  <2> QED BY <1>3, <2>2, <2>3 DEF Receive
<1>4. CASE Restart(u)
  <2>1. CASE /\ Spend("rematch")
             /\ room' = [room EXCEPT !.status = "playing"]
             /\ requested' = {} /\ dealt' = FALSE
             /\ Set(u, [work[u] EXCEPT !.pc = "clear", !.room = room'])
    <3>1. room' \in Rooms
      BY <2>1 DEF Rooms
    <3>2. [work[u] EXCEPT !.pc = "clear", !.room = room'] \in Works
      BY <1>1, <3>1 DEF Works, Steps
    <3>3. work' \in [Workers -> Works] /\ budget' \in [Events -> Nat]
      BY <1>1, <2>1, <3>2, SetType, SpendType DEF Events
    <3> QED BY <1>4, <2>1, <3>1, <3>3 DEF Restart
  <2>2. CASE /\ UNCHANGED budget \/ Spend("writeFault")
             /\ Done(u)
             /\ UNCHANGED <<room, requested, dealt>>
    <3>1. work' \in [Workers -> Works] /\ budget' \in [Events -> Nat]
      BY <1>1, <2>2, DoneType, SpendType DEF Events
    <3> QED BY <1>4, <2>2, <3>1 DEF Restart
  <2> QED BY <1>4, <2>1, <2>2 DEF Restart
<1>5. CASE StartClears(u)
  <2>1. cache' \in Snapshots /\ timer' \in [Kinds -> Timers]
    BY <1>5, InitialType, NoTimers DEF StartClears, clearCachedSnapshot
  <2>2. work' \in [Workers -> Works]
    BY <1>1, <1>5, GotoType DEF StartClears, Steps
  <2> QED BY <1>1, <1>5, <2>1, <2>2 DEF StartClears
<1>6. CASE Dispatch(u)
  <2>1. ASSUME NEW job \in {"turn_ready", "shot_started", "shot_result", "cue_state"},
               NEW pc \in {"enter", "peek"}
        PROVE  [work[u] EXCEPT !.pc = pc, !.job = job] \in Works
    BY <1>1 DEF Works, Steps, Jobs
  <2>2. work' \in [Workers -> Works]
    BY <1>1, <1>6, <2>1, SetType, DoneType DEF Dispatch
  <2> QED BY <1>6, <2>2 DEF Dispatch
<1>7. CASE Peek(u)
  <2>1. [work[u] EXCEPT !.pc = "peekFill", !.snap = stored] \in Works
    BY <1>1, HoldType DEF Steps
  <2>2. work' \in [Workers -> Works]
    BY <1>1, <1>7, <2>1, SetType, DoneType DEF Peek
  <2> QED BY <1>7, <2>2 DEF Peek
<1>8. CASE PeekFill(u)
  <2>1. cache' \in Snapshots
    BY <1>1, <1>8 DEF PeekFill, Works
  <2>2. work' \in [Workers -> Works]
    BY <1>1, <1>8, DoneType DEF PeekFill
  <2> QED BY <1>8, <2>1, <2>2 DEF PeekFill
<1>9. CASE Finish(u)
  <2>1. room' \in Rooms /\ budget' \in [Events -> Nat]
    BY <1>9, SpendType DEF Finish, Rooms, Events
  <2>2. work' \in [Workers -> Works]
    BY <1>1, <1>9, DoneType DEF Finish
  <2> QED BY <1>9, <2>1, <2>2 DEF Finish
<1> QED BY <1>2, <1>3, <1>4, <1>5, <1>6, <1>7, <1>8, <1>9

LEMMA FireKeepsType ==
    ASSUME TypeOK, NEW g \in Goroutines, NEW k \in Kinds, Fire(g, k)
    PROVE  TypeOK'
<1>1. timer[k].seq \in Nat /\ now + RetryDelay \in Nat
  BY ServerAssumption DEF TypeOK, Timers
<1>2. timer' \in [Kinds -> Timers]
  <2>1. rescheduled(k, timer[k].seq) \in [Kinds -> Timers]
    BY <1>1 DEF rescheduled, TypeOK, Timers
  <2> QED BY <2>1, NoTimers DEF Fire, TypeOK
<1>3. work' \in [Workers -> Works]
  <2>1. [Idle EXCEPT !.pc = "enter", !.job = k, !.seq = timer[k].seq, !.room = room] \in Works
    BY <1>1, IdleType DEF TypeOK, Works, Steps, Jobs
  <2> QED BY <2>1, SetType DEF Fire, Workers, TypeOK
<1>4. budget' \in [Events -> Nat]
  BY SpendType DEF Fire, Events, TypeOK
<1> QED BY <1>2, <1>3, <1>4 DEF Fire, TypeOK

LEMMA EnterKeepsType ==
    ASSUME TypeOK, NEW w \in Workers, Enter(w)
    PROVE  TypeOK'
<1>1. [work[w] EXCEPT !.pc = "decide", !.snap = cache] \in Works
  BY HoldType DEF TypeOK, Steps
<1>2. work' \in [Workers -> Works]
  BY <1>1, SetType, GotoType DEF Enter, Steps
<1> QED BY <1>2 DEF Enter, TypeOK

LEMMA NextKeepsType ==
    ASSUME TypeOK, [Next]_vars
    PROVE  TypeOK'
<1>1. CASE UNCHANGED vars
  BY <1>1 DEF vars, TypeOK
<1>2. CASE \/ Join \/ StartMatch \/ LeaveClears \/ LeaveDeletes \/ Tick \/ Crash
           \/ \E role \in {"creator", "opponent"} : Leave(role)
  BY <1>2, RoomKeepsType
<1>3. ASSUME NEW u \in Users, RequestRematch(u) \/ Receive(u) \/ Connection(u)
      PROVE  TypeOK'
  BY <1>3, ConnectionKeepsType, DecisionKeepsType DEF Connection
<1>4. ASSUME NEW g \in Goroutines, NEW k \in Kinds, Fire(g, k)
      PROVE  TypeOK'
  BY <1>4, FireKeepsType
<1>5. ASSUME NEW w \in Workers, Section(w)
      PROVE  TypeOK'
  BY <1>5, EnterKeepsType, LoadKeepsType, FillKeepsType, ReconcileKeepsType, PersistKeepsType
     DEF Section
<1> QED BY <1>1, <1>2, <1>3, <1>4, <1>5 DEF Next

LEMMA InitTyped == Init => TypeOK
<1> SUFFICES ASSUME Init PROVE TypeOK
  OBVIOUS
<1>1. NoSnapshot \in Snapshots /\ Idle \in Works
  BY 0 \in Nat, IdleType, InitialType
<1>2. timer \in [Kinds -> Timers] /\ room \in Rooms
  BY DEF Init, Rooms, Timers, NoTimer
<1>3. now \in Nat \ {0} /\ requested \subseteq Users /\ lock \in Workers \cup {NoWorker}
  BY DEF Init
<1>4. stored \in Snapshots /\ cache \in Snapshots /\ work \in [Workers -> Works]
  BY <1>1 DEF Init
<1>5. dealt \in BOOLEAN
  BY DEF Init
<1>6. budget \in [Events -> Nat]
  <2>1. Budget \in [Events -> Nat]
    BY ServerAssumption, Zenon
  <2>2. budget = Budget
    BY DEF Init
  <2> QED BY <2>1, <2>2
<1> QED BY <1>2, <1>3, <1>4, <1>5, <1>6 DEF TypeOK

\* Every variable has its type, whatever the goroutines, the faults and the
\* crashes do: no handler stores a value that another one cannot read.
THEOREM TypeCorrect == Spec => []TypeOK
<1>1. Init => TypeOK
  BY InitTyped
<1>2. TypeOK /\ [Next]_vars => TypeOK'
  BY NextKeepsType
<1> QED BY <1>1, <1>2, PTL DEF Spec

-----------------------------------------------------------------------------
(***************************************************************************)
(* The inductive invariant of StoredIsSound, for whatever interleaves,     *)
(* stalls, crashes or fails.  A snapshot is computed from the one that a   *)
(* goroutine read some steps before, and from its copy of the room's row:  *)
(* both must be good, even when the row has changed since.                 *)
(***************************************************************************)
HeldIsSound == \A w \in Workers : Sound(work[w].snap)

RoomHasOpponent == room.status \in {"playing", "finished"} => room.opponent = Opponent

WorkKnowsOpponent ==
    \A w \in Workers : work[w].job \notin {"none", "leave"} => work[w].room.opponent = Opponent

IInv ==
    /\ TypeOK
    /\ StoredIsSound
    /\ HeldIsSound
    /\ RoomHasOpponent
    /\ WorkKnowsOpponent

-----------------------------------------------------------------------------
(***************************************************************************)
(* The rules make sound snapshots out of sound ones.                       *)
(***************************************************************************)
LEMMA PlayersDiffer == Creator # Opponent /\ Creator # NoUser /\ Opponent # NoUser
BY RulesAssumption, ServerAssumption

LEMMA NoneIsSound == Sound(NoSnapshot)
BY DEF Sound, Exists, NoSnapshot

LEMMA InitialIsSound ==
    ASSUME NEW n \in Nat \ {0}
    PROVE  Sound(newInitialMatchSnapshot(n))
<1> DEFINE s == newInitialMatchSnapshot(n)
<1>1. /\ s.status = "aiming" /\ s.turnUser = Creator /\ s.turnSeq = 1 /\ s.updatedAt = n
      /\ s.shooter = NoUser /\ s.winner = NoUser /\ s.sunk = {}
      /\ s.creatorScore = 0 /\ s.opponentScore = 0
  BY DEF newInitialMatchSnapshot, NoSnapshot
<1> HIDE DEF s
<1>2. ScoreIsSound(s)
  <2>1. Cardinality(s.sunk \cap CreatorBalls) = 0 /\ Cardinality(s.sunk \cap OpponentBalls) = 0
    BY <1>1, FS_EmptySet
  <2> QED BY <1>1, <2>1 DEF ScoreIsSound, BallPoints
<1>3. TableIsOpen(s)
  BY <1>1, RulesAssumption DEF TableIsOpen
<1>4. TurnIsSound(s)
  BY <1>1 DEF TurnIsSound, Users
<1>5. Sound(s)
  BY <1>2, <1>3, <1>4 DEF Sound
<1> QED BY <1>5 DEF s

LEMMA UpdateTimePositive ==
    ASSUME NEW s \in Snapshots, NEW n \in Nat \ {0}
    PROVE  snapshotUpdateTimeAfter(s, n) \in Nat \ {0}
BY DEF snapshotUpdateTimeAfter, Snapshots

LEMMA ClockIsSound ==
    ASSUME NEW s \in Snapshots, NEW n \in Nat \ {0}, Sound(s), s.status = "aiming"
    PROVE  Sound(startTurnClock(s, n))
<1> DEFINE at == snapshotUpdateTimeAfter(s, n)
           end == at + TurnTime
           t == startTurnClock(s, n)
<1>1. at \in Nat \ {0}
  BY UpdateTimePositive
<1>2. /\ t.status = s.status /\ t.turnUser = s.turnUser /\ t.turnSeq = s.turnSeq
      /\ t.winner = s.winner /\ t.sunk = s.sunk
      /\ t.creatorScore = s.creatorScore /\ t.opponentScore = s.opponentScore
      /\ t.updatedAt = at /\ t.shooter = NoUser
  BY DEF startTurnClock, Snapshots
<1> HIDE DEF t, at
<1>3. Exists(s) /\ s.status # "finished"
  BY DEF Exists, Sound, TurnIsSound
<1>4. TurnIsSound(s) /\ ScoreIsSound(s) /\ TableIsOpen(s)
  BY <1>3 DEF Sound
<1>5. ScoreIsSound(t) /\ TableIsOpen(t)
  BY <1>2, <1>4 DEF ScoreIsSound, TableIsOpen
<1>6. TurnIsSound(t)
  BY <1>1, <1>2, <1>4 DEF TurnIsSound
<1>7. Sound(t)
  BY <1>5, <1>6 DEF Sound
<1> QED BY <1>7 DEF t

LEMMA PassTurnIsSound ==
    ASSUME NEW s \in Snapshots, NEW n \in Nat \ {0}, NEW user \in Users,
           Sound(s), Exists(s), s.winner = NoUser
    PROVE  Sound(passTurn(s, user, n))
<1> DEFINE t == passTurn(s, user, n)
           at == snapshotUpdateTimeAfter(s, n)
<1>1. at \in Nat \ {0} /\ s.turnSeq \in Nat
  BY UpdateTimePositive DEF Snapshots
<1>2. /\ t.status = "aiming" /\ t.turnUser = user /\ t.turnSeq = s.turnSeq + 1
      /\ t.winner = s.winner /\ t.sunk = s.sunk
      /\ t.creatorScore = s.creatorScore /\ t.opponentScore = s.opponentScore
      /\ t.updatedAt = at /\ t.shooter = NoUser
  BY DEF passTurn, Snapshots
<1> HIDE DEF t, at
<1>3. Exists(s) /\ s.status # "finished"
  BY DEF Exists, Sound, TurnIsSound
<1>4. TurnIsSound(s) /\ ScoreIsSound(s) /\ TableIsOpen(s)
  BY <1>3 DEF Sound
<1>5. ScoreIsSound(t) /\ TableIsOpen(t)
  BY <1>2, <1>4 DEF ScoreIsSound, TableIsOpen
<1>6. TurnIsSound(t)
  BY <1>1, <1>2, <1>4 DEF TurnIsSound
<1>7. Sound(t)
  BY <1>5, <1>6 DEF Sound
<1> QED BY <1>7 DEF t

LEMMA StartShotIsSound ==
    ASSUME NEW s \in Snapshots, NEW n \in Nat \ {0}, NEW user \in Users,
           Sound(s), s.status = "aiming", s.turnUser = user
    PROVE  Sound(startShot(s, user, n))
<1> DEFINE t == startShot(s, user, n)
           at == snapshotUpdateTimeAfter(s, n)
<1>1. at \in Nat \ {0}
  BY UpdateTimePositive
<1>2. /\ t.status = "moving" /\ t.turnUser = s.turnUser /\ t.turnSeq = s.turnSeq
      /\ t.winner = s.winner /\ t.sunk = s.sunk /\ t.turnDeadline = 0
      /\ t.creatorScore = s.creatorScore /\ t.opponentScore = s.opponentScore
      /\ t.updatedAt = at /\ t.shooter = user
  BY DEF startShot, Snapshots
<1> HIDE DEF t, at
<1>3. Exists(s) /\ s.status # "finished"
  BY DEF Exists, Sound, TurnIsSound
<1>4. TurnIsSound(s) /\ ScoreIsSound(s) /\ TableIsOpen(s)
  BY <1>3 DEF Sound
<1>5. ScoreIsSound(t) /\ TableIsOpen(t)
  BY <1>2, <1>4 DEF ScoreIsSound, TableIsOpen
<1>6. TurnIsSound(t)
  BY <1>1, <1>2, <1>4 DEF TurnIsSound
<1>7. Sound(t)
  BY <1>5, <1>6 DEF Sound
<1> QED BY <1>7 DEF t

\* A ball scores once: the points of the balls that were sunk before and of
\* those that this shot added are the points of those that are sunk now.
LEMMA ScoreOfSunkBalls ==
    ASSUME NEW s \in Snapshots, NEW result \in ShotResult(MaxTurns),
           NEW side, side \subseteq Balls, preservesPreviouslySunkTargets(s, result)
    PROVE  BallPoints * Cardinality(s.sunk \cap side) + scored(s, result, side)
               = BallPoints * Cardinality(result.sunk \cap side)
<1> DEFINE old == s.sunk \cap side
           new == (result.sunk \ s.sunk) \cap side
<1>1. old \cup new = result.sunk \cap side /\ old \cap new = {}
  BY DEF preservesPreviouslySunkTargets
<1>2. /\ IsFiniteSet(old) /\ Cardinality(old) \in Nat
      /\ IsFiniteSet(new) /\ Cardinality(new) \in Nat
  <2>1. old \subseteq Balls /\ new \subseteq Balls
    OBVIOUS
  <2> QED BY <2>1, BallSetsFinite
<1>3. Cardinality(old \cup new) = Cardinality(old) + Cardinality(new) - Cardinality(old \cap new)
  BY <1>2, FS_Union
<1>4. Cardinality(old \cap new) = 0
  BY <1>1, FS_EmptySet
<1> DEFINE a == Cardinality(old)  b == Cardinality(new)
<1>5. Cardinality(result.sunk \cap side) = a + b
  <2>1. Cardinality(result.sunk \cap side) = Cardinality(old \cup new)
    BY <1>1
  <2> HIDE DEF old, new
  <2> QED BY <1>2, <1>3, <1>4, <2>1
<1>6. a \in Nat /\ b \in Nat
  BY <1>2
<1> HIDE DEF a, b
<1>7. 10 * a + 10 * b = 10 * (a + b)
  BY <1>6
<1> QED BY <1>5, <1>7 DEF a, b, scored, BallPoints

\* A shot without a winner left both players' balls and the black one.
LEMMA UndecidedShot ==
    ASSUME NEW s \in Snapshots, NEW r \in Rooms, NEW result \in ShotResult(MaxTurns),
           s.shooter \in Users, r.opponent = Opponent, BlackBall \notin s.sunk,
           winnerAfterShot(r, s, result) = NoUser
    PROVE  /\ ~(CreatorBalls \subseteq result.sunk)
           /\ ~(OpponentBalls \subseteq result.sunk)
           /\ BlackBall \notin result.sunk
<1> DEFINE role == roleForUser(r, s.shooter)
           role2 == resolveServerWinnerRole(result.sunk,
                        s.creatorScore  + scored(s, result, CreatorBalls),
                        s.opponentScore + scored(s, result, OpponentBalls), role)
<1>1. role \in {"creator", "opponent"}
  BY PlayersDiffer DEF roleForUser, isRoomParticipant, Users
<1>2. opponentUserIDFor(r, s.shooter) \in Users
  BY PlayersDiffer DEF opponentUserIDFor, roleForUser, isRoomParticipant, Users
<1>3. NoUser \notin Users
  BY PlayersDiffer DEF Users
<1>4. BlackBall \notin result.sunk \ s.sunk /\ userForRole(r, role2) = NoUser
  BY <1>2, <1>3 DEF winnerAfterShot
<1>5. role2 \notin {"creator", "opponent"}
  BY <1>4, PlayersDiffer DEF userForRole
<1> HIDE DEF role
<1>6. ~(CreatorBalls \subseteq result.sunk) /\ ~(OpponentBalls \subseteq result.sunk)
  BY <1>1, <1>5 DEF resolveServerWinnerRole
<1> QED BY <1>4, <1>6

LEMMA ShotResultIsSound ==
    ASSUME NEW s \in Snapshots, NEW r \in Rooms, NEW result \in ShotResult(MaxTurns),
           NEW n \in Nat \ {0}, Sound(s), r.opponent = Opponent, acceptsShotResult(s, result)
    PROVE  Sound(applyShotResult(r, s, result, n))
<1> DEFINE t == applyShotResult(r, s, result, n)
           winner == winnerAfterShot(r, s, result)
<1>1. /\ s.status = "moving" /\ Exists(s) /\ s.shooter = s.turnUser /\ s.shooter \in Users
      /\ s.winner = NoUser /\ BlackBall \notin s.sunk
  <2>1. s.status = "moving" /\ Exists(s)
    BY DEF acceptsShotResult, Exists
  <2> QED BY <2>1 DEF Sound, TurnIsSound, TableIsOpen
<1>2. t.updatedAt > 0
  BY UpdateTimePositive DEF applyShotResult
<1>3. t.turnUser \in Users
  <2>1. nextTurnUserIDFor(r, s.turnUser) \in Users
    BY NextTurnType
  <2> QED BY <1>1, <2>1 DEF applyShotResult
<1>4. t.turnSeq > 0
  BY <1>1 DEF Sound, TurnIsSound, Snapshots, applyShotResult
<1>5. /\ t.shooter = NoUser /\ t.turnDeadline = 0 /\ t.winner = winner /\ t.sunk = result.sunk
      /\ t.status = IF winner = NoUser THEN "aiming" ELSE "finished"
  BY DEF applyShotResult
<1>6. /\ t.creatorScore = BallPoints * Cardinality(result.sunk \cap CreatorBalls)
      /\ t.opponentScore = BallPoints * Cardinality(result.sunk \cap OpponentBalls)
  <2>1. preservesPreviouslySunkTargets(s, result)
    BY DEF acceptsShotResult
  <2>2. CreatorBalls \subseteq Balls /\ OpponentBalls \subseteq Balls
    BY DEF Balls
  <2>3. /\ t.creatorScore = s.creatorScore + scored(s, result, CreatorBalls)
        /\ t.opponentScore = s.opponentScore + scored(s, result, OpponentBalls)
    BY DEF applyShotResult
  <2>4. /\ s.creatorScore = BallPoints * Cardinality(s.sunk \cap CreatorBalls)
        /\ s.opponentScore = BallPoints * Cardinality(s.sunk \cap OpponentBalls)
    BY <1>1 DEF Sound, ScoreIsSound
  <2>5. ASSUME NEW side, side \subseteq Balls
        PROVE  BallPoints * Cardinality(s.sunk \cap side) + scored(s, result, side)
                   = BallPoints * Cardinality(result.sunk \cap side)
    BY <2>1, <2>5, ScoreOfSunkBalls
  <2> HIDE DEF t
  <2> QED BY <2>2, <2>3, <2>4, <2>5
<1>7. winner = NoUser => /\ ~(CreatorBalls \subseteq result.sunk)
                         /\ ~(OpponentBalls \subseteq result.sunk)
                         /\ BlackBall \notin result.sunk
  BY <1>1, UndecidedShot
<1> HIDE DEF t, winner
<1>8. TurnIsSound(t)
  BY <1>2, <1>3, <1>4, <1>5 DEF TurnIsSound
<1>9. ScoreIsSound(t) /\ (t.status # "finished" => TableIsOpen(t))
  BY <1>5, <1>6, <1>7 DEF ScoreIsSound, TableIsOpen
<1>10. Sound(t)
  BY <1>8, <1>9 DEF Sound
<1> QED BY <1>10 DEF t

-----------------------------------------------------------------------------
(***************************************************************************)
(* What a goroutine holds after a step, and what it puts into the cache.   *)
(***************************************************************************)
LEMMA SetKeepsSound ==
    ASSUME IInv, NEW w \in Workers, NEW r, Set(w, r), Sound(r.snap),
           r.job \notin {"none", "leave"} => r.room.opponent = Opponent
    PROVE  HeldIsSound' /\ WorkKnowsOpponent'
<1>1. work' = [work EXCEPT ![w] = r] /\ work \in [Workers -> Works]
  BY DEF Set, IInv, TypeOK
<1>2. ASSUME NEW v \in Workers
      PROVE  /\ Sound(work'[v].snap)
             /\ work'[v].job \notin {"none", "leave"} => work'[v].room.opponent = Opponent
  BY <1>1 DEF IInv, HeldIsSound, WorkKnowsOpponent
<1> QED BY <1>2 DEF HeldIsSound, WorkKnowsOpponent

LEMMA DoneKeepsSound ==
    ASSUME IInv, NEW w \in Workers, Done(w)
    PROVE  HeldIsSound' /\ WorkKnowsOpponent'
<1>1. Sound(Idle.snap) /\ Idle.job = "none"
  BY NoneIsSound DEF Idle
<1> QED BY <1>1, SetKeepsSound DEF Done

LEMMA GotoKeepsSound ==
    ASSUME IInv, NEW w \in Workers, NEW pc, Goto(w, pc)
    PROVE  HeldIsSound' /\ WorkKnowsOpponent'
<1> DEFINE r == [work[w] EXCEPT !.pc = pc]
<1>1. r.snap = work[w].snap /\ r.job = work[w].job /\ r.room = work[w].room
  BY DEF IInv, TypeOK, Works
<1>2. Sound(r.snap) /\ (r.job \notin {"none", "leave"} => r.room.opponent = Opponent)
  BY <1>1 DEF IInv, HeldIsSound, WorkKnowsOpponent
<1> QED BY <1>2, SetKeepsSound DEF Goto

LEMMA HoldKeepsSound ==
    ASSUME IInv, NEW w \in Workers, NEW pc, NEW s, Sound(s),
           Set(w, [work[w] EXCEPT !.pc = pc, !.snap = s])
    PROVE  HeldIsSound' /\ WorkKnowsOpponent'
<1> DEFINE r == [work[w] EXCEPT !.pc = pc, !.snap = s]
<1>1. r.snap = s /\ r.job = work[w].job /\ r.room = work[w].room
  BY DEF IInv, TypeOK, Works
<1>2. Sound(r.snap) /\ (r.job \notin {"none", "leave"} => r.room.opponent = Opponent)
  BY <1>1 DEF IInv, WorkKnowsOpponent
<1> QED BY <1>2, SetKeepsSound

LEMMA StageKeepsSound ==
    ASSUME IInv, NEW w \in Workers, NEW s, NEW pc, Sound(s), Stage(w, s, pc)
    PROVE  Sound(cache') /\ HeldIsSound' /\ WorkKnowsOpponent'
<1>1. CASE cache' = s /\ Set(w, [work[w] EXCEPT !.pc = pc, !.snap = s])
  BY <1>1, HoldKeepsSound
<1>2. CASE FailWith(w, timer) /\ UNCHANGED cache
  BY <1>2, DoneKeepsSound DEF FailWith, IInv, StoredIsSound
<1> QED BY <1>1, <1>2 DEF Stage

LEMMA NoCanonicalKeepsSound ==
    ASSUME IInv, NEW w \in Workers, NoCanonicalSnapshot(w)
    PROVE  Sound(cache') /\ HeldIsSound' /\ WorkKnowsOpponent'
<1>1. Sound(newInitialMatchSnapshot(now))
  BY InitialIsSound DEF IInv, TypeOK
<1>2. CASE Stage(w, newInitialMatchSnapshot(now), "create")
  BY <1>1, <1>2, StageKeepsSound
<1>3. CASE FailWith(w, timer) /\ UNCHANGED cache
  BY <1>3, DoneKeepsSound DEF FailWith, IInv, StoredIsSound
<1> QED BY <1>2, <1>3 DEF NoCanonicalSnapshot

LEMMA AfterSectionKeepsSound ==
    ASSUME IInv, NEW w \in Workers, NEW s, Set(w, AfterSection(w, s))
    PROVE  HeldIsSound' /\ WorkKnowsOpponent'
<1>1. CASE Set(w, [work[w] EXCEPT !.pc = "event", !.snap = NoSnapshot])
  BY <1>1, NoneIsSound, HoldKeepsSound
<1>2. CASE Goto(w, "finish")
  BY <1>2, GotoKeepsSound
<1>3. CASE Done(w)
  BY <1>3, DoneKeepsSound
<1> QED BY <1>1, <1>2, <1>3 DEF AfterSection, Goto, Done

-----------------------------------------------------------------------------
(***************************************************************************)
(* Every action keeps the snapshots sound.                                 *)
(***************************************************************************)
SoundNext == StoredIsSound' /\ HeldIsSound' /\ RoomHasOpponent' /\ WorkKnowsOpponent'

LEMMA ReconcileKeepsSound ==
    ASSUME IInv, NEW w \in Workers, Reconcile(w)
    PROVE  SoundNext
<1> DEFINE s == work[w].snap
           r == work[w].room
<1>1. s \in Snapshots /\ r \in Rooms /\ Sound(s) /\ now \in Nat \ {0} /\ now \in Nat
  BY DEF IInv, TypeOK, Works, HeldIsSound
<1>2. CASE reconcileDue(s) /\ Stage(w, reconciled(r, s), "persist")
  <2>1. Exists(s) /\ s.winner = NoUser
    BY <1>2 DEF reconcileDue, isTurnExpired, turnPrepareDue, shotResultExpired, Undecided, Exists
  <2>2. Sound(applyTurnTimeout(r, s, now)) /\ Sound(applyShotResultTimeout(r, s, now))
    BY <1>1, <2>1, NextTurnType, PassTurnIsSound DEF applyTurnTimeout, applyShotResultTimeout
  <2>3. s.status = "aiming" => Sound(startTurnClock(s, now))
    BY <1>1, ClockIsSound
  <2>4. Sound(reconciled(r, s))
    BY <1>2, <2>2, <2>3 DEF reconciled, reconcileDue, turnPrepareDue, Undecided
  <2>5. Sound(cache') /\ HeldIsSound' /\ WorkKnowsOpponent'
    BY <1>2, <2>4, StageKeepsSound
  <2> QED BY <2>5 DEF Reconcile, SoundNext, IInv, StoredIsSound, RoomHasOpponent
<1>3. CASE Set(w, AfterSection(w, s)) /\ UNCHANGED cache
  <2>1. HeldIsSound' /\ WorkKnowsOpponent'
    BY <1>3, AfterSectionKeepsSound
  <2> QED BY <1>3, <2>1 DEF Reconcile, SoundNext, IInv, StoredIsSound, RoomHasOpponent
<1> QED BY <1>2, <1>3 DEF Reconcile

LEMMA SectionKeepsSound ==
    ASSUME IInv, NEW w \in Workers, Section(w)
    PROVE  SoundNext
<1> USE DEF IInv, SoundNext, StoredIsSound, RoomHasOpponent
<1>1. CASE Enter(w)
  <2>1. HeldIsSound' /\ WorkKnowsOpponent'
    BY <1>1, HoldKeepsSound, GotoKeepsSound DEF Enter
  <2> QED BY <1>1, <2>1 DEF Enter
<1>2. CASE Load(w)
  <2>1. CASE NoCanonicalSnapshot(w)
    BY <1>2, <2>1, NoCanonicalKeepsSound DEF Load
  <2>2. CASE Set(w, [work[w] EXCEPT !.pc = "fill", !.snap = stored]) /\ UNCHANGED cache
    <3>1. HeldIsSound' /\ WorkKnowsOpponent'
      BY <2>2, HoldKeepsSound
    <3> QED BY <1>2, <2>2, <3>1 DEF Load
  <2> QED BY <1>2, <2>1, <2>2 DEF Load
<1>3. CASE Fill(w)
  <2>1. CASE NoCanonicalSnapshot(w)
    BY <1>3, <2>1, NoCanonicalKeepsSound DEF Fill
  <2>2. CASE cache' = work[w].snap /\ Goto(w, "decide")
    <3>1. HeldIsSound' /\ WorkKnowsOpponent'
      BY <2>2, GotoKeepsSound
    <3> QED BY <1>3, <2>2, <3>1 DEF Fill, HeldIsSound
  <2> QED BY <1>3, <2>1, <2>2 DEF Fill
<1>4. CASE Reconcile(w)
  BY <1>4, ReconcileKeepsSound
<1>5. CASE Persist(w)
  <2>1. CASE PersistSucceeds(w)
    <3>1. HeldIsSound' /\ WorkKnowsOpponent'
      BY <2>1, GotoKeepsSound, AfterSectionKeepsSound DEF PersistSucceeds
    <3> QED BY <1>5, <2>1, <3>1 DEF Persist, PersistSucceeds, HeldIsSound
  <2>2. CASE PersistFails(w)
    <3>1. HeldIsSound' /\ WorkKnowsOpponent'
      BY <2>2, DoneKeepsSound DEF PersistFails, FailWith
    <3> QED BY <1>5, <2>2, <3>1, NoneIsSound DEF Persist, PersistFails
  <2> QED BY <1>5, <2>1, <2>2 DEF Persist
<1> QED BY <1>1, <1>2, <1>3, <1>4, <1>5 DEF Section

LEMMA DecisionKeepsSound ==
    ASSUME IInv, NEW u \in Users,
           TurnReady(u) \/ ShotStarted(u) \/ ShotResultSubmitted(u) \/ Deal(u)
    PROVE  SoundNext
<1> DEFINE s == work[u].snap
           r == work[u].room
           Kept == Sound(cache') /\ HeldIsSound' /\ WorkKnowsOpponent'
<1>1. /\ s \in Snapshots /\ r \in Rooms /\ Sound(s)
      /\ now \in Nat \ {0} /\ u \in Workers
  BY DEF IInv, TypeOK, Works, HeldIsSound, Workers
<1>2. work[u].job \notin {"none", "leave"} => r.opponent = Opponent
  BY <1>1 DEF IInv, WorkKnowsOpponent
<1>3. ASSUME NEW t, Sound(t), Stage(u, t, "persist")
      PROVE  Kept
  BY <1>1, <1>3, StageKeepsSound
<1>4. ASSUME Refuse(u)
      PROVE  Kept
  BY <1>1, <1>4, DoneKeepsSound DEF Refuse, IInv, StoredIsSound
<1>5. Kept
  <2> HIDE DEF Kept
  <2>1. CASE TurnReady(u)
    <3>1. s.status = "aiming" => Sound(startTurnClock(s, now))
      BY <1>1, ClockIsSound
    <3>2. (s.status = "aiming" /\ Stage(u, startTurnClock(s, now), "persist")) \/ Refuse(u)
      BY <2>1 DEF TurnReady, Undecided
    <3> QED BY <1>3, <1>4, <3>1, <3>2
  <2>2. CASE ShotStarted(u)
    <3>1. s.status = "aiming" /\ s.turnUser = u => Sound(startShot(s, u, now))
      BY <1>1, StartShotIsSound
    <3>2. isTurnExpired(s, now) => Sound(applyTurnTimeout(r, s, now))
      BY <1>1, NextTurnType, PassTurnIsSound
         DEF applyTurnTimeout, isTurnExpired, Undecided, Exists
    <3>3. \/ isTurnExpired(s, now) /\ Stage(u, applyTurnTimeout(r, s, now), "persist")
          \/ s.status = "aiming" /\ s.turnUser = u /\ Stage(u, startShot(s, u, now), "persist")
          \/ Refuse(u)
      BY <2>2 DEF ShotStarted, Undecided
    <3> QED BY <1>3, <1>4, <3>1, <3>2, <3>3
  <2>3. CASE ShotResultSubmitted(u)
    <3>1. ASSUME NEW result \in ShotResult(MaxTurns), acceptsShotResult(s, result)
          PROVE  Sound(applyShotResult(r, s, result, now))
      <4>1. r.opponent = Opponent
        BY <1>2, <2>3 DEF ShotResultSubmitted
      <4> QED BY <1>1, <3>1, <4>1, ShotResultIsSound
    <3>2. PICK result \in ShotResult(MaxTurns) :
            \/ acceptsShotResult(s, result)
               /\ Stage(u, applyShotResult(r, s, result, now), "persist")
            \/ Refuse(u)
      BY <2>3 DEF ShotResultSubmitted
    <3> QED BY <1>3, <1>4, <3>1, <3>2
  <2>4. CASE Deal(u)
    BY <1>1, <1>3, <2>4, InitialIsSound DEF Deal
  <2> QED BY <2>1, <2>2, <2>3, <2>4
<1>6. UNCHANGED <<room, stored>>
  BY DEF TurnReady, ShotStarted, ShotResultSubmitted, Deal
<1> QED BY <1>5, <1>6 DEF SoundNext, IInv, StoredIsSound, RoomHasOpponent

LEMMA RoomKeepsSound ==
    ASSUME IInv,
           \/ Join \/ StartMatch \/ LeaveClears \/ LeaveDeletes \/ Tick \/ Crash
           \/ \E role \in {"creator", "opponent"} : Leave(role)
    PROVE  SoundNext
<1> USE DEF IInv, SoundNext, StoredIsSound, RoomHasOpponent
<1>1. CASE Join \/ Tick
  <2>1. UNCHANGED <<work, stored, cache>> /\ RoomHasOpponent'
    BY <1>1 DEF Join, Tick, TypeOK, Rooms
  <2> QED BY <2>1 DEF HeldIsSound, WorkKnowsOpponent
<1>2. CASE StartMatch
  <2> DEFINE r == [Idle EXCEPT !.pc = "clear", !.job = "match_start", !.room = room']
  <2>1. room'.opponent = Opponent /\ r.snap = NoSnapshot /\ r.room = room'
    BY <1>2 DEF StartMatch, TypeOK, Rooms, Idle
  <2>2. HeldIsSound' /\ WorkKnowsOpponent'
    <3>1. Creator \in Workers
      BY DEF Workers, Users
    <3>2. Set(Creator, r)
      BY <1>2 DEF StartMatch
    <3> QED BY <2>1, <3>1, <3>2, NoneIsSound, SetKeepsSound
  <2> QED BY <1>2, <2>1, <2>2 DEF StartMatch
<1>3. ASSUME NEW role, Leave(role)
      PROVE  SoundNext
  <2> DEFINE r == [Idle EXCEPT !.pc = "clear", !.job = "leave"]
  <2>1. r.snap = NoSnapshot /\ r.job = "leave"
    BY DEF Idle
  <2>2. HeldIsSound' /\ WorkKnowsOpponent'
    <3>1. Leaver \in Workers
      BY DEF Workers
    <3>2. Set(Leaver, r)
      BY <1>3 DEF Leave
    <3> QED BY <2>1, <3>1, <3>2, NoneIsSound, SetKeepsSound
  <2>3. room'.status \notin {"playing", "finished"}
    BY <1>3 DEF Leave, TypeOK, Rooms
  <2> QED BY <1>3, <2>2, <2>3 DEF Leave
<1>4. CASE LeaveClears
  <2>1. HeldIsSound' /\ WorkKnowsOpponent'
    BY <1>4, GotoKeepsSound DEF LeaveClears, Workers
  <2> QED BY <1>4, <2>1, NoneIsSound DEF LeaveClears, clearCachedSnapshot
<1>5. CASE LeaveDeletes
  <2>1. HeldIsSound' /\ WorkKnowsOpponent'
    BY <1>5, DoneKeepsSound DEF LeaveDeletes, Workers
  <2> QED BY <1>5, <2>1, NoneIsSound DEF LeaveDeletes
<1>6. CASE Crash
  <2>1. Idle.snap = NoSnapshot /\ Idle.job = "none"
    BY DEF Idle
  <2>2. HeldIsSound' /\ WorkKnowsOpponent'
    BY <1>6, <2>1, NoneIsSound DEF Crash, HeldIsSound, WorkKnowsOpponent
  <2> QED BY <1>6, <2>2, NoneIsSound DEF Crash
<1> QED BY <1>1, <1>2, <1>3, <1>4, <1>5, <1>6

LEMMA ConnectionKeepsSound ==
    ASSUME IInv, NEW u \in Users,
           \/ RequestRematch(u) \/ Receive(u) \/ Restart(u) \/ StartClears(u)
           \/ Dispatch(u) \/ Peek(u) \/ PeekFill(u) \/ Finish(u)
    PROVE  SoundNext
<1> USE DEF IInv, SoundNext, StoredIsSound, RoomHasOpponent
<1>1. u \in Workers /\ work[u] \in Works /\ Sound(work[u].snap)
  BY DEF Workers, TypeOK, HeldIsSound
<1>2. ASSUME NEW r, Set(u, r), r.snap = NoSnapshot, r.room = room,
             room.status \in {"playing", "finished"}
      PROVE  HeldIsSound' /\ WorkKnowsOpponent'
  BY <1>1, <1>2, NoneIsSound, SetKeepsSound
<1>3. CASE RequestRematch(u)
  <2> DEFINE r == [Idle EXCEPT !.pc = "restart", !.job = "rematch_request", !.room = room]
  <2>1. r.snap = NoSnapshot /\ r.room = room
    BY DEF Idle
  <2>2. UNCHANGED <<stored, cache, room>> /\ room.status = "finished" /\ (Set(u, r) \/ UNCHANGED work)
    BY <1>3 DEF RequestRematch
  <2> HIDE DEF r
  <2>3. HeldIsSound' /\ WorkKnowsOpponent'
    BY <1>2, <2>1, <2>2 DEF HeldIsSound, WorkKnowsOpponent
  <2> QED BY <2>2, <2>3
<1>4. CASE Receive(u)
  <2>1. ASSUME NEW row, Set(u, Reconciling(row)), row.opponent = Opponent
        PROVE  HeldIsSound' /\ WorkKnowsOpponent'
    <3> DEFINE r == Reconciling(row)
    <3>1. r.snap = NoSnapshot /\ r.room = row /\ Set(u, r)
      BY <2>1 DEF Idle, Reconciling
    <3> HIDE DEF r
    <3> QED BY <1>1, <2>1, <3>1, NoneIsSound, SetKeepsSound
  <2>2. CopyOfMatch.opponent = Opponent /\ (room.status = "playing" => room.opponent = Opponent)
    BY DEF CopyOfMatch
  <2>3. UNCHANGED <<stored, cache, room>>
    BY <1>4 DEF Receive
  <2>4. HeldIsSound' /\ WorkKnowsOpponent'
    BY <1>4, <2>1, <2>2 DEF Receive
  <2> QED BY <2>3, <2>4
<1>5. CASE Restart(u)
  <2>1. CASE /\ room.opponent # NoUser
             /\ room' = [room EXCEPT !.status = "playing"]
             /\ Set(u, [work[u] EXCEPT !.pc = "clear", !.room = room'])
    <3> DEFINE r == [work[u] EXCEPT !.pc = "clear", !.room = room']
    <3>1. room'.opponent = Opponent
      BY <2>1 DEF TypeOK, Rooms
    <3>2. r.snap = work[u].snap /\ r.room = room'
      BY <1>1 DEF Works
    <3>3. HeldIsSound' /\ WorkKnowsOpponent'
      BY <1>1, <2>1, <3>1, <3>2, SetKeepsSound
    <3> QED BY <1>5, <3>1, <3>3 DEF Restart
  <2>2. CASE Done(u) /\ UNCHANGED room
    <3>1. HeldIsSound' /\ WorkKnowsOpponent'
      BY <1>1, <2>2, DoneKeepsSound
    <3> QED BY <1>5, <2>2, <3>1 DEF Restart
  <2> QED BY <1>5, <2>1, <2>2 DEF Restart
<1>6. CASE StartClears(u)
  <2>1. HeldIsSound' /\ WorkKnowsOpponent'
    BY <1>1, <1>6, GotoKeepsSound DEF StartClears
  <2> QED BY <1>6, <2>1, NoneIsSound DEF StartClears, clearCachedSnapshot
<1>7. CASE Dispatch(u)
  <2>1. ASSUME NEW pc, NEW job, Set(u, [work[u] EXCEPT !.pc = pc, !.job = job])
        PROVE  HeldIsSound' /\ WorkKnowsOpponent'
    <3> DEFINE r == [work[u] EXCEPT !.pc = pc, !.job = job]
    <3>1. r.snap = work[u].snap /\ r.room = work[u].room
      BY <1>1 DEF Works
    <3>2. work[u].room.opponent = Opponent
      BY <1>1, <1>7 DEF Dispatch, WorkKnowsOpponent
    <3> QED BY <1>1, <2>1, <3>1, <3>2, SetKeepsSound
  <2>2. HeldIsSound' /\ WorkKnowsOpponent'
    BY <1>1, <1>7, <2>1, DoneKeepsSound DEF Dispatch
  <2> QED BY <1>7, <2>2 DEF Dispatch
<1>8. CASE Peek(u)
  <2>1. [work[u] EXCEPT !.pc = "peekFill", !.snap = stored].snap = stored
    BY <1>1 DEF Works
  <2>2. HeldIsSound' /\ WorkKnowsOpponent'
    BY <1>1, <1>8, HoldKeepsSound, DoneKeepsSound DEF Peek
  <2> QED BY <1>8, <2>2 DEF Peek
<1>9. CASE PeekFill(u)
  <2>1. HeldIsSound' /\ WorkKnowsOpponent'
    BY <1>1, <1>9, DoneKeepsSound DEF PeekFill
  <2> QED BY <1>1, <1>9, <2>1 DEF PeekFill
<1>10. CASE Finish(u)
  <2>1. HeldIsSound' /\ WorkKnowsOpponent'
    BY <1>1, <1>10, DoneKeepsSound DEF Finish
  <2>2. RoomHasOpponent'
    BY <1>10 DEF Finish, TypeOK, Rooms
  <2> QED BY <1>10, <2>1, <2>2 DEF Finish
<1> QED BY <1>3, <1>4, <1>5, <1>6, <1>7, <1>8, <1>9, <1>10

LEMMA InitSound == Init => IInv
<1> SUFFICES ASSUME Init PROVE IInv
  OBVIOUS
<1>1. TypeOK
  BY InitTyped
<1>2. stored = NoSnapshot /\ cache = NoSnapshot /\ work = [w \in Workers |-> Idle]
  BY DEF Init
<1>3. Idle.snap = NoSnapshot /\ Idle.job = "none"
  BY DEF Idle
<1>4. StoredIsSound /\ HeldIsSound /\ WorkKnowsOpponent
  BY <1>2, <1>3, NoneIsSound DEF StoredIsSound, HeldIsSound, WorkKnowsOpponent
<1>5. RoomHasOpponent
  BY DEF Init, RoomHasOpponent
<1> QED BY <1>1, <1>4, <1>5 DEF IInv

LEMMA NextKeepsSound ==
    ASSUME IInv, [Next]_vars
    PROVE  IInv'
<1>1. TypeOK'
  BY NextKeepsType DEF IInv
<1>2. CASE UNCHANGED vars
  BY <1>1, <1>2 DEF vars, IInv, StoredIsSound, HeldIsSound, RoomHasOpponent, WorkKnowsOpponent
<1>3. CASE Next
  <2>1. ASSUME \/ Join \/ StartMatch \/ LeaveClears \/ LeaveDeletes \/ Tick \/ Crash
               \/ \E role \in {"creator", "opponent"} : Leave(role)
        PROVE  SoundNext
    BY <2>1, RoomKeepsSound
  <2>2. ASSUME NEW u \in Users, RequestRematch(u) \/ Receive(u) \/ Connection(u)
        PROVE  SoundNext
    BY <2>2, ConnectionKeepsSound, DecisionKeepsSound DEF Connection
  <2>3. ASSUME NEW g \in Goroutines, NEW k \in Kinds, Fire(g, k)
        PROVE  SoundNext
    <3> DEFINE r == [Idle EXCEPT !.pc = "enter", !.job = k, !.seq = timer[k].seq, !.room = room]
    <3>1. g \in Workers /\ r.snap = NoSnapshot /\ r.room = room
      BY DEF Workers, Idle
    <3>2. /\ UNCHANGED <<stored, cache, room>>
          /\ (room.status = "playing" /\ Set(g, r)) \/ UNCHANGED work
      BY <2>3 DEF Fire
    <3> HIDE DEF r
    <3>3. HeldIsSound' /\ WorkKnowsOpponent'
      <4>1. CASE room.status = "playing" /\ Set(g, r)
        BY <3>1, <4>1, NoneIsSound, SetKeepsSound DEF IInv, RoomHasOpponent
      <4>2. CASE UNCHANGED work
        BY <4>2 DEF IInv, HeldIsSound, WorkKnowsOpponent
      <4> QED BY <3>2, <4>1, <4>2
    <3> QED BY <3>2, <3>3 DEF SoundNext, IInv, StoredIsSound, RoomHasOpponent
  <2>4. ASSUME NEW w \in Workers, Section(w)
        PROVE  SoundNext
    BY <2>4, SectionKeepsSound
  <2>5. SoundNext
    BY <1>3, <2>1, <2>2, <2>3, <2>4 DEF Next
  <2> QED BY <1>1, <2>5 DEF IInv, SoundNext
<1> QED BY <1>2, <1>3

\* The stored and the cached snapshot are consistent in every state: a winner
\* and "finished" come together, the shot is the turn's user's, a ball never
\* scores twice, and no match goes on after it was decided.
THEOREM StoredAlwaysSound == Spec => []StoredIsSound
<1>1. Init => IInv
  BY InitSound
<1>2. IInv /\ [Next]_vars => IInv'
  BY NextKeepsSound
<1>3. IInv => StoredIsSound
  BY DEF IInv
<1> QED BY <1>1, <1>2, <1>3, PTL DEF Spec
=============================================================================
