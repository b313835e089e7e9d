----------------------- MODULE MatchServerLockProofs ------------------------
(***************************************************************************)
(* What matchStateMu is for.  Without cue_state, the only handler that     *)
(* fills the cache outside it, one goroutine at a time is in a locked      *)
(* section, what it holds is what the cache and the database hold, and so  *)
(* the cache never differs from the row, the row only gets newer, and the  *)
(* first snapshot of a match is never refused: for any number of timers'   *)
(* goroutines, any stalls, leaves, crashes and failed reads and writes.    *)
(* When a goroutine may not lag behind a deadline while match_start is on  *)
(* its way to the lock, a finished room also has its result; and if nobody *)
(* leaves and no read fails, the referee implements MatchTurns.            *)
(***************************************************************************)
EXTENDS MatchServerProofs

(***************************************************************************)
(* The inductive invariant.  Holds says, of each step of a section, what   *)
(* the goroutine's snapshot has to do with the cache and the row; a leave  *)
(* may empty the one and delete the other at any moment.                   *)
(***************************************************************************)
StartJobs == {"match_start", "rematch_request"}

Left == Happened("leave")

BudgetInv == \A e \in Events : budget[e] <= Budget[e]

MutexInv == \A w \in Workers : work[w].pc \in LockedSteps <=> lock = w

Starts(w, job) ==
    /\ job \in StartJobs => w \in Users
    /\ job = "match_start" => w = Creator

StepOf(w) ==
    /\ work[w].pc \notin {"peek", "peekFill"}
    /\ w = Leaver => work[w].pc \in {"idle", "clear", "delete"} /\ (~At(w, "idle") => Left)
    /\ At(w, "delete") => w = Leaver
    /\ At(w, "clear") => w = Leaver \/ work[w].job \in StartJobs
    /\ At(w, "deal") => work[w].job \in StartJobs
    /\ At(w, "restart") => work[w].job = "rematch_request"
    /\ Starts(w, work[w].job)

StepsInv == \A w \in Workers : StepOf(w)

Whole(s) == Exists(s) \/ s = NoSnapshot

WholeInv ==
    /\ Whole(stored) /\ Whole(cache)
    /\ \A w \in Workers : Whole(work[w].snap)

CacheIs(s)  == cache = s \/ (Left /\ cache = NoSnapshot)
StoredIs(s) == stored = s \/ (Left /\ stored = NoSnapshot)

MayBeStored(w, s) ==
    \/ stored = NoSnapshot
    \/ snapshotIsNewer(s, stored)
    \/ At(w, "persist") /\ work[w].job \in StartJobs
    \/ Happened("readFault")

Holds(w) ==
    LET s == work[w].snap
    IN  /\ work[w].pc \in {"load", "deal"} => cache = NoSnapshot
        /\ At(w, "fill") => cache = NoSnapshot /\ Exists(s) /\ StoredIs(s)
        /\ At(w, "decide") => Exists(s) /\ CacheIs(s) /\ StoredIs(s)
        /\ work[w].pc \in {"create", "persist"} => Exists(s) /\ CacheIs(s) /\ MayBeStored(w, s)

HoldsInv == \A w \in Workers : Holds(w)

LockInv == BudgetInv /\ MutexInv /\ StepsInv /\ WholeInv /\ HoldsInv /\ CacheIsStored

-----------------------------------------------------------------------------
(***************************************************************************)
(* Every move of the rules makes a newer version of an existing snapshot.  *)
(***************************************************************************)
LEMMA ClockIsNewer ==
    ASSUME NEW s \in Snapshots, NEW n \in Nat, Exists(s)
    PROVE  Exists(startTurnClock(s, n)) /\ snapshotIsNewer(startTurnClock(s, n), s)
<1> DEFINE t == startTurnClock(s, n)
<1>1. t.status = s.status /\ t.shotSeq = s.shotSeq /\ t.turnSeq = s.turnSeq
  BY DEF startTurnClock, Snapshots
<1>2. t.updatedAt > s.updatedAt
  BY DEF startTurnClock, snapshotUpdateTimeAfter, Snapshots
<1> QED BY <1>1, <1>2 DEF Exists, snapshotIsNewer

LEMMA PassTurnIsNewer ==
    ASSUME NEW s \in Snapshots, NEW n, NEW user
    PROVE  Exists(passTurn(s, user, n)) /\ snapshotIsNewer(passTurn(s, user, n), s)
<1> DEFINE t == passTurn(s, user, n)
<1>1. t.status = "aiming" /\ t.shotSeq = s.shotSeq /\ t.turnSeq = s.turnSeq + 1
  BY DEF passTurn, Snapshots
<1>2. s.turnSeq + 1 > s.turnSeq
  BY DEF Snapshots
<1> QED BY <1>1, <1>2 DEF Exists, snapshotIsNewer

LEMMA StartShotIsNewer ==
    ASSUME NEW s \in Snapshots, NEW n, NEW user
    PROVE  Exists(startShot(s, user, n)) /\ snapshotIsNewer(startShot(s, user, n), s)
<1> DEFINE t == startShot(s, user, n)
<1>1. t.status = "moving" /\ t.shotSeq = s.shotSeq + 1
  BY DEF startShot, Snapshots
<1>2. s.shotSeq + 1 > s.shotSeq
  BY DEF Snapshots
<1> QED BY <1>1, <1>2 DEF Exists, snapshotIsNewer

LEMMA ShotResultIsNewer ==
    ASSUME NEW s \in Snapshots, NEW n \in Nat, NEW r, NEW result
    PROVE  /\ Exists(applyShotResult(r, s, result, n))
           /\ snapshotIsNewer(applyShotResult(r, s, result, n), s)
<1> DEFINE t == applyShotResult(r, s, result, n)
<1>1. t.shotSeq = s.shotSeq /\ t.status \in {"aiming", "finished"}
  BY DEF applyShotResult
<1>2. t.updatedAt > s.updatedAt
  BY DEF applyShotResult, snapshotUpdateTimeAfter, Snapshots
<1>3. t.turnSeq = s.turnSeq \/ t.turnSeq = s.turnSeq + 1
  BY DEF applyShotResult
<1>4. s.turnSeq + 1 > s.turnSeq
  BY DEF Snapshots
<1> QED BY <1>1, <1>2, <1>3, <1>4 DEF Exists, snapshotIsNewer

LEMMA ReconciledIsNewer ==
    ASSUME NEW s \in Snapshots, NEW r, now \in Nat, reconcileDue(s)
    PROVE  Exists(reconciled(r, s)) /\ snapshotIsNewer(reconciled(r, s), s)
<1>1. Exists(s)
  BY DEF reconcileDue, isTurnExpired, turnPrepareDue, shotResultExpired, Undecided, Exists
<1>2. reconciled(r, s) \in {applyTurnTimeout(r, s, now), startTurnClock(s, now),
                            applyShotResultTimeout(r, s, now)}
  BY DEF reconciled, reconcileDue, isTurnExpired, turnPrepareDue, shotResultExpired, Undecided
<1> QED BY <1>1, <1>2, ClockIsNewer, PassTurnIsNewer DEF applyTurnTimeout, applyShotResultTimeout

-----------------------------------------------------------------------------
(***************************************************************************)
(* How a step changes what one goroutine holds, and what it leaves alone.  *)
(***************************************************************************)
Later == \A e \in Events : Happened(e) => Happened(e)'

LEMMA SpendIsLater ==
    ASSUME TypeOK, BudgetInv, NEW e \in Events, UNCHANGED budget \/ Spend(e)
    PROVE  BudgetInv' /\ Later
<1>1. Budget \in [Events -> Nat] /\ budget \in [Events -> Nat]
  BY ServerAssumption DEF TypeOK
<1>2. CASE UNCHANGED budget
  BY <1>2 DEF BudgetInv, Later, Happened
<1>3. CASE Spend(e)
  <2>1. \A f \in Events : budget'[f] <= budget[f] /\ budget'[f] \in Nat
    BY <1>1, <1>3 DEF Spend
  <2>2. \A f \in Events : budget[f] \in Nat /\ Budget[f] \in Nat
    BY <1>1
  <2> QED BY <2>1, <2>2 DEF BudgetInv, Later, Happened
<1> QED BY <1>2, <1>3

LEMMA SpentHappened ==
    ASSUME TypeOK, BudgetInv, NEW e \in Events, Spend(e)
    PROVE  Happened(e)'
<1>1. Budget[e] \in Nat /\ budget[e] \in Nat /\ budget'[e] = budget[e] - 1
  BY ServerAssumption DEF TypeOK, Spend
<1> QED BY <1>1 DEF BudgetInv, Happened

LEMMA SetMoves ==
    ASSUME TypeOK, NEW w \in Workers, NEW r, Set(w, r)
    PROVE  work'[w] = r /\ \A x \in Workers \ {w} : work'[x] = work[x]
BY DEF Set, TypeOK

\* A step of a goroutine outside the locked sections.
LEMMA OutsideStep ==
    ASSUME LockInv, Later, BudgetInv', NEW w \in Workers,
           \A x \in Workers \ {w} : work'[x] = work[x],
           work[w].pc \notin LockedSteps, work'[w].pc \notin LockedSteps,
           Whole(work'[w].snap), StepOf(w)',
           UNCHANGED <<stored, cache, lock>>
    PROVE  LockInv'
<1>1. (Left => Left') /\ (Happened("readFault") => Happened("readFault")')
  BY DEF Later, Left, Events
<1>2. StepsInv'
  <2>1. ASSUME NEW x \in Workers, x # w
        PROVE  StepOf(x)'
    BY <1>1, <2>1 DEF LockInv, StepsInv, StepOf, Starts, StartJobs, At
  <2> QED BY <2>1 DEF StepsInv
<1>3. MutexInv'
  BY DEF LockInv, MutexInv
<1>4. WholeInv'
  BY DEF LockInv, WholeInv
<1>5. HoldsInv'
  <2>1. ASSUME NEW x \in Workers, x # w
        PROVE  Holds(x)'
    BY <1>1, <2>1 DEF LockInv, HoldsInv, Holds, At, CacheIs, StoredIs, MayBeStored
  <2>2. Holds(w)'
    BY DEF Holds, LockedSteps, At
  <2> QED BY <2>1, <2>2 DEF HoldsInv
<1>6. CacheIsStored'
  BY <1>1 DEF LockInv, CacheIsStored, Left
<1> QED BY <1>2, <1>3, <1>4, <1>5, <1>6 DEF LockInv

\* A step of the goroutine that holds the lock, or takes it.
LEMMA InsideStep ==
    ASSUME LockInv, Later, BudgetInv', NEW w \in Workers,
           \A x \in Workers \ {w} : work'[x] = work[x],
           lock \in {w, NoWorker},
           lock' = IF work'[w].pc \in LockedSteps THEN w ELSE NoWorker,
           Whole(work'[w].snap), Whole(cache'), Whole(stored'),
           StepOf(w)', Holds(w)', CacheIsStored'
    PROVE  LockInv'
<1>1. (Left => Left') /\ NoWorker \notin Workers
  BY ServerAssumption DEF Later, Left, Events
<1>2. \A x \in Workers : x # w => work'[x].pc \notin LockedSteps
  BY <1>1 DEF LockInv, MutexInv
<1>3. StepsInv'
  <2>1. ASSUME NEW x \in Workers, x # w
        PROVE  StepOf(x)'
    BY <1>1, <2>1 DEF LockInv, StepsInv, StepOf, Starts, StartJobs, At
  <2> QED BY <2>1 DEF StepsInv
<1>4. MutexInv'
  BY <1>1, <1>2 DEF MutexInv
<1>5. WholeInv'
  BY DEF LockInv, WholeInv
<1>6. HoldsInv'
  <2>1. ASSUME NEW x \in Workers, x # w
        PROVE  Holds(x)'
    BY <1>2, <2>1 DEF Holds, LockedSteps, At
  <2> QED BY <2>1 DEF HoldsInv
<1> QED BY <1>3, <1>4, <1>5, <1>6 DEF LockInv

\* The goroutine gives the lock back.
LEMMA UnlockStep ==
    ASSUME TypeOK, LockInv, Later, BudgetInv', NEW w \in Workers, NEW r,
           work[w].pc \in LockedSteps, Set(w, r), Unlock,
           r.pc \in {"idle", "event", "finish"}, Starts(w, r.job),
           Whole(r.snap), Whole(cache'), Whole(stored'), CacheIsStored'
    PROVE  LockInv'
<1>1. work'[w] = r /\ \A x \in Workers \ {w} : work'[x] = work[x]
  BY SetMoves
<1>2. lock = w
  BY DEF LockInv, MutexInv
<1>3. w # Leaver
  BY DEF LockInv, StepsInv, StepOf, Starts, StartJobs, LockedSteps
<1>4. StepOf(w)'
  BY <1>1, <1>3 DEF StepOf, Starts, StartJobs, At
<1>5. r.pc \notin LockedSteps
  BY DEF LockedSteps
<1>6. Holds(w)'
  BY <1>1, <1>5 DEF Holds, LockedSteps, At
<1>7. lock' = IF work'[w].pc \in LockedSteps THEN w ELSE NoWorker
  BY <1>1, <1>5 DEF Unlock
<1> QED BY <1>1, <1>2, <1>4, <1>6, <1>7, InsideStep

LEMMA FailKeepsLock ==
    ASSUME TypeOK, LockInv, Later, BudgetInv', NEW w \in Workers, NEW timers,
           work[w].pc \in LockedSteps, FailWith(w, timers),
           Whole(cache'), UNCHANGED stored, CacheIsStored'
    PROVE  LockInv'
<1>1. Set(w, Idle) /\ Unlock
  BY DEF FailWith, Done
<1>2. Idle.pc = "idle" /\ Idle.job = "none" /\ Whole(Idle.snap)
  BY DEF Idle, Whole, Starts, StartJobs
<1>3. Whole(stored')
  BY DEF LockInv, WholeInv
<1> QED BY <1>1, <1>2, <1>3, UnlockStep DEF Starts, StartJobs

\* The goroutine takes a snapshot into its hands and stays in the section.
LEMMA HoldStep ==
    ASSUME TypeOK, LockInv, Later, BudgetInv', NEW w \in Workers,
           NEW pc \in {"create", "persist", "decide", "fill"}, NEW s,
           work[w].pc \in LockedSteps,
           Set(w, [work[w] EXCEPT !.pc = pc, !.snap = s]),
           Whole(s), Whole(cache'), UNCHANGED <<stored, lock>>, Holds(w)'
    PROVE  LockInv'
<1> DEFINE r == [work[w] EXCEPT !.pc = pc, !.snap = s]
<1>1. work'[w] = r /\ \A x \in Workers \ {w} : work'[x] = work[x]
  BY SetMoves
<1>2. r.pc = pc /\ r.snap = s /\ r.job = work[w].job
  BY DEF TypeOK, Works
<1> HIDE DEF r
<1>3. lock = w
  BY DEF LockInv, MutexInv
<1>4. w # Leaver /\ StepOf(w)
  BY DEF LockInv, StepsInv, StepOf, Starts, StartJobs, LockedSteps
<1>5. StepOf(w)'
  BY <1>1, <1>2, <1>4 DEF StepOf, Starts, StartJobs, At
<1>6. lock' = IF work'[w].pc \in LockedSteps THEN w ELSE NoWorker
  BY <1>1, <1>2, <1>3 DEF LockedSteps
<1>7. CacheIsStored' /\ Whole(stored')
  BY <1>3, ServerAssumption DEF CacheIsStored, LockInv, WholeInv
<1>8. Whole(work'[w].snap)
  BY <1>1, <1>2
<1> QED BY <1>1, <1>3, <1>5, <1>6, <1>7, <1>8, InsideStep

LEMMA StageKeepsLock ==
    ASSUME TypeOK, LockInv, Later, BudgetInv', NEW w \in Workers, NEW s,
           NEW pc \in {"create", "persist"},
           work[w].pc \in LockedSteps, Stage(w, s, pc), UNCHANGED stored, Exists(s),
           setCachedSnapshotAccepts(s),
           \/ stored = NoSnapshot \/ snapshotIsNewer(s, stored)
           \/ pc = "persist" /\ work[w].job \in StartJobs
           \/ Happened("readFault")'
    PROVE  LockInv'
<1>1. cache' = s /\ Set(w, [work[w] EXCEPT !.pc = pc, !.snap = s]) /\ UNCHANGED lock
  BY DEF Stage
<1>2. work'[w] = [work[w] EXCEPT !.pc = pc, !.snap = s]
  BY <1>1, SetMoves
<1>3. work'[w].pc = pc /\ work'[w].snap = s /\ work'[w].job = work[w].job
  BY <1>2 DEF TypeOK, Works
<1>4. Holds(w)'
  BY <1>1, <1>3 DEF Holds, At, CacheIs, MayBeStored
<1>5. Whole(s) /\ Whole(cache')
  BY <1>1 DEF Whole
<1> QED BY <1>1, <1>4, <1>5, HoldStep

-----------------------------------------------------------------------------
(***************************************************************************)
(* Every action keeps the invariant: the locked sections.                  *)
(***************************************************************************)
LEMMA InitialExists ==
    ASSUME NEW n
    PROVE  Exists(newInitialMatchSnapshot(n)) /\ ~Exists(NoSnapshot)
BY DEF newInitialMatchSnapshot, NoSnapshot, Exists

\* Without a snapshot in the cache, the first one of a match is not refused.
LEMMA NoCanonicalKeepsLock ==
    ASSUME TypeOK, LockInv, Later, BudgetInv', NEW w \in Workers,
           At(w, "load"), NoCanonicalSnapshot(w), UNCHANGED stored,
           stored = NoSnapshot \/ Happened("readFault")'
    PROVE  LockInv'
<1>1. work[w].pc \in LockedSteps
  BY DEF At, LockedSteps
<1>2. cache = NoSnapshot
  BY DEF At, LockInv, HoldsInv, Holds
<1>3. CASE Stage(w, newInitialMatchSnapshot(now), "create")
  <2>1. setCachedSnapshotAccepts(newInitialMatchSnapshot(now))
    BY <1>2, InitialExists DEF setCachedSnapshotAccepts
  <2> QED BY <1>1, <1>3, <2>1, InitialExists, StageKeepsLock
<1>4. CASE FailWith(w, timer) /\ UNCHANGED cache
  <2>1. CacheIsStored' /\ Whole(cache')
    BY <1>2, <1>4 DEF CacheIsStored, Whole
  <2> QED BY <1>1, <1>4, <2>1, FailKeepsLock
<1> QED BY <1>3, <1>4 DEF NoCanonicalSnapshot

LEMMA EnterKeepsLock ==
    ASSUME TypeOK, LockInv, NEW w \in Workers, Enter(w)
    PROVE  LockInv'
<1>1. BudgetInv' /\ Later
  BY DEF Enter, LockInv, BudgetInv, Later, Happened
<1>2. w # Leaver /\ lock = NoWorker /\ lock' = w /\ StepOf(w)
  BY DEF Enter, LockInv, StepsInv, StepOf, Starts, StartJobs, At
<1>3. CacheIsStored' /\ Whole(cache') /\ Whole(stored') /\ Whole(cache) /\ Whole(work[w].snap)
  BY <1>2, ServerAssumption DEF Enter, CacheIsStored, LockInv, WholeInv
<1>4. CASE Exists(cache) /\ Set(w, [work[w] EXCEPT !.pc = "decide", !.snap = cache])
  <2>1. /\ work'[w] = [work[w] EXCEPT !.pc = "decide", !.snap = cache]
        /\ \A x \in Workers \ {w} : work'[x] = work[x]
    BY <1>4, SetMoves
  <2>2. work'[w].pc = "decide" /\ work'[w].snap = cache /\ work'[w].job = work[w].job
    BY <2>1 DEF TypeOK, Works
  <2>3. cache = stored \/ (Left /\ stored = NoSnapshot)
    BY <1>2, <1>4, InitialExists DEF LockInv, CacheIsStored, WholeInv, Whole, Left
  <2>4. Holds(w)'
    BY <1>4, <2>2, <2>3 DEF Enter, Holds, At, CacheIs, StoredIs, Left, Happened
  <2>5. StepOf(w)'
    BY <1>2, <2>2 DEF StepOf, Starts, StartJobs, At
  <2>6. lock' = IF work'[w].pc \in LockedSteps THEN w ELSE NoWorker
    BY <1>2, <2>2 DEF LockedSteps
  <2>7. Whole(work'[w].snap)
    BY <1>3, <2>2
  <2> QED BY <1>1, <1>2, <1>3, <2>1, <2>4, <2>5, <2>6, <2>7, InsideStep
<1>5. CASE ~Exists(cache) /\ Goto(w, "load")
  <2>1. /\ work'[w] = [work[w] EXCEPT !.pc = "load"]
        /\ \A x \in Workers \ {w} : work'[x] = work[x]
    BY <1>5, SetMoves DEF Goto
  <2>2. work'[w].pc = "load" /\ work'[w].snap = work[w].snap /\ work'[w].job = work[w].job
    BY <2>1 DEF TypeOK, Works
  <2>3. cache = NoSnapshot
    BY <1>3, <1>5 DEF Whole
  <2>4. Holds(w)'
    BY <2>2, <2>3 DEF Enter, Holds, At
  <2>5. StepOf(w)'
    BY <1>2, <2>2 DEF StepOf, Starts, StartJobs, At
  <2>6. lock' = IF work'[w].pc \in LockedSteps THEN w ELSE NoWorker
    BY <1>2, <2>2 DEF LockedSteps
  <2>7. Whole(work'[w].snap)
    BY <1>3, <2>2
  <2> QED BY <1>1, <1>2, <1>3, <2>1, <2>4, <2>5, <2>6, <2>7, InsideStep
<1> QED BY <1>4, <1>5 DEF Enter

LEMMA LoadKeepsLock ==
    ASSUME TypeOK, LockInv, NEW w \in Workers, Load(w)
    PROVE  LockInv'
<1>1. BudgetInv' /\ Later
  BY SpendIsLater DEF Load, LockInv, Events
<1>2. work[w].pc \in LockedSteps /\ cache = NoSnapshot /\ UNCHANGED stored
  BY DEF Load, At, LockedSteps, LockInv, HoldsInv, Holds
<1>3. CASE /\ Exists(stored) /\ Set(w, [work[w] EXCEPT !.pc = "fill", !.snap = stored])
           /\ UNCHANGED <<cache, timer, lock, budget>>
  <2>1. work'[w] = [work[w] EXCEPT !.pc = "fill", !.snap = stored]
    BY <1>3, SetMoves
  <2>2. work'[w].pc = "fill" /\ work'[w].snap = stored
    BY <2>1 DEF TypeOK, Works
  <2>3. Holds(w)'
    BY <1>2, <1>3, <2>2 DEF Holds, At, StoredIs
  <2>4. Whole(stored) /\ Whole(cache')
    BY <1>2, <1>3 DEF Whole
  <2> QED BY <1>1, <1>2, <1>3, <2>3, <2>4, HoldStep
<1>4. CASE ~Exists(stored) /\ NoCanonicalSnapshot(w)
  <2>1. stored = NoSnapshot
    BY <1>4 DEF LockInv, WholeInv, Whole
  <2> QED BY <1>1, <1>2, <1>4, <2>1, NoCanonicalKeepsLock DEF Load
<1>5. CASE Spend("readFault") /\ NoCanonicalSnapshot(w)
  <2>1. Happened("readFault")'
    BY <1>5, SpentHappened DEF LockInv, Events
  <2> QED BY <1>1, <1>2, <1>5, <2>1, NoCanonicalKeepsLock DEF Load
<1> QED BY <1>3, <1>4, <1>5 DEF Load

LEMMA FillKeepsLock ==
    ASSUME TypeOK, LockInv, NEW w \in Workers, Fill(w)
    PROVE  LockInv'
<1> DEFINE s == work[w].snap
<1>1. BudgetInv' /\ Later
  BY DEF Fill, LockInv, BudgetInv, Later, Happened
<1>2. /\ work[w].pc \in LockedSteps /\ UNCHANGED stored
      /\ cache = NoSnapshot /\ Exists(s) /\ StoredIs(s)
  BY DEF Fill, At, LockedSteps, LockInv, HoldsInv, Holds
<1>3. setCachedSnapshotAccepts(s)
  BY <1>2, InitialExists DEF setCachedSnapshotAccepts
<1>4. cache' = s /\ Goto(w, "decide") /\ UNCHANGED lock
  BY <1>3 DEF Fill
<1>5. Goto(w, "decide") <=> Set(w, [work[w] EXCEPT !.pc = "decide", !.snap = s])
  <2>1. [work[w] EXCEPT !.pc = "decide"] = [work[w] EXCEPT !.pc = "decide", !.snap = s]
    BY DEF TypeOK, Works
  <2> QED BY <2>1 DEF Goto
<1>6. work'[w] = [work[w] EXCEPT !.pc = "decide"]
  BY <1>4, SetMoves DEF Goto
<1>7. work'[w].pc = "decide" /\ work'[w].snap = s
  BY <1>6 DEF TypeOK, Works
<1>8. Holds(w)'
  BY <1>2, <1>4, <1>7 DEF Fill, Holds, At, CacheIs, StoredIs, Left, Happened
<1>9. Whole(s) /\ Whole(cache')
  BY <1>2, <1>4 DEF Whole
<1> HIDE DEF s
<1> QED BY <1>1, <1>2, <1>4, <1>5, <1>8, <1>9, HoldStep

\* The end of a section that stores nothing.
LEMMA EndKeepsLock ==
    ASSUME TypeOK, LockInv, Later, BudgetInv', NEW w \in Workers, At(w, "decide"),
           NEW r, Set(w, r), Unlock, UNCHANGED <<cache, stored>>,
           r.pc \in {"idle", "event", "finish"}, Starts(w, r.job),
           Whole(r.snap)
    PROVE  LockInv'
<1> DEFINE s == work[w].snap
<1>1. work[w].pc \in LockedSteps /\ Exists(s) /\ CacheIs(s) /\ StoredIs(s)
  BY DEF At, LockedSteps, LockInv, HoldsInv, Holds
<1>2. Left => Left'
  BY DEF Later, Left, Events
<1>3. CacheIsStored'
  BY <1>1, <1>2, InitialExists DEF CacheIsStored, CacheIs, StoredIs, Left
<1>4. Whole(cache') /\ Whole(stored')
  BY DEF LockInv, WholeInv
<1> QED BY <1>1, <1>3, <1>4, UnlockStep

\* A decision: a newer version of the snapshot in hand.
LEMMA DecisionKeepsLock ==
    ASSUME TypeOK, LockInv, Later, BudgetInv', NEW w \in Workers, At(w, "decide"),
           NEW s, Stage(w, s, "persist"), Exists(s), snapshotIsNewer(s, work[w].snap),
           UNCHANGED stored
    PROVE  LockInv'
<1>1. work[w].pc \in LockedSteps /\ CacheIs(work[w].snap) /\ StoredIs(work[w].snap)
  BY DEF At, LockedSteps, LockInv, HoldsInv, Holds
<1>2. setCachedSnapshotAccepts(s)
  BY <1>1, InitialExists DEF setCachedSnapshotAccepts, CacheIs
<1>3. stored = NoSnapshot \/ snapshotIsNewer(s, stored)
  BY <1>1 DEF StoredIs
<1> QED BY <1>1, <1>2, <1>3, StageKeepsLock

LEMMA AfterSectionSteps ==
    ASSUME TypeOK, LockInv, NEW w \in Workers, NEW s,
           Exists(work[w].snap)
    PROVE  LET r == AfterSection(w, s)
           IN  /\ r.pc \in {"idle", "event", "finish"} /\ Whole(r.snap)
               /\ Starts(w, r.job)
<1> DEFINE a == [work[w] EXCEPT !.pc = "event", !.snap = NoSnapshot]
           b == [work[w] EXCEPT !.pc = "finish"]
<1>1. a.pc = "event" /\ a.snap = NoSnapshot /\ a.job = work[w].job
  BY DEF TypeOK, Works
<1>2. b.pc = "finish" /\ b.snap = work[w].snap /\ b.job = work[w].job
  BY DEF TypeOK, Works
<1>3. Idle.pc = "idle" /\ Idle.job = "none" /\ Idle.snap = NoSnapshot
  BY DEF Idle
<1>4. Starts(w, work[w].job)
  BY DEF LockInv, StepsInv, StepOf, Starts, StartJobs
<1> HIDE DEF a, b
<1>5. AfterSection(w, s) \in {a, b, Idle}
  BY DEF AfterSection, a, b
<1> QED BY <1>1, <1>2, <1>3, <1>4, <1>5 DEF Whole, Starts, StartJobs

LEMMA ReconcileKeepsLock ==
    ASSUME TypeOK, LockInv, NEW w \in Workers, Reconcile(w)
    PROVE  LockInv'
<1> DEFINE s == work[w].snap
<1>1. BudgetInv' /\ Later /\ At(w, "decide") /\ UNCHANGED stored
  BY DEF Reconcile, LockInv, BudgetInv, Later, Happened
<1>2. s \in Snapshots /\ now \in Nat /\ Exists(s)
  BY <1>1 DEF TypeOK, Works, LockInv, HoldsInv, Holds
<1>3. CASE reconcileDue(s) /\ Stage(w, reconciled(work[w].room, s), "persist")
  <2>1. Exists(reconciled(work[w].room, s)) /\ snapshotIsNewer(reconciled(work[w].room, s), s)
    BY <1>2, <1>3, ReconciledIsNewer
  <2> QED BY <1>1, <1>3, <2>1, DecisionKeepsLock
<1>4. CASE Set(w, AfterSection(w, s)) /\ Unlock /\ UNCHANGED cache
  <2>1. LET r == AfterSection(w, s)
        IN  /\ r.pc \in {"idle", "event", "finish"} /\ Whole(r.snap)
            /\ Starts(w, r.job)
    BY <1>2, AfterSectionSteps
  <2> QED BY <1>1, <1>4, <2>1, EndKeepsLock
<1> QED BY <1>3, <1>4 DEF Reconcile

LEMMA EventKeepsLock ==
    ASSUME TypeOK, LockInv, NEW u \in Users,
           TurnReady(u) \/ ShotStarted(u) \/ ShotResultSubmitted(u)
    PROVE  LockInv'
<1> DEFINE s == work[u].snap
           r == work[u].room
<1>1. /\ BudgetInv' /\ Later /\ At(u, "decide") /\ UNCHANGED stored
      /\ u \in Workers
  BY DEF TurnReady, ShotStarted, ShotResultSubmitted, LockInv, BudgetInv, Later, Happened, Workers
<1>2. s \in Snapshots /\ now \in Nat /\ Exists(s)
  BY <1>1 DEF TypeOK, Works, LockInv, HoldsInv, Holds
<1>3. ASSUME NEW t, Stage(u, t, "persist"), Exists(t), snapshotIsNewer(t, s)
      PROVE  LockInv'
  BY <1>1, <1>3, DecisionKeepsLock
<1>4. ASSUME Refuse(u)
      PROVE  LockInv'
  <2>1. Idle.pc = "idle" /\ Idle.job = "none" /\ Whole(Idle.snap)
    BY DEF Idle, Whole, Starts, StartJobs
  <2> QED BY <1>1, <1>4, <2>1, EndKeepsLock DEF Refuse, Done, Starts, StartJobs
<1>5. CASE TurnReady(u)
  BY <1>2, <1>3, <1>4, <1>5, ClockIsNewer DEF TurnReady
<1>6. CASE ShotStarted(u)
  BY <1>2, <1>3, <1>4, <1>6, StartShotIsNewer, PassTurnIsNewer DEF ShotStarted, applyTurnTimeout
<1>7. CASE ShotResultSubmitted(u)
  BY <1>2, <1>3, <1>4, <1>7, ShotResultIsNewer DEF ShotResultSubmitted
<1> QED BY <1>5, <1>6, <1>7

LEMMA PersistKeepsLock ==
    ASSUME TypeOK, LockInv, NEW w \in Workers, Persist(w)
    PROVE  LockInv'
<1> DEFINE s == work[w].snap
<1>1. work[w].pc \in LockedSteps /\ Exists(s) /\ CacheIs(s) /\ Whole(s) /\ lock = w
  BY DEF Persist, LockedSteps, LockInv, HoldsInv, Holds, WholeInv, MutexInv
<1>2. BudgetInv' /\ Later
  BY SpendIsLater DEF Persist, PersistSucceeds, PersistFails, LockInv, Events
<1>3. Left => Left'
  BY <1>2 DEF Later, Left, Events
<1>4. CASE PersistSucceeds(w)
  <2>1. stored' = s /\ UNCHANGED cache
    BY <1>4 DEF PersistSucceeds
  <2>2. Whole(stored') /\ Whole(cache') /\ CacheIsStored'
    BY <1>1, <1>3, <2>1 DEF Whole, CacheIsStored, CacheIs, Left, LockInv, WholeInv
  <2>3. CASE At(w, "create") /\ Goto(w, "decide") /\ UNCHANGED lock
    <3>1. /\ work'[w] = [work[w] EXCEPT !.pc = "decide"]
          /\ \A x \in Workers \ {w} : work'[x] = work[x]
      BY <2>3, SetMoves DEF Goto
    <3>2. work'[w].pc = "decide" /\ work'[w].snap = s /\ work'[w].job = work[w].job
      BY <3>1 DEF TypeOK, Works
    <3>3. Holds(w)'
      BY <1>1, <1>3, <2>1, <3>2 DEF Holds, At, CacheIs, StoredIs
    <3>4. StepOf(w)'
      <4>1. StepOf(w) /\ w # Leaver
        BY <2>3 DEF LockInv, StepsInv, StepOf, Starts, StartJobs, At
      <4> QED BY <3>2, <4>1 DEF StepOf, Starts, StartJobs, At
    <3>5. lock' = IF work'[w].pc \in LockedSteps THEN w ELSE NoWorker
      BY <1>1, <2>3, <3>2 DEF LockedSteps
    <3>6. Whole(work'[w].snap)
      BY <1>1, <3>2
    <3> HIDE DEF s
    <3> QED BY <1>1, <1>2, <2>2, <3>1, <3>3, <3>4, <3>5, <3>6, InsideStep
  <2>4. CASE Set(w, AfterSection(w, s)) /\ Unlock
    <3>1. LET r == AfterSection(w, s)
          IN  /\ r.pc \in {"idle", "event", "finish"} /\ Whole(r.snap)
              /\ Starts(w, r.job)
      BY <1>1, AfterSectionSteps
    <3> QED BY <1>1, <1>2, <2>2, <2>4, <3>1, UnlockStep
  <2> QED BY <1>4, <2>3, <2>4 DEF PersistSucceeds
<1>5. CASE PersistFails(w)
  <2>1. CacheIsStored' /\ Whole(cache') /\ UNCHANGED stored
    BY <1>5 DEF PersistFails, CacheIsStored, Whole
  <2> QED BY <1>1, <1>2, <1>5, <2>1, FailKeepsLock DEF PersistFails
<1> QED BY <1>4, <1>5 DEF Persist

\* The new match's first snapshot meets an empty cache and is taken.
LEMMA DealKeepsLock ==
    ASSUME TypeOK, LockInv, NEW u \in Users, Deal(u)
    PROVE  LockInv'
<1>1. /\ BudgetInv' /\ Later /\ u \in Workers /\ UNCHANGED stored
      /\ work[u].pc \in LockedSteps
  BY DEF Deal, At, LockedSteps, LockInv, BudgetInv, Later, Happened, Workers
<1>2. cache = NoSnapshot /\ work[u].job \in StartJobs
  BY <1>1 DEF Deal, At, LockInv, HoldsInv, Holds, StepsInv, StepOf, Starts, StartJobs
<1>3. setCachedSnapshotAccepts(newInitialMatchSnapshot(now))
  BY <1>2, InitialExists DEF setCachedSnapshotAccepts
<1> QED BY <1>1, <1>2, <1>3, InitialExists, StageKeepsLock DEF Deal

LEMMA StartClearsKeepsLock ==
    ASSUME TypeOK, LockInv, NEW u \in Users, StartClears(u)
    PROVE  LockInv'
<1>1. BudgetInv' /\ Later /\ u \in Workers /\ u # Leaver
  BY ServerAssumption DEF StartClears, LockInv, BudgetInv, Later, Happened, Workers
<1>2. /\ lock = NoWorker /\ lock' = u /\ cache' = NoSnapshot /\ UNCHANGED stored
      /\ work[u].job \in StartJobs /\ StepOf(u) /\ Whole(work[u].snap) /\ Whole(stored)
  BY <1>1 DEF StartClears, clearCachedSnapshot, StartJobs, LockInv, StepsInv, WholeInv
<1>3. /\ work'[u] = [work[u] EXCEPT !.pc = "deal"]
      /\ \A x \in Workers \ {u} : work'[x] = work[x]
  BY <1>1, SetMoves DEF StartClears, Goto
<1>4. work'[u].pc = "deal" /\ work'[u].snap = work[u].snap /\ work'[u].job = work[u].job
  BY <1>1, <1>3 DEF TypeOK, Works
<1>5. Holds(u)' /\ StepOf(u)' /\ CacheIsStored' /\ Whole(cache')
  BY <1>1, <1>2, <1>4 DEF Holds, StepOf, Starts, StartJobs, At, CacheIsStored, Whole
<1>6. lock' = IF work'[u].pc \in LockedSteps THEN u ELSE NoWorker
  BY <1>2, <1>4 DEF LockedSteps
<1>7. Whole(work'[u].snap) /\ Whole(stored')
  BY <1>2, <1>4
<1> QED BY <1>1, <1>2, <1>3, <1>5, <1>6, <1>7, InsideStep

-----------------------------------------------------------------------------
(***************************************************************************)
(* The steps outside.                                                      *)
(***************************************************************************)
LEMMA StillKeepsLock ==
    ASSUME LockInv, UNCHANGED <<stored, cache, lock, work, budget>>
    PROVE  LockInv'
<1>1. BudgetInv' /\ MutexInv' /\ WholeInv' /\ CacheIsStored'
  BY DEF LockInv, BudgetInv, MutexInv, WholeInv, CacheIsStored, Happened
<1>2. StepsInv' /\ HoldsInv'
  BY DEF LockInv, StepsInv, StepOf, Starts, StartJobs, HoldsInv, Holds, At, CacheIs, StoredIs, MayBeStored,
         Left, Happened
<1> QED BY <1>1, <1>2 DEF LockInv

\* A goroutine that is not in a section goes on, at another step outside.
LEMMA GoesOn ==
    ASSUME TypeOK, LockInv, NEW w \in Workers \ {Leaver}, NEW r, Set(w, r),
           NEW e \in Events, UNCHANGED budget \/ Spend(e),
           work[w].pc \notin LockedSteps,
           r.pc \in {"idle", "enter", "event", "restart", "clear", "finish"}, Whole(r.snap),
           r.pc = "clear" => r.job \in StartJobs,
           r.pc = "restart" => r.job = "rematch_request",
           Starts(w, r.job),
           UNCHANGED <<stored, cache, lock>>
    PROVE  LockInv'
<1>1. work'[w] = r /\ \A x \in Workers \ {w} : work'[x] = work[x]
  BY SetMoves
<1>2. BudgetInv' /\ Later
  BY SpendIsLater DEF LockInv
<1>3. StepOf(w)' /\ work'[w].pc \notin LockedSteps
  BY <1>1 DEF StepOf, Starts, StartJobs, At, LockedSteps
<1> QED BY <1>1, <1>2, <1>3, OutsideStep

LEMMA ConnectionKeepsLock ==
    ASSUME TypeOK, LockInv, ~CueStates, NEW u \in Users,
           \/ RequestRematch(u) \/ Receive(u) \/ Restart(u) \/ Dispatch(u)
           \/ Peek(u) \/ PeekFill(u) \/ Finish(u)
    PROVE  LockInv'
<1>1. u \in Workers \ {Leaver} /\ work[u] \in Works /\ StepOf(u) /\ Whole(work[u].snap)
  BY ServerAssumption DEF Workers, TypeOK, LockInv, StepsInv, WholeInv
<1>2. /\ Idle.pc = "idle" /\ Idle.job = "none" /\ Whole(Idle.snap)
      /\ {"start", "rematch", "writeFault", "readFault"} \subseteq Events
  BY DEF Idle, Whole, Events
<1>3. ASSUME NEW pc \in {"restart", "enter"}, NEW job, NEW row,
             Set(u, [Idle EXCEPT !.pc = pc, !.job = job, !.room = row]),
             work[u].pc \notin LockedSteps, UNCHANGED <<stored, cache, lock>>,
             UNCHANGED budget \/ Spend("readFault"),
             pc = "restart" => job = "rematch_request", job # "match_start"
      PROVE  LockInv'
  <2> DEFINE r == [Idle EXCEPT !.pc = pc, !.job = job, !.room = row]
  <2>1. r.pc = pc /\ r.job = job /\ Whole(r.snap)
    BY DEF Idle, Whole, Starts, StartJobs
  <2>2. Set(u, r)
    BY <1>3
  <2> HIDE DEF r
  <2> QED BY <1>1, <1>2, <1>3, <2>1, <2>2, GoesOn DEF Starts, StartJobs
<1>4. CASE RequestRematch(u)
  <2>1. /\ work[u].pc \notin LockedSteps
        /\ UNCHANGED <<stored, cache, lock, budget>>
    BY <1>4 DEF RequestRematch, At, LockedSteps
  <2>2. CASE UNCHANGED work
    BY <2>1, <2>2, StillKeepsLock
  <2>3. CASE Set(u, [Idle EXCEPT !.pc = "restart", !.job = "rematch_request", !.room = room])
    BY <1>3, <2>1, <2>3
  <2> QED BY <1>4, <2>2, <2>3 DEF RequestRematch
<1>5. CASE Receive(u)
  <2>1. /\ work[u].pc \notin LockedSteps /\ UNCHANGED <<stored, cache, lock>>
        /\ UNCHANGED budget \/ Spend("readFault")
        /\ Set(u, Reconciling(room)) \/ Set(u, Reconciling(CopyOfMatch))
    BY <1>5 DEF Receive, At, LockedSteps
  <2> QED BY <1>3, <2>1 DEF Reconciling
<1>6. CASE Restart(u)
  <2>1. /\ work[u].pc \notin LockedSteps /\ UNCHANGED <<stored, cache, lock>>
        /\ work[u].job = "rematch_request"
    BY <1>1, <1>6 DEF Restart, At, LockedSteps, StepOf, Starts, StartJobs
  <2>2. CASE Spend("rematch") /\ Set(u, [work[u] EXCEPT !.pc = "clear", !.room = room'])
    <3> DEFINE r == [work[u] EXCEPT !.pc = "clear", !.room = room']
    <3>1. r.pc = "clear" /\ r.job = "rematch_request" /\ r.snap = work[u].snap
      BY <1>1, <2>1 DEF Works
    <3> HIDE DEF r
    <3> QED BY <1>1, <1>2, <2>1, <2>2, <3>1, GoesOn DEF Starts, StartJobs, r
  <2>3. CASE (UNCHANGED budget \/ Spend("writeFault")) /\ Done(u)
    BY <1>1, <1>2, <2>1, <2>3, GoesOn DEF Starts, Done
  <2> QED BY <1>6, <2>2, <2>3 DEF Restart
<1>7. CASE Dispatch(u)
  <2>1. work[u].pc \notin LockedSteps /\ UNCHANGED <<stored, cache, lock, budget>>
    BY <1>7 DEF Dispatch, At, LockedSteps
  <2>2. ASSUME NEW job \in {"turn_ready", "shot_started", "shot_result"},
               Set(u, [work[u] EXCEPT !.pc = "enter", !.job = job])
        PROVE  LockInv'
    <3> DEFINE r == [work[u] EXCEPT !.pc = "enter", !.job = job]
    <3>1. r.pc = "enter" /\ r.job = job /\ r.snap = work[u].snap
      BY <1>1 DEF Works
    <3> HIDE DEF r
    <3>2. Set(u, r)
      BY <2>2 DEF r
    <3> QED BY <1>1, <1>2, <2>1, <3>1, <3>2, GoesOn DEF Starts, StartJobs
  <2>3. CASE Done(u)
    BY <1>1, <1>2, <2>1, <2>3, GoesOn DEF Starts, Done
  <2> QED BY <1>7, <2>2, <2>3 DEF Dispatch
<1>8. CASE Peek(u) \/ PeekFill(u)
  BY <1>1, <1>8 DEF Peek, PeekFill, At, StepOf, Starts, StartJobs
<1>9. CASE Finish(u)
  BY <1>1, <1>2, <1>9, GoesOn DEF Starts, Finish, Done, At, LockedSteps
<1> QED BY <1>4, <1>5, <1>6, <1>7, <1>8, <1>9

LEMMA RoomKeepsLock ==
    ASSUME TypeOK, LockInv, Join \/ StartMatch \/ Tick
    PROVE  LockInv'
<1>1. CASE Join \/ Tick
  BY <1>1, StillKeepsLock DEF Join, Tick
<1>2. CASE StartMatch
  <2> DEFINE r == [Idle EXCEPT !.pc = "clear", !.job = "match_start", !.room = room']
  <2>1. r.pc = "clear" /\ r.job = "match_start" /\ Whole(r.snap)
    BY DEF Idle, Whole, Starts, StartJobs
  <2>2. Creator \in Workers \ {Leaver} /\ Creator \in Users /\ "start" \in Events
    BY ServerAssumption DEF Workers, Users, Events
  <2>3. work[Creator].pc \notin LockedSteps /\ Set(Creator, r) /\ Spend("start")
    BY <1>2 DEF StartMatch, At, LockedSteps
  <2> HIDE DEF r
  <2> QED BY <1>2, <2>1, <2>2, <2>3, GoesOn DEF Starts, StartMatch, StartJobs
<1> QED BY <1>1, <1>2

LEMMA FireKeepsLock ==
    ASSUME TypeOK, LockInv, NEW g \in Goroutines, NEW k \in Kinds, Fire(g, k)
    PROVE  LockInv'
<1> DEFINE r == [Idle EXCEPT !.pc = "enter", !.job = k, !.seq = timer[k].seq, !.room = room]
<1>1. r.pc = "enter" /\ r.job = k /\ Whole(r.snap)
  BY DEF Idle, Whole, Starts, StartJobs
<1>2. g \in Workers \ {Leaver} /\ "readFault" \in Events /\ k \notin StartJobs
  BY ServerAssumption DEF Workers, Events, Kinds, StartJobs
<1>3. work[g].pc \notin LockedSteps /\ UNCHANGED <<stored, cache, lock>>
  BY DEF Fire, At, LockedSteps
<1>4. CASE Set(g, r) /\ UNCHANGED budget
  <2> HIDE DEF r
  <2> QED BY <1>1, <1>2, <1>3, <1>4, GoesOn DEF Starts, StartJobs
<1>5. CASE UNCHANGED work /\ (UNCHANGED budget \/ Spend("readFault"))
  <2>1. BudgetInv' /\ Later
    BY <1>2, <1>5, SpendIsLater DEF LockInv
  <2>2. work'[g].pc \notin LockedSteps /\ Whole(work'[g].snap) /\ StepOf(g)
    BY <1>2, <1>3, <1>5 DEF LockInv, WholeInv, StepsInv
  <2>3. StepOf(g)'
    BY <1>2, <1>5, <2>2 DEF StepOf, Starts, StartJobs, At
  <2> QED BY <1>2, <1>3, <1>5, <2>1, <2>2, <2>3, OutsideStep
<1> QED BY <1>4, <1>5 DEF Fire

\* A leave may come in the middle of another goroutine's section.
LEMMA LeaveKeepsLock ==
    ASSUME TypeOK, LockInv,
           \/ LeaveClears \/ LeaveDeletes
           \/ \E role \in {"creator", "opponent"} : Leave(role)
    PROVE  LockInv'
<1>1. /\ Leaver \in Workers /\ work[Leaver].pc \notin LockedSteps /\ Whole(work[Leaver].snap)
      /\ {"leave", "writeFault"} \subseteq Events /\ Leaver # Creator
  BY ServerAssumption DEF Workers, LockInv, StepsInv, StepOf, Starts, StartJobs, WholeInv, LockedSteps, Events, Users
<1>2. CASE \E role \in {"creator", "opponent"} : Leave(role)
  <2> DEFINE r == [Idle EXCEPT !.pc = "clear", !.job = "leave"]
  <2>1. r.pc = "clear" /\ r.job = "leave" /\ Whole(r.snap)
    BY DEF Idle, Whole, Starts, StartJobs
  <2>2. Set(Leaver, r) /\ Spend("leave") /\ UNCHANGED <<stored, cache, lock>>
    BY <1>2 DEF Leave
  <2> HIDE DEF r
  <2>3. BudgetInv' /\ Later /\ Left'
    BY <1>1, <2>2, SpendIsLater, SpentHappened DEF LockInv, Left
  <2>4. work'[Leaver] = r /\ \A x \in Workers \ {Leaver} : work'[x] = work[x]
    BY <1>1, <2>2, SetMoves
  <2>5. StepOf(Leaver)' /\ work'[Leaver].pc \notin LockedSteps
    BY <1>1, <2>1, <2>3, <2>4 DEF StepOf, Starts, StartJobs, At, LockedSteps
  <2> QED BY <1>1, <2>1, <2>2, <2>3, <2>4, <2>5, OutsideStep
<1>3. ASSUME ~At(Leaver, "idle"),
             \A x \in Workers \ {Leaver} : work'[x] = work[x],
             work'[Leaver].pc \in {"idle", "delete"}, Whole(work'[Leaver].snap),
             work'[Leaver].job \notin StartJobs,
             cache' \in {cache, NoSnapshot}, stored' \in {stored, NoSnapshot},
             UNCHANGED lock, BudgetInv', Later
      PROVE  LockInv'
  <2>1. Left /\ Left' /\ (Happened("readFault") => Happened("readFault")')
    BY <1>1, <1>3 DEF LockInv, StepsInv, StepOf, Starts, StartJobs, Later, Left, Events
  <2>2. StepsInv'
    <3>1. ASSUME NEW x \in Workers, x # Leaver
          PROVE  StepOf(x)'
      BY <2>1, <1>3, <3>1 DEF LockInv, StepsInv, StepOf, Starts, StartJobs, At
    <3>2. StepOf(Leaver)'
      BY <1>3, <2>1 DEF StepOf, Starts, StartJobs, At
    <3> QED BY <3>1, <3>2 DEF StepsInv
  <2>3. MutexInv'
    <3>1. work'[Leaver].pc \notin LockedSteps
      BY <1>3 DEF LockedSteps
    <3> QED BY <1>1, <1>3, <3>1 DEF LockInv, MutexInv
  <2>4. WholeInv'
    BY <1>3 DEF LockInv, WholeInv, Whole
  <2>5. HoldsInv'
    <3>1. ASSUME NEW x \in Workers, x # Leaver
          PROVE  Holds(x)'
      <4>1. Holds(x) /\ work'[x] = work[x]
        BY <1>3, <3>1 DEF LockInv, HoldsInv
      <4> QED BY <1>3, <2>1, <4>1 DEF Holds, At, CacheIs, StoredIs, MayBeStored
    <3>2. Holds(Leaver)'
      BY <1>3 DEF Holds, At
    <3> QED BY <3>1, <3>2 DEF HoldsInv
  <2>6. CacheIsStored'
    BY <1>3, <2>1, InitialExists DEF LockInv, CacheIsStored, Left
  <2> QED BY <1>3, <2>2, <2>3, <2>4, <2>5, <2>6 DEF LockInv
<1>4. StepOf(Leaver) /\ work[Leaver].job \notin StartJobs
  BY <1>1, ServerAssumption DEF LockInv, StepsInv, StepOf, Starts, StartJobs
<1>5. CASE LeaveClears
  <2>1. /\ work'[Leaver] = [work[Leaver] EXCEPT !.pc = "delete"]
        /\ \A x \in Workers \ {Leaver} : work'[x] = work[x]
    BY <1>1, <1>5, SetMoves DEF LeaveClears, Goto
  <2>2. /\ work'[Leaver].pc = "delete" /\ work'[Leaver].snap = work[Leaver].snap
        /\ work'[Leaver].job = work[Leaver].job
    BY <1>1, <2>1 DEF TypeOK, Works
  <2>3. BudgetInv' /\ Later
    BY <1>1, <1>5, SpendIsLater DEF LeaveClears, LockInv
  <2> QED BY <1>1, <1>3, <1>4, <1>5, <2>1, <2>2, <2>3 DEF LeaveClears, clearCachedSnapshot, At
<1>6. CASE LeaveDeletes
  <2>1. work'[Leaver] = Idle /\ \A x \in Workers \ {Leaver} : work'[x] = work[x]
    BY <1>1, <1>6, SetMoves DEF LeaveDeletes, Done
  <2>2. Idle.pc = "idle" /\ Idle.job = "none" /\ Whole(Idle.snap)
    BY DEF Idle, Whole, Starts, StartJobs
  <2>3. BudgetInv' /\ Later
    BY <1>1, <1>6, SpendIsLater DEF LeaveDeletes, LockInv
  <2> QED BY <1>1, <1>3, <1>6, <2>1, <2>2, <2>3 DEF LeaveDeletes, At, StartJobs
<1> QED BY <1>2, <1>5, <1>6

LEMMA IdleKeepsLock ==
    ASSUME \A w \in Workers : work[w] = Idle, lock = NoWorker, cache = NoSnapshot,
           Whole(stored), BudgetInv
    PROVE  LockInv
<1>1. Idle.pc = "idle" /\ Idle.job = "none" /\ Idle.snap = NoSnapshot
  BY DEF Idle
<1>2. MutexInv /\ StepsInv /\ HoldsInv
  BY <1>1, ServerAssumption DEF MutexInv, StepsInv, StepOf, Starts, StartJobs, HoldsInv, Holds, At, LockedSteps
<1>3. WholeInv /\ CacheIsStored
  BY <1>1 DEF WholeInv, Whole, CacheIsStored
<1> QED BY <1>2, <1>3 DEF LockInv

LEMMA CrashKeepsLock ==
    ASSUME TypeOK, LockInv, Crash
    PROVE  LockInv'
<1>1. BudgetInv'
  BY SpendIsLater DEF Crash, LockInv, Events
<1>2. /\ \A w \in Workers : work'[w] = Idle
      /\ lock' = NoWorker /\ cache' = NoSnapshot /\ Whole(stored')
  BY DEF Crash, LockInv, WholeInv
<1>3. Idle.pc = "idle" /\ Idle.job = "none" /\ Idle.snap = NoSnapshot
  BY DEF Idle
<1>4. MutexInv' /\ StepsInv' /\ HoldsInv'
  BY <1>2, <1>3, ServerAssumption DEF MutexInv, StepsInv, StepOf, Starts, StartJobs, HoldsInv, Holds, At, LockedSteps
<1>5. WholeInv' /\ CacheIsStored'
  BY <1>2, <1>3 DEF WholeInv, Whole, CacheIsStored
<1> QED BY <1>1, <1>4, <1>5 DEF LockInv

LEMMA InitLocked == Init => LockInv
<1> SUFFICES ASSUME Init PROVE LockInv
  OBVIOUS
<1>1. BudgetInv
  <2>1. Budget \in [Events -> Nat] /\ budget = Budget
    BY ServerAssumption DEF Init
  <2> QED BY <2>1 DEF BudgetInv
<1>2. /\ \A w \in Workers : work[w] = Idle
      /\ lock = NoWorker /\ cache = NoSnapshot /\ Whole(stored)
  BY DEF Init, Whole
<1> QED BY <1>1, <1>2, IdleKeepsLock

LEMMA NextKeepsLock ==
    ASSUME TypeOK, LockInv, ~CueStates, [Next]_vars
    PROVE  LockInv'
<1>1. CASE UNCHANGED vars
  BY <1>1, StillKeepsLock DEF vars
<1>2. CASE Join \/ StartMatch \/ Tick
  BY <1>2, RoomKeepsLock
<1>3. CASE Crash
  BY <1>3, CrashKeepsLock
<1>4. CASE \/ LeaveClears \/ LeaveDeletes
           \/ \E role \in {"creator", "opponent"} : Leave(role)
  BY <1>4, LeaveKeepsLock
<1>5. ASSUME NEW u \in Users, RequestRematch(u) \/ Receive(u) \/ Connection(u)
      PROVE  LockInv'
  BY <1>5, ConnectionKeepsLock, StartClearsKeepsLock, DealKeepsLock, EventKeepsLock
     DEF Connection
<1>6. ASSUME NEW g \in Goroutines, NEW k \in Kinds, Fire(g, k)
      PROVE  LockInv'
  BY <1>6, FireKeepsLock
<1>7. ASSUME NEW w \in Workers, Section(w)
      PROVE  LockInv'
  BY <1>7, EnterKeepsLock, LoadKeepsLock, FillKeepsLock, ReconcileKeepsLock, PersistKeepsLock
     DEF Section
<1> QED BY <1>1, <1>2, <1>3, <1>4, <1>5, <1>6, <1>7 DEF Next

LEMMA AlwaysLocked ==
    ASSUME ~CueStates
    PROVE  Spec => [](TypeOK /\ LockInv)
<1>1. Init => TypeOK /\ LockInv
  BY InitTyped, InitLocked
<1>2. TypeOK /\ LockInv /\ [Next]_vars => (TypeOK /\ LockInv)'
  BY NextKeepsType, NextKeepsLock
<1> QED BY <1>1, <1>2, PTL DEF Spec

\* Between two locked sections the cache is empty or holds the stored row,
\* whatever stalls, leaves, crashes and failures come in between; only a leave
\* that crossed a section may leave a snapshot in the cache that has no row.
THEOREM CacheMatchesRow ==
    ASSUME ~CueStates
    PROVE  Spec => []CacheIsStored
<1>1. TypeOK /\ LockInv => CacheIsStored
  BY DEF LockInv
<1> QED BY <1>1, AlwaysLocked, PTL

-----------------------------------------------------------------------------
(***************************************************************************)
(* Who writes the row: a section whose snapshot is a newer version, the    *)
(* deal of a match, a leave that deletes it.                               *)
(***************************************************************************)
LEMMA StoredByPersist ==
    ASSUME TypeOK, [Next]_vars, stored' # stored, Exists(stored')
    PROVE  \E w \in Workers : Persist(w) /\ PersistSucceeds(w)
<1>1. ~UNCHANGED stored
  OBVIOUS
<1>2. CASE UNCHANGED vars
  BY <1>1, <1>2 DEF vars
<1>3. CASE Join \/ StartMatch \/ Tick \/ Crash \/ LeaveClears
  BY <1>1, <1>3 DEF Join, StartMatch, Tick, Crash, LeaveClears
<1>4. CASE LeaveDeletes
  BY <1>1, <1>4, InitialExists DEF LeaveDeletes
<1>5. ASSUME NEW role, Leave(role)
      PROVE  FALSE
  BY <1>1, <1>5 DEF Leave
<1>6. ASSUME NEW u \in Users, RequestRematch(u) \/ Receive(u) \/ Connection(u)
      PROVE  FALSE
  BY <1>1, <1>6 DEF RequestRematch, Receive, Connection, Restart, StartClears, Deal, TurnReady,
     ShotStarted, ShotResultSubmitted, Dispatch, Peek, PeekFill, Finish
<1>7. ASSUME NEW g \in Goroutines, NEW k \in Kinds, Fire(g, k)
      PROVE  FALSE
  BY <1>1, <1>7 DEF Fire
<1>8. ASSUME NEW w \in Workers, Enter(w) \/ Load(w) \/ Fill(w) \/ Reconcile(w)
      PROVE  FALSE
  BY <1>1, <1>8 DEF Enter, Load, Fill, Reconcile
<1>9. ASSUME NEW w \in Workers, Persist(w)
      PROVE  PersistSucceeds(w)
  BY <1>1, <1>9 DEF Persist, PersistFails
<1> QED BY <1>2, <1>3, <1>4, <1>5, <1>6, <1>7, <1>8, <1>9 DEF Next, Section

LEMMA StepStoresNewer ==
    ASSUME TypeOK, LockInv, [Next]_vars, stored' # stored, Exists(stored), Exists(stored')
    PROVE  \/ snapshotIsNewer(stored', stored)
           \/ \E u \in Users : Dealing(u)
           \/ Happened("readFault")
<1>1. PICK w \in Workers : Persist(w) /\ PersistSucceeds(w)
  BY StoredByPersist
<1>2. stored' = work[w].snap /\ work[w].pc \in {"create", "persist"}
  BY <1>1 DEF PersistSucceeds, Persist
<1>3. MayBeStored(w, stored')
  BY <1>2 DEF LockInv, HoldsInv, Holds
<1>4. stored # NoSnapshot
  BY InitialExists
<1>5. CASE At(w, "persist") /\ work[w].job \in StartJobs
  <2>1. w \in Users
    BY <1>5 DEF LockInv, StepsInv, StepOf, Starts, StartJobs
  <2> QED BY <1>5, <2>1 DEF Dealing, StartJobs
<1> QED BY <1>3, <1>4, <1>5 DEF MayBeStored

\* Within a match the stored version only grows: no stale handler, late timer
\* or restart puts an older snapshot over a newer one.
THEOREM RowGetsNewer ==
    ASSUME ~CueStates
    PROVE  Spec => RowOnlyGetsNewer
<1>1. TypeOK /\ LockInv /\ [Next]_vars =>
          [ stored' # stored /\ Exists(stored) /\ Exists(stored')
              => \/ snapshotIsNewer(stored', stored)
                 \/ \E u \in Users : Dealing(u)
                 \/ Happened("readFault") ]_vars
  BY StepStoresNewer
<1> QED BY <1>1, AlwaysLocked, PTL DEF RowOnlyGetsNewer, Spec

-----------------------------------------------------------------------------
(***************************************************************************)
(* One goroutine moves at a time.                                          *)
(***************************************************************************)
Only(w) == \A x \in Workers \ {w} : work'[x] = work[x]

LEMMA SetOnly ==
    ASSUME TypeOK, NEW w \in Workers, NEW r, Set(w, r)
    PROVE  Only(w)
BY SetMoves DEF Only

LEMMA StageOnly ==
    ASSUME TypeOK, NEW w \in Workers, NEW s, NEW pc, Stage(w, s, pc)
    PROVE  Only(w)
BY SetOnly DEF Stage, FailWith, Done

LEMMA NoCanonicalOnly ==
    ASSUME TypeOK, NEW w \in Workers, NoCanonicalSnapshot(w)
    PROVE  Only(w)
BY SetOnly, StageOnly DEF NoCanonicalSnapshot, FailWith, Done

LEMMA SectionOnly ==
    ASSUME TypeOK, NEW w \in Workers, Section(w)
    PROVE  Only(w)
<1>1. CASE Enter(w)
  BY <1>1, SetOnly DEF Enter, Goto
<1>2. CASE Load(w)
  BY <1>2, SetOnly, NoCanonicalOnly DEF Load
<1>3. CASE Fill(w)
  BY <1>3, SetOnly, NoCanonicalOnly DEF Fill, Goto
<1>4. CASE Reconcile(w)
  BY <1>4, SetOnly, StageOnly DEF Reconcile
<1>5. CASE Persist(w)
  BY <1>5, SetOnly DEF Persist, PersistSucceeds, PersistFails, FailWith, Done, Goto
<1> QED BY <1>1, <1>2, <1>3, <1>4, <1>5 DEF Section

LEMMA EventOnly ==
    ASSUME TypeOK, NEW u \in Users,
           TurnReady(u) \/ ShotStarted(u) \/ ShotResultSubmitted(u) \/ Deal(u)
    PROVE  Only(u)
<1>1. u \in Workers
  BY DEF Workers
<1>2. ASSUME Refuse(u)
      PROVE  Only(u)
  BY <1>1, <1>2, SetOnly DEF Refuse, Done
<1>3. ASSUME NEW s, NEW pc, Stage(u, s, pc)
      PROVE  Only(u)
  BY <1>1, <1>3, StageOnly
<1>4. CASE TurnReady(u)
  BY <1>2, <1>3, <1>4 DEF TurnReady
<1>5. CASE ShotStarted(u)
  BY <1>2, <1>3, <1>5 DEF ShotStarted
<1>6. CASE ShotResultSubmitted(u)
  BY <1>2, <1>3, <1>6 DEF ShotResultSubmitted
<1>7. CASE Deal(u)
  BY <1>3, <1>7 DEF Deal
<1> QED BY <1>4, <1>5, <1>6, <1>7

LEMMA UserOnly ==
    ASSUME TypeOK, NEW u \in Users, RequestRematch(u) \/ Receive(u) \/ Connection(u)
    PROVE  Only(u)
<1>1. u \in Workers
  BY DEF Workers
<1>2. ASSUME UNCHANGED work
      PROVE  Only(u)
  BY <1>2 DEF Only
<1>3. CASE RequestRematch(u)
  BY <1>1, <1>2, <1>3, SetOnly DEF RequestRematch
<1>4. CASE Receive(u)
  BY <1>1, <1>4, SetOnly DEF Receive
<1>5. CASE Restart(u)
  BY <1>1, <1>5, SetOnly DEF Restart, Done
<1>6. CASE StartClears(u)
  BY <1>1, <1>6, SetOnly DEF StartClears, Goto
<1>7. CASE Dispatch(u)
  BY <1>1, <1>7, SetOnly DEF Dispatch, Done
<1>8. CASE Peek(u) \/ PeekFill(u)
  BY <1>1, <1>8, SetOnly DEF Peek, PeekFill, Done
<1>9. CASE Finish(u)
  BY <1>1, <1>9, SetOnly DEF Finish, Done
<1> QED BY <1>3, <1>4, <1>5, <1>6, <1>7, <1>8, <1>9, EventOnly DEF Connection

LEMMA FireOnly ==
    ASSUME TypeOK, NEW g \in Goroutines, NEW k \in Kinds, Fire(g, k)
    PROVE  Only(g)
<1>1. g \in Workers
  BY DEF Workers
<1>2. ASSUME UNCHANGED work
      PROVE  Only(g)
  BY <1>2 DEF Only
<1> QED BY <1>1, <1>2, SetOnly DEF Fire

LEMMA LeaverOnly ==
    ASSUME TypeOK,
           \/ LeaveClears \/ LeaveDeletes
           \/ \E role \in {"creator", "opponent"} : Leave(role)
    PROVE  Only(Leaver)
<1>1. Leaver \in Workers
  BY DEF Workers
<1> QED BY <1>1, SetOnly DEF LeaveClears, LeaveDeletes, Leave, Goto, Done

-----------------------------------------------------------------------------
(***************************************************************************)
(* A match that is not dealt yet has a goroutine that is on its way to     *)
(* deal it, and the cache that it meets is empty.                          *)
(***************************************************************************)
WillDeal(u) == work[u].job \in StartJobs /\ work[u].pc \in {"clear", "deal", "persist"}

Undealt ==
    /\ room.status = "playing" /\ ~dealt
    /\ ~Happened("crash") /\ ~Happened("writeFault")

DealInv == Undealt => \E u \in Users : WillDeal(u)

LEMMA NextIsLater ==
    ASSUME TypeOK, LockInv, [Next]_vars
    PROVE  Later
<1>1. BudgetInv
  BY DEF LockInv
<1>2. ASSUME UNCHANGED budget \/ \E e \in Events : Spend(e)
      PROVE  Later
  <2>1. CASE UNCHANGED budget
    BY <2>1 DEF Later, Happened
  <2>2. CASE \E e \in Events : Spend(e)
    BY <1>1, <2>2, SpendIsLater
  <2> QED BY <1>2, <2>1, <2>2
<1>3. Events = {"start", "rematch", "leave", "crash", "writeFault", "readFault"}
  BY DEF Events
<1>4. CASE UNCHANGED vars
  BY <1>2, <1>4 DEF vars
<1>5. CASE Join \/ StartMatch \/ Tick \/ Crash \/ LeaveClears \/ LeaveDeletes
  BY <1>2, <1>3, <1>5 DEF Join, StartMatch, Tick, Crash, LeaveClears, LeaveDeletes
<1>6. ASSUME NEW role, Leave(role)
      PROVE  Later
  BY <1>2, <1>3, <1>6 DEF Leave
<1>7. ASSUME NEW u \in Users, RequestRematch(u) \/ Receive(u) \/ Connection(u)
      PROVE  Later
  BY <1>2, <1>3, <1>7 DEF RequestRematch, Receive, Connection, Restart, StartClears, Deal,
     TurnReady, ShotStarted, ShotResultSubmitted, Dispatch, Peek, PeekFill, Finish
<1>8. ASSUME NEW g \in Goroutines, NEW k \in Kinds, Fire(g, k)
      PROVE  Later
  BY <1>2, <1>3, <1>8 DEF Fire
<1>9. ASSUME NEW w \in Workers, Section(w)
      PROVE  Later
  BY <1>2, <1>3, <1>9 DEF Section, Enter, Load, Fill, Reconcile, Persist, PersistSucceeds,
     PersistFails
<1> QED BY <1>4, <1>5, <1>6, <1>7, <1>8, <1>9 DEF Next

\* Such a goroutine takes its own three steps and is moved by nothing else.
LEMMA WillDealStays ==
    ASSUME TypeOK, LockInv, [Next]_vars, ~Crash, NEW u \in Users, WillDeal(u)
    PROVE  work'[u] = work[u] \/ StartClears(u) \/ Deal(u) \/ Persist(u)
<1>1. u \in Workers /\ u # Leaver /\ u \notin Goroutines
  BY ServerAssumption DEF Workers
<1>2. ASSUME NEW w \in Workers, Only(w), w # u
      PROVE  work'[u] = work[u]
  BY <1>1, <1>2 DEF Only
<1>3. CASE UNCHANGED vars \/ Join \/ Tick
  BY <1>3 DEF vars, Join, Tick
<1>4. CASE StartMatch
  <2>1. Creator \in Workers /\ Creator # u
    BY <1>4 DEF StartMatch, At, WillDeal, Workers, Users
  <2>2. Only(Creator)
    BY <1>4, <2>1, SetOnly DEF StartMatch
  <2> QED BY <1>2, <2>1, <2>2
<1>5. CASE \/ LeaveClears \/ LeaveDeletes
           \/ \E role \in {"creator", "opponent"} : Leave(role)
  BY <1>1, <1>2, <1>5, LeaverOnly DEF Workers
<1>6. ASSUME NEW v \in Users, RequestRematch(v) \/ Receive(v) \/ Connection(v)
      PROVE  work'[u] = work[u] \/ StartClears(u) \/ Deal(u)
  <2>1. v \in Workers /\ Only(v)
    BY <1>6, UserOnly DEF Workers
  <2>2. CASE v = u
    BY <1>6, <2>2 DEF WillDeal, At, StartJobs, RequestRematch, Receive, Connection, Restart, TurnReady,
       ShotStarted, ShotResultSubmitted, Dispatch, Peek, PeekFill, Finish
  <2> QED BY <1>2, <2>1, <2>2
<1>7. ASSUME NEW g \in Goroutines, NEW k \in Kinds, Fire(g, k)
      PROVE  work'[u] = work[u]
  BY <1>1, <1>2, <1>7, FireOnly DEF Workers
<1>8. ASSUME NEW w \in Workers, Section(w)
      PROVE  work'[u] = work[u] \/ Persist(u)
  <2>1. Only(w)
    BY <1>8, SectionOnly
  <2>2. CASE w = u
    BY <1>8, <2>2 DEF WillDeal, At, Section, Enter, Load, Fill, Reconcile, Reconciles, IsTimerJob, Kinds,
       StartJobs
  <2> QED BY <1>2, <1>8, <2>1, <2>2
<1> QED BY <1>3, <1>4, <1>5, <1>6, <1>7, <1>8 DEF Next

LEMMA NextKeepsDeal ==
    ASSUME TypeOK, LockInv, DealInv, [Next]_vars
    PROVE  DealInv'
<1> SUFFICES ASSUME Undealt' PROVE (\E u \in Users : WillDeal(u))'
  BY DEF DealInv
<1>1. Later /\ {"crash", "writeFault"} \subseteq Events /\ BudgetInv
  BY NextIsLater DEF Events, LockInv
<1>2. ~Happened("crash") /\ ~Happened("writeFault")
  BY <1>1 DEF Later, Undealt
<1>3. ~Crash
  BY <1>1, SpentHappened DEF Crash, Undealt
<1>4. CASE Undealt
  <2>1. PICK u \in Users : WillDeal(u)
    BY <1>4 DEF DealInv
  <2>2. u \in Workers
    BY DEF Workers
  <2>3. CASE work'[u] = work[u]
    BY <2>1, <2>3 DEF WillDeal
  <2>4. CASE StartClears(u)
    <3>1. work'[u] = [work[u] EXCEPT !.pc = "deal"]
      BY <2>2, <2>4, SetMoves DEF StartClears, Goto
    <3>2. work'[u].pc = "deal" /\ work'[u].job = work[u].job
      BY <2>2, <3>1 DEF TypeOK, Works
    <3> QED BY <2>1, <3>2 DEF WillDeal
  <2>5. CASE Deal(u)
    <3>1. cache = NoSnapshot
      BY <2>2, <2>5 DEF Deal, At, LockInv, HoldsInv, Holds
    <3>2. Set(u, [work[u] EXCEPT !.pc = "persist", !.snap = newInitialMatchSnapshot(now)])
      BY <2>5, <3>1, InitialExists DEF Deal, Stage, setCachedSnapshotAccepts
    <3>3. work'[u] = [work[u] EXCEPT !.pc = "persist", !.snap = newInitialMatchSnapshot(now)]
      BY <2>2, <3>2, SetMoves
    <3>4. work'[u].pc = "persist" /\ work'[u].job = work[u].job
      BY <2>2, <3>3 DEF TypeOK, Works
    <3> QED BY <2>1, <3>4 DEF WillDeal
  <2>6. CASE Persist(u)
    <3>1. CASE PersistSucceeds(u)
      BY <2>1, <3>1 DEF PersistSucceeds, Deals, WillDeal, StartJobs, Undealt
    <3>2. CASE PersistFails(u)
      BY <1>1, <3>2, SpentHappened DEF PersistFails, Undealt
    <3> QED BY <2>6, <3>1, <3>2 DEF Persist
  <2> QED BY <1>3, <2>1, <2>3, <2>4, <2>5, <2>6, WillDealStays
<1>5. CASE ~Undealt
  <2>1. room.status # "playing" \/ dealt
    BY <1>2, <1>5 DEF Undealt
  <2>2. room'.status = "playing" /\ ~dealt'
    BY DEF Undealt
  <2>3. CASE StartMatch
    <3>1. work'[Creator] = [Idle EXCEPT !.pc = "clear", !.job = "match_start", !.room = room']
      BY <2>3, SetMoves DEF StartMatch, Workers, Users
    <3> QED BY <3>1 DEF WillDeal, StartJobs, Users, Idle
  <2>4. ASSUME NEW u \in Users, Restart(u)
        PROVE  WillDeal(u)'
    <3>1. u \in Workers /\ work[u].job = "rematch_request"
      BY <2>4 DEF Workers, Restart, At, LockInv, StepsInv, StepOf
    <3>2. Set(u, [work[u] EXCEPT !.pc = "clear", !.room = room'])
      BY <2>1, <2>2, <2>4 DEF Restart
    <3>3. work'[u] = [work[u] EXCEPT !.pc = "clear", !.room = room']
      BY <3>1, <3>2, SetMoves
    <3>4. work'[u].pc = "clear" /\ work'[u].job = "rematch_request"
      BY <3>1, <3>3 DEF TypeOK, Works
    <3> QED BY <3>4 DEF WillDeal, StartJobs
  <2>5. CASE UNCHANGED vars \/ Join \/ Tick \/ LeaveClears \/ LeaveDeletes
    BY <2>1, <2>2, <2>5 DEF vars, Join, Tick, LeaveClears, LeaveDeletes, TypeOK, Rooms
  <2>6. ASSUME NEW role, Leave(role)
        PROVE  FALSE
    BY <2>1, <2>2, <2>6 DEF Leave, TypeOK, Rooms
  <2>7. ASSUME NEW u \in Users, RequestRematch(u) \/ Receive(u) \/ Connection(u), ~Restart(u)
        PROVE  FALSE
    BY <2>1, <2>2, <2>7 DEF RequestRematch, Receive, Connection, StartClears, Deal, TurnReady,
       ShotStarted, ShotResultSubmitted, Dispatch, Peek, PeekFill, Finish, TypeOK, Rooms
  <2>8. ASSUME NEW g \in Goroutines, NEW k \in Kinds, Fire(g, k)
        PROVE  FALSE
    BY <2>1, <2>2, <2>8 DEF Fire
  <2>9. ASSUME NEW w \in Workers, Section(w)
        PROVE  FALSE
    BY <2>1, <2>2, <2>9 DEF Section, Enter, Load, Fill, Reconcile, Persist, PersistSucceeds,
       PersistFails
  <2> QED BY <1>3, <2>3, <2>4, <2>5, <2>6, <2>7, <2>8, <2>9 DEF Next
<1> QED BY <1>4, <1>5

\* Whatever the match before, a leave or a late handler left behind in the cache
\* and in the database, and whatever stalls: the first snapshot of a match that
\* was opened is stored, unless the write fails or the service dies.
THEOREM MatchesAreDealt ==
    ASSUME ~CueStates
    PROVE  Spec => []MatchIsDealt
<1>1. Init => DealInv
  BY DEF Init, DealInv, Undealt
<1>2. TypeOK /\ LockInv /\ DealInv /\ [Next]_vars => DealInv'
  BY NextKeepsDeal
<1>3. DealInv => MatchIsDealt
  BY DEF DealInv, Undealt, WillDeal, MatchIsDealt, Starting, StartJobs, At
<1> QED BY <1>1, <1>2, <1>3, AlwaysLocked, PTL DEF Spec

-----------------------------------------------------------------------------
(***************************************************************************)
(* The result of a match.  As long as nobody has left and no read failed,  *)
(* the room's status says where goroutines may be: from the winning        *)
(* snapshot on they only find out that the match is over, until            *)
(* FinishRoom, and after it until match_start or rematch_request has the   *)
(* lock.  A match_start that is still waiting for the lock has nothing     *)
(* played before it: no deadline passes, and its creator is to shoot.      *)
(***************************************************************************)
Calm == ~Left /\ ~Happened("readFault")

Result(s) == s.status = "finished" /\ s.winner \in Users

First == newInitialMatchSnapshot(now)

Quiet == {"idle", "restart", "enter", "decide", "event"}

WaitingInv ==
    room.status = "waiting" =>
        /\ requested = {} /\ stored = NoSnapshot /\ cache = NoSnapshot
        /\ \A w \in Workers : At(w, "idle")

PlayingInv ==
    /\ room.status \in {"waiting", "playing", "finished"}
    /\ room.status = "playing" => requested = {}

FinishedInv ==
    room.status = "finished" =>
        /\ Result(stored)
        /\ \A w \in Workers : work[w].pc \in Quiet
        /\ cache = NoSnapshot => \A w \in Workers : work[w].pc \in {"idle", "restart"}

FinishInv ==
    \A u \in Workers : At(u, "finish") =>
        /\ room.status = "playing" /\ Result(stored) /\ cache # NoSnapshot
        /\ \A w \in Workers \ {u} : work[w].pc \in Quiet

StartInv ==
    \A u \in Workers : At(u, "clear") /\ work[u].job = "match_start" =>
        /\ room.status = "playing"
        /\ {cache, stored} \subseteq {NoSnapshot, First}
        /\ \A w \in Workers \ {u} :
              /\ work[w].pc \in {"idle", "enter", "load", "fill", "create", "decide", "event"}
              /\ work[w].pc \in {"fill", "create", "decide"} => work[w].snap = First

RematchInv ==
    \A u \in Workers : At(u, "clear") /\ work[u].job = "rematch_request" =>
        /\ room.status = "playing" /\ Result(stored)
        /\ \A w \in Workers \ {u} : work[w].pc \in Quiet \cup {"load", "fill"}

ResultParts ==
    WaitingInv /\ PlayingInv /\ FinishedInv /\ FinishInv /\ StartInv /\ RematchInv

ResultInv == Calm => ResultParts

\* What LockInv says while Calm.
LEMMA CalmLock ==
    ASSUME LockInv, Calm
    PROVE  /\ At(Leaver, "idle")
           /\ \A w \in Workers :
                 /\ work[w].pc \notin {"peek", "peekFill", "delete"}
                 /\ At(w, "clear") => work[w].job \in StartJobs
                 /\ work[w].pc \in {"load", "deal"} => cache = NoSnapshot
                 /\ At(w, "fill") => /\ cache = NoSnapshot /\ stored = work[w].snap
                                     /\ Exists(work[w].snap)
                 /\ At(w, "decide") => /\ cache = work[w].snap /\ stored = work[w].snap
                                       /\ Exists(work[w].snap)
                 /\ work[w].pc \in {"create", "persist"} => cache = work[w].snap /\ Exists(cache)
           /\ lock = NoWorker => cache \in {NoSnapshot, stored}
<1>1. Leaver \in Workers /\ ~Left
  BY DEF Workers, Calm
<1>2. At(Leaver, "idle")
  BY <1>1 DEF LockInv, StepsInv, StepOf
<1>3. lock = NoWorker => cache \in {NoSnapshot, stored}
  BY <1>1 DEF LockInv, CacheIsStored, Left
<1>4. ASSUME NEW w \in Workers
      PROVE  /\ work[w].pc \notin {"peek", "peekFill", "delete"}
             /\ At(w, "clear") => work[w].job \in StartJobs
  BY <1>2, <1>4 DEF LockInv, StepsInv, StepOf, At
<1>5. ASSUME NEW w \in Workers
      PROVE  /\ work[w].pc \in {"load", "deal"} => cache = NoSnapshot
             /\ At(w, "fill") => /\ cache = NoSnapshot /\ stored = work[w].snap
                                 /\ Exists(work[w].snap)
             /\ At(w, "decide") => /\ cache = work[w].snap /\ stored = work[w].snap
                                   /\ Exists(work[w].snap)
             /\ work[w].pc \in {"create", "persist"} => cache = work[w].snap /\ Exists(cache)
  BY <1>1, <1>5 DEF LockInv, HoldsInv, Holds, CacheIs, StoredIs
<1> QED BY <1>2, <1>3, <1>4, <1>5

\* No match is about to finish and none is about to be dealt.
Plain == room.status = "playing" /\ \A w \in Workers : work[w].pc \notin {"finish", "clear"}

LEMMA PlainKeepsResult ==
    ASSUME Plain', requested' = {}
    PROVE  ResultParts'
<1>1. WaitingInv' /\ PlayingInv' /\ FinishedInv'
  BY DEF Plain, WaitingInv, PlayingInv, FinishedInv
<1>2. FinishInv' /\ StartInv' /\ RematchInv'
  BY DEF Plain, FinishInv, StartInv, RematchInv, At
<1> QED BY <1>1, <1>2 DEF ResultParts

\* A goroutine moves on and changes nothing but itself.
LEMMA QuietMove ==
    ASSUME ResultParts, NEW w \in Workers, Only(w), UNCHANGED <<now, room, stored, cache>>,
           requested' = requested \/ room.status = "finished",
           work'[w].pc \in Quiet \cup {"load", "fill"}, ~At(w, "clear"),
           room.status = "waiting" => work'[w].pc = "idle",
           work'[w].pc = "restart" => room.status = "finished",
           work'[w].pc \in {"load", "fill"} =>
               cache = NoSnapshot /\ work[w].pc \notin {"idle", "restart"},
           room.status = "finished" /\ cache = NoSnapshot => work'[w].pc \in {"idle", "restart"},
           work'[w].pc \in {"fill", "decide"} =>
               work'[w].snap \in {stored, cache} /\ work'[w].snap # NoSnapshot
    PROVE  ResultParts'
<1> USE DEF Only, Quiet
<1>1. \A x \in Workers : x # w => work'[x] = work[x]
  OBVIOUS
<1>2. WaitingInv' /\ PlayingInv'
  BY <1>1 DEF ResultParts, WaitingInv, PlayingInv, At
<1>3. FinishedInv'
  BY <1>1 DEF ResultParts, FinishedInv, Result
<1>4. FinishInv'
  <2> SUFFICES ASSUME NEW u \in Workers, At(u, "finish")'
               PROVE  (/\ room.status = "playing" /\ Result(stored) /\ cache # NoSnapshot
                       /\ \A x \in Workers \ {u} : work[x].pc \in Quiet)'
    BY DEF FinishInv
  <2>1. u # w /\ At(u, "finish")
    BY <1>1 DEF At
  <2>2. /\ room.status = "playing" /\ Result(stored) /\ cache # NoSnapshot
        /\ \A x \in Workers \ {u} : work[x].pc \in Quiet
    BY <2>1 DEF ResultParts, FinishInv
  <2> QED BY <1>1, <2>1, <2>2 DEF Result
<1>5. StartInv'
  <2> SUFFICES ASSUME NEW u \in Workers, (At(u, "clear") /\ work[u].job = "match_start")'
               PROVE  (/\ room.status = "playing"
                       /\ {cache, stored} \subseteq {NoSnapshot, First}
                       /\ \A x \in Workers \ {u} :
                             /\ work[x].pc \in {"idle", "enter", "load", "fill", "create", "decide", "event"}
                             /\ work[x].pc \in {"fill", "create", "decide"} => work[x].snap = First)'
    BY DEF StartInv
  <2>1. u # w /\ At(u, "clear") /\ work[u].job = "match_start"
    BY <1>1 DEF At
  <2>2. /\ room.status = "playing"
        /\ {cache, stored} \subseteq {NoSnapshot, First}
        /\ \A x \in Workers \ {u} :
              /\ work[x].pc \in {"idle", "enter", "load", "fill", "create", "decide", "event"}
              /\ work[x].pc \in {"fill", "create", "decide"} => work[x].snap = First
    BY <2>1 DEF ResultParts, StartInv
  <2>3. First' = First
    BY DEF First
  <2> QED BY <1>1, <2>1, <2>2, <2>3
<1>6. RematchInv'
  <2> SUFFICES ASSUME NEW u \in Workers, (At(u, "clear") /\ work[u].job = "rematch_request")'
               PROVE  (/\ room.status = "playing" /\ Result(stored)
                       /\ \A x \in Workers \ {u} : work[x].pc \in Quiet \cup {"load", "fill"})'
    BY DEF RematchInv
  <2>1. u # w /\ At(u, "clear") /\ work[u].job = "rematch_request"
    BY <1>1 DEF At
  <2>2. /\ room.status = "playing" /\ Result(stored)
        /\ \A x \in Workers \ {u} : work[x].pc \in Quiet \cup {"load", "fill"}
    BY <2>1 DEF ResultParts, RematchInv
  <2> QED BY <1>1, <2>1, <2>2 DEF Result
<1> QED BY <1>2, <1>3, <1>4, <1>5, <1>6 DEF ResultParts

\* A goroutine that stores, or deals, has the match for itself.
LEMMA StoringIsPlain ==
    ASSUME LockInv, Calm, ResultParts, NEW w \in Workers, work[w].pc \in {"persist", "deal"}
    PROVE  Plain /\ requested = {}
<1>1. room.status = "playing" /\ requested = {}
  BY DEF ResultParts, PlayingInv, WaitingInv, FinishedInv, At, Quiet
<1>2. ASSUME NEW x \in Workers, At(x, "finish")
      PROVE  FALSE
  BY <1>2 DEF ResultParts, FinishInv, At, Quiet
<1>3. ASSUME NEW x \in Workers, At(x, "clear")
      PROVE  FALSE
  <2>1. work[x].job \in StartJobs /\ x # w
    BY <1>3, CalmLock DEF At
  <2> QED BY <1>3, <2>1 DEF ResultParts, StartInv, RematchInv, At, Quiet, StartJobs
<1> QED BY <1>1, <1>2, <1>3 DEF Plain, At

LEMMA DecidingIsPlain ==
    ASSUME LockInv, Calm, ResultParts, NEW w \in Workers, At(w, "decide"),
           ~Result(work[w].snap),
           \A u \in Workers : ~(At(u, "clear") /\ work[u].job = "match_start")
    PROVE  Plain /\ requested = {}
<1>1. ~Result(stored)
  BY CalmLock
<1>2. room.status = "playing" /\ requested = {}
  BY <1>1 DEF ResultParts, PlayingInv, WaitingInv, FinishedInv, At
<1>3. ASSUME NEW x \in Workers, At(x, "finish")
      PROVE  FALSE
  BY <1>1, <1>3 DEF ResultParts, FinishInv
<1>4. ASSUME NEW x \in Workers, At(x, "clear")
      PROVE  FALSE
  <2>1. work[x].job \in StartJobs
    BY <1>4, CalmLock
  <2> QED BY <1>1, <1>4, <2>1 DEF ResultParts, RematchInv, StartJobs
<1> QED BY <1>2, <1>3, <1>4 DEF Plain, At

\* A goroutine that decides while match_start waits for the lock has the
\* first snapshot, just created.
LEMMA DecidingFirst ==
    ASSUME LockInv, ResultParts, NEW w \in Workers, At(w, "decide"),
           NEW u \in Workers, At(u, "clear"), work[u].job = "match_start"
    PROVE  work[w].snap = First /\ w # Creator
<1>1. u # w /\ u = Creator
  BY DEF At, LockInv, StepsInv, StepOf, Starts
<1> QED BY <1>1 DEF ResultParts, StartInv, At

LEMMA FirstIsNotDue ==
    ASSUME now \in Nat
    PROVE  /\ ~reconcileDue(First) /\ First.turnUser = Creator /\ First.status = "aiming"
           /\ ~Result(First)
<1>1. /\ First.status = "aiming" /\ First.turnUser = Creator /\ First.turnDeadline = 0
      /\ First.updatedAt = now
  BY DEF First, newInitialMatchSnapshot, NoSnapshot
<1>2. ~(now >= now + PrepareTime)
  BY RulesAssumption
<1> QED BY <1>1, <1>2 DEF reconcileDue, isTurnExpired, turnPrepareDue, shotResultExpired, Undecided,
       turnClockStarted, Result

-----------------------------------------------------------------------------
(***************************************************************************)
(* The locked sections.                                                    *)
(***************************************************************************)

\* A staged move: the match is nobody else's.
LEMMA StageKeepsResult ==
    ASSUME TypeOK, Plain, requested = {}, NEW w \in Workers, NEW s, Stage(w, s, "persist"),
           UNCHANGED <<room, requested>>
    PROVE  ResultParts'
<1>1. Only(w)
  BY StageOnly
<1>2. work'[w].pc \notin {"finish", "clear"}
  <2>1. ASSUME Set(w, [work[w] EXCEPT !.pc = "persist", !.snap = s])
        PROVE  work'[w].pc = "persist"
    <3>1. work'[w] = [work[w] EXCEPT !.pc = "persist", !.snap = s]
      BY <2>1, SetMoves
    <3> QED BY <3>1 DEF TypeOK, Works
  <2>2. ASSUME Done(w)
        PROVE  work'[w].pc = "idle"
    BY <2>2, SetMoves DEF Done, Idle
  <2> QED BY <2>1, <2>2 DEF Stage, FailWith
<1>3. Plain'
  BY <1>1, <1>2 DEF Plain, Only
<1> QED BY <1>3, PlainKeepsResult

\* The goroutine is done, and has changed nothing but itself.
LEMMA DoneKeepsResult ==
    ASSUME TypeOK, ResultParts, NEW w \in Workers, Done(w), ~At(w, "clear"),
           UNCHANGED <<now, room, stored, cache, requested>>
    PROVE  ResultParts'
<1>1. work'[w].pc = "idle" /\ Only(w)
  BY SetMoves DEF Done, Idle, Only
<1> QED BY <1>1, QuietMove DEF Quiet

LEMMA EnterKeepsResult ==
    ASSUME TypeOK, LockInv, Calm, ResultParts, NEW w \in Workers, Enter(w)
    PROVE  ResultParts'
<1>1. Only(w) /\ UNCHANGED <<now, room, stored, cache, requested>> /\ At(w, "enter")
  BY SectionOnly DEF Section, Enter
<1>2. room.status # "waiting"
  BY <1>1 DEF ResultParts, WaitingInv, At
<1>3. room.status = "finished" => cache # NoSnapshot
  BY <1>1 DEF ResultParts, FinishedInv, At
<1>4. CASE Exists(cache) /\ Set(w, [work[w] EXCEPT !.pc = "decide", !.snap = cache])
  <2>1. work'[w] = [work[w] EXCEPT !.pc = "decide", !.snap = cache]
    BY <1>4, SetMoves
  <2>2. work'[w].pc = "decide" /\ work'[w].snap = cache
    BY <2>1 DEF TypeOK, Works
  <2> QED BY <1>1, <1>2, <1>3, <1>4, <2>2, InitialExists, QuietMove DEF Quiet, At
<1>5. CASE ~Exists(cache) /\ Goto(w, "load")
  <2>1. work'[w] = [work[w] EXCEPT !.pc = "load"]
    BY <1>5, SetMoves DEF Goto
  <2>2. work'[w].pc = "load"
    BY <2>1 DEF TypeOK, Works
  <2>3. cache = NoSnapshot
    BY <1>5 DEF LockInv, WholeInv, Whole
  <2> QED BY <1>1, <1>2, <1>3, <2>2, <2>3, QuietMove DEF Quiet, At
<1> QED BY <1>4, <1>5 DEF Enter

LEMMA LoadKeepsResult ==
    ASSUME TypeOK, LockInv, Calm, Calm', ResultParts, NEW w \in Workers, Load(w)
    PROVE  ResultParts'
<1>1. Only(w) /\ UNCHANGED <<now, room, stored, requested>> /\ At(w, "load") /\ cache = NoSnapshot
  BY SectionOnly, CalmLock DEF Section, Load, At
<1>2. room.status = "playing" /\ requested = {}
  BY <1>1 DEF ResultParts, WaitingInv, PlayingInv, FinishedInv, At, Quiet
<1>3. CASE Exists(stored) /\ Set(w, [work[w] EXCEPT !.pc = "fill", !.snap = stored]) /\ UNCHANGED cache
  <2>1. work'[w] = [work[w] EXCEPT !.pc = "fill", !.snap = stored]
    BY <1>3, SetMoves
  <2>2. work'[w].pc = "fill" /\ work'[w].snap = stored
    BY <2>1 DEF TypeOK, Works
  <2> QED BY <1>1, <1>2, <1>3, <2>2, InitialExists, QuietMove DEF Quiet, At
<1>4. CASE ~Exists(stored) /\ Stage(w, First, "create")
  <2>1. cache' = First /\ Set(w, [work[w] EXCEPT !.pc = "create", !.snap = First])
    BY <1>1, <1>4, InitialExists DEF Stage, setCachedSnapshotAccepts
  <2>2. work'[w] = [work[w] EXCEPT !.pc = "create", !.snap = First]
    BY <2>1, SetMoves
  <2>3. work'[w].pc = "create" /\ work'[w].snap = First
    BY <2>2 DEF TypeOK, Works
  <2>4. ~Result(stored)
    BY <1>4 DEF Result, Exists
  <2>5. \A x \in Workers : x # w => work'[x] = work[x]
    BY <1>1 DEF Only
  <2>6. WaitingInv' /\ PlayingInv' /\ FinishedInv'
    BY <1>1, <1>2 DEF WaitingInv, PlayingInv, FinishedInv
  <2>7. FinishInv' /\ RematchInv'
    BY <2>3, <2>4, <2>5 DEF ResultParts, FinishInv, RematchInv, At
  <2>8. StartInv'
    <3> SUFFICES ASSUME NEW u \in Workers, (At(u, "clear") /\ work[u].job = "match_start")'
                 PROVE  (/\ room.status = "playing"
                         /\ {cache, stored} \subseteq {NoSnapshot, First}
                         /\ \A x \in Workers \ {u} :
                               /\ work[x].pc \in {"idle", "enter", "load", "fill", "create", "decide", "event"}
                               /\ work[x].pc \in {"fill", "create", "decide"} => work[x].snap = First)'
      BY DEF StartInv
    <3>1. u # w /\ At(u, "clear") /\ work[u].job = "match_start"
      BY <2>3, <2>5 DEF At
    <3>2. /\ {cache, stored} \subseteq {NoSnapshot, First}
          /\ \A x \in Workers \ {u} :
                /\ work[x].pc \in {"idle", "enter", "load", "fill", "create", "decide", "event"}
                /\ work[x].pc \in {"fill", "create", "decide"} => work[x].snap = First
      BY <3>1 DEF ResultParts, StartInv
    <3>3. First' = First
      BY <1>1 DEF First
    <3> QED BY <1>1, <1>2, <2>1, <2>3, <2>5, <3>2, <3>3
  <2> QED BY <2>6, <2>7, <2>8 DEF ResultParts
<1>5. CASE Done(w) /\ UNCHANGED cache
  BY <1>1, <1>5, DoneKeepsResult DEF At
<1>6. ~Spend("readFault")
  BY SpentHappened DEF LockInv, Calm, Events
<1> QED BY <1>3, <1>4, <1>5, <1>6 DEF Load, NoCanonicalSnapshot, FailWith, First

LEMMA FillKeepsResult ==
    ASSUME TypeOK, LockInv, Calm, ResultParts, NEW w \in Workers, Fill(w)
    PROVE  ResultParts'
<1> DEFINE s == work[w].snap
<1>1. /\ Only(w) /\ UNCHANGED <<now, room, stored, requested>> /\ At(w, "fill")
      /\ cache = NoSnapshot /\ stored = s
  BY SectionOnly, CalmLock DEF Section, Fill
<1>2. room.status = "playing" /\ requested = {}
  BY <1>1 DEF ResultParts, WaitingInv, PlayingInv, FinishedInv, At, Quiet
<1>3. cache' = s /\ Goto(w, "decide")
  BY <1>1, InitialExists DEF Fill, setCachedSnapshotAccepts
<1>4. work'[w] = [work[w] EXCEPT !.pc = "decide"]
  BY <1>3, SetMoves DEF Goto
<1>5. work'[w].pc = "decide" /\ work'[w].snap = s
  BY <1>4 DEF TypeOK, Works
<1>6. \A x \in Workers : x # w => work'[x] = work[x]
  BY <1>1 DEF Only
<1>7. WaitingInv' /\ PlayingInv' /\ FinishedInv'
  BY <1>1, <1>2 DEF WaitingInv, PlayingInv, FinishedInv
<1>8. FinishInv'
  BY <1>1, <1>5, <1>6 DEF ResultParts, FinishInv, At, Quiet
<1>9. RematchInv'
  BY <1>1, <1>5, <1>6 DEF ResultParts, RematchInv, At, Quiet, Result
<1>10. StartInv'
  <2> SUFFICES ASSUME NEW u \in Workers, (At(u, "clear") /\ work[u].job = "match_start")'
               PROVE  (/\ room.status = "playing"
                       /\ {cache, stored} \subseteq {NoSnapshot, First}
                       /\ \A x \in Workers \ {u} :
                             /\ work[x].pc \in {"idle", "enter", "load", "fill", "create", "decide", "event"}
                             /\ work[x].pc \in {"fill", "create", "decide"} => work[x].snap = First)'
    BY DEF StartInv
  <2>1. u # w /\ At(u, "clear") /\ work[u].job = "match_start"
    BY <1>5, <1>6 DEF At
  <2>2. /\ {cache, stored} \subseteq {NoSnapshot, First}
        /\ \A x \in Workers \ {u} :
              /\ work[x].pc \in {"idle", "enter", "load", "fill", "create", "decide", "event"}
              /\ work[x].pc \in {"fill", "create", "decide"} => work[x].snap = First
    BY <2>1 DEF ResultParts, StartInv
  <2>3. First' = First /\ s = First
    BY <1>1, <2>1, <2>2 DEF First, At
  <2> QED BY <1>1, <1>2, <1>3, <1>5, <1>6, <2>2, <2>3
<1> QED BY <1>7, <1>8, <1>9, <1>10 DEF ResultParts

LEMMA ReconcileKeepsResult ==
    ASSUME TypeOK, LockInv, Calm, ResultParts, NEW w \in Workers, Reconcile(w)
    PROVE  ResultParts'
<1> DEFINE s == work[w].snap
<1>1. /\ Only(w) /\ UNCHANGED <<now, room, stored, requested>> /\ At(w, "decide") /\ now \in Nat
      /\ cache # NoSnapshot
  BY SectionOnly, CalmLock, InitialExists DEF Section, Reconcile, TypeOK
<1>2. CASE reconcileDue(s) /\ Stage(w, reconciled(work[w].room, s), "persist")
  <2>1. ~Result(s)
    BY <1>2 DEF reconcileDue, isTurnExpired, turnPrepareDue, shotResultExpired, Undecided, Result
  <2>2. s # First
    BY <1>1, <1>2, FirstIsNotDue
  <2>3. Plain /\ requested = {}
    BY <1>1, <2>1, <2>2, DecidingFirst, DecidingIsPlain
  <2> QED BY <1>1, <1>2, <2>3, StageKeepsResult
<1>3. CASE Set(w, AfterSection(w, s)) /\ UNCHANGED cache
  <2>1. work[w].job # "shot_result"
    BY DEF Reconcile, Reconciles, IsTimerJob, Kinds
  <2>2. AfterSection(w, s) \in {[work[w] EXCEPT !.pc = "event", !.snap = NoSnapshot], Idle}
    BY <2>1 DEF AfterSection
  <2>3. [work[w] EXCEPT !.pc = "event", !.snap = NoSnapshot].pc = "event" /\ Idle.pc = "idle"
    BY DEF TypeOK, Works, Idle
  <2>4. work'[w].pc \in {"event", "idle"}
    BY <1>3, <2>2, <2>3, SetMoves
  <2>5. room.status # "waiting"
    BY <1>1 DEF ResultParts, WaitingInv, At
  <2> QED BY <1>1, <1>3, <2>4, <2>5, QuietMove DEF Quiet, At
<1> QED BY <1>2, <1>3 DEF Reconcile

LEMMA EventKeepsResult ==
    ASSUME TypeOK, LockInv, Calm, ResultParts, NEW u \in Users,
           TurnReady(u) \/ ShotStarted(u) \/ ShotResultSubmitted(u)
    PROVE  ResultParts'
<1> DEFINE s == work[u].snap
<1>1. /\ UNCHANGED <<now, room, stored, requested>> /\ At(u, "decide") /\ now \in Nat
      /\ u \in Workers
  BY DEF TurnReady, ShotStarted, ShotResultSubmitted, TypeOK, Workers
<1>2. ASSUME NEW t, Stage(u, t, "persist"), ~Result(s),
             s.turnUser = u \/ s.status = "moving"
      PROVE  ResultParts'
  <2>1. ASSUME NEW x \in Workers, At(x, "clear"), work[x].job = "match_start"
        PROVE  FALSE
    BY <1>1, <1>2, <2>1, DecidingFirst, FirstIsNotDue
  <2>2. Plain /\ requested = {}
    BY <1>1, <1>2, <2>1, DecidingIsPlain
  <2> QED BY <1>1, <1>2, <2>2, StageKeepsResult
<1>3. ASSUME Refuse(u)
      PROVE  ResultParts'
  BY <1>1, <1>3, DoneKeepsResult DEF Refuse, At
<1>4. CASE TurnReady(u)
  BY <1>2, <1>3, <1>4 DEF TurnReady, Undecided, Result
<1>5. CASE ShotStarted(u)
  BY <1>2, <1>3, <1>5 DEF ShotStarted, Undecided, Result
<1>6. CASE ShotResultSubmitted(u)
  BY <1>2, <1>3, <1>6 DEF ShotResultSubmitted, acceptsShotResult, Result
<1> QED BY <1>4, <1>5, <1>6

LEMMA PersistKeepsResult ==
    ASSUME TypeOK, LockInv, Calm, ResultParts, NEW w \in Workers, Persist(w),
           Sound(work[w].snap)
    PROVE  ResultParts'
<1> DEFINE s == work[w].snap
<1>1. /\ Only(w) /\ UNCHANGED <<now, room>> /\ cache = s /\ Exists(s)
      /\ work[w].pc \in {"create", "persist"} /\ s \in Snapshots
  BY SectionOnly, CalmLock DEF Section, Persist, TypeOK, Works
<1>2. \A x \in Workers : x # w => work'[x] = work[x]
  BY <1>1 DEF Only
<1>3. room.status = "playing" /\ requested = {}
  BY <1>1 DEF ResultParts, WaitingInv, PlayingInv, FinishedInv, At, Quiet
<1>4. requested' = {}
  BY <1>3 DEF Persist, PersistSucceeds, PersistFails
<1>5. CASE At(w, "persist")
  <2>1. Plain
    BY <1>5, StoringIsPlain DEF At
  <2>2. ASSUME work'[w].pc # "finish", work'[w].pc # "clear"
        PROVE  ResultParts'
    <3>1. Plain'
      BY <1>1, <1>2, <2>1, <2>2 DEF Plain
    <3> QED BY <1>4, <3>1, PlainKeepsResult
  <2>3. CASE PersistFails(w)
    <3>1. work'[w].pc = "idle"
      BY <2>3, SetMoves DEF PersistFails, FailWith, Done, Idle
    <3> QED BY <2>2, <3>1
  <2>4. CASE PersistSucceeds(w)
    <3>1. Set(w, AfterSection(w, s)) /\ stored' = s /\ cache' = s
      BY <1>1, <1>5, <2>4 DEF PersistSucceeds, At
    <3>2. work'[w] = AfterSection(w, s)
      BY <3>1, SetMoves
    <3>3. CASE work[w].job = "shot_result" /\ s.winner # NoUser
      <4>1. Result(s)
        BY <1>1, <3>3 DEF Sound, TurnIsSound, Result, Snapshots
      <4>2. AfterSection(w, s) = [work[w] EXCEPT !.pc = "finish"]
        BY <3>3 DEF AfterSection
      <4>3. work'[w].pc = "finish"
        BY <3>2, <4>2 DEF TypeOK, Works
      <4>4. ASSUME NEW x \in Workers \ {w}
            PROVE  work[x].pc \in Quiet
        <5>1. work[x].pc \notin LockedSteps
          BY <1>5 DEF LockInv, MutexInv, At, LockedSteps
        <5>2. work[x].pc \in Steps /\ work[x].pc \notin {"peek", "peekFill", "delete"}
          BY CalmLock DEF TypeOK, Works
        <5>3. work[x].pc \notin {"finish", "clear"}
          BY <2>1 DEF Plain
        <5> QED BY <5>1, <5>2, <5>3 DEF LockedSteps, Steps, Quiet
      <4>5. WaitingInv' /\ PlayingInv' /\ FinishedInv'
        BY <1>1, <1>3, <1>4 DEF WaitingInv, PlayingInv, FinishedInv
      <4>6. FinishInv'
        <5>1. \A x \in Workers : At(x, "finish")' => x = w
          BY <1>2, <2>1 DEF Plain, At
        <5>2. cache' # NoSnapshot /\ Result(stored') /\ room'.status = "playing"
          BY <1>1, <1>3, <3>1, <4>1, InitialExists
        <5> QED BY <1>2, <4>4, <5>1, <5>2 DEF FinishInv
      <4>7. StartInv' /\ RematchInv'
        BY <1>2, <2>1, <4>3 DEF Plain, StartInv, RematchInv, At
      <4> QED BY <4>5, <4>6, <4>7 DEF ResultParts
    <3>4. CASE ~(work[w].job = "shot_result" /\ s.winner # NoUser)
      <4>1. AfterSection(w, s) \in {[work[w] EXCEPT !.pc = "event", !.snap = NoSnapshot], Idle}
        BY <3>4 DEF AfterSection
      <4>2. [work[w] EXCEPT !.pc = "event", !.snap = NoSnapshot].pc = "event" /\ Idle.pc = "idle"
        BY DEF TypeOK, Works, Idle
      <4> QED BY <2>2, <3>2, <4>1, <4>2
    <3> QED BY <3>3, <3>4
  <2> QED BY <2>3, <2>4 DEF Persist
<1>6. CASE At(w, "create")
  <2>1. ASSUME NEW u \in Workers
        PROVE  ~At(u, "finish") /\ ~(At(u, "clear") /\ work[u].job = "rematch_request")
    BY <1>6 DEF ResultParts, FinishInv, RematchInv, At, Quiet
  <2>2. \/ /\ PersistSucceeds(w)
           /\ work'[w].pc = "decide" /\ work'[w].snap = s /\ stored' = s /\ cache' = s
        \/ work'[w].pc = "idle" /\ stored' = stored /\ cache' = NoSnapshot
    <3>1. CASE PersistSucceeds(w)
      <4>1. Goto(w, "decide") /\ stored' = s /\ cache' = s
        BY <1>1, <1>6, <3>1 DEF PersistSucceeds, At
      <4>2. work'[w] = [work[w] EXCEPT !.pc = "decide"]
        BY <4>1, SetMoves DEF Goto
      <4> QED BY <3>1, <4>1, <4>2 DEF TypeOK, Works
    <3>2. CASE PersistFails(w)
      BY <3>2, SetMoves DEF PersistFails, FailWith, Done, Idle
    <3> QED BY <3>1, <3>2 DEF Persist
  <2>3. WaitingInv' /\ PlayingInv' /\ FinishedInv'
    BY <1>1, <1>3, <1>4 DEF WaitingInv, PlayingInv, FinishedInv
  <2>4. FinishInv' /\ RematchInv'
    BY <1>2, <2>1, <2>2 DEF FinishInv, RematchInv, At
  <2>5. StartInv'
    <3> SUFFICES ASSUME NEW u \in Workers, (At(u, "clear") /\ work[u].job = "match_start")'
                 PROVE  (/\ room.status = "playing"
                         /\ {cache, stored} \subseteq {NoSnapshot, First}
                         /\ \A x \in Workers \ {u} :
                               /\ work[x].pc \in {"idle", "enter", "load", "fill", "create", "decide", "event"}
                               /\ work[x].pc \in {"fill", "create", "decide"} => work[x].snap = First)'
      BY DEF StartInv
    <3>1. u # w /\ At(u, "clear") /\ work[u].job = "match_start"
      BY <1>2, <2>2 DEF At
    <3>2. /\ {cache, stored} \subseteq {NoSnapshot, First}
          /\ \A x \in Workers \ {u} :
                /\ work[x].pc \in {"idle", "enter", "load", "fill", "create", "decide", "event"}
                /\ work[x].pc \in {"fill", "create", "decide"} => work[x].snap = First
      BY <3>1 DEF ResultParts, StartInv
    <3>3. First' = First /\ s = First
      BY <1>1, <1>6, <3>1, <3>2 DEF First, At
    <3> QED BY <1>1, <1>2, <1>3, <2>2, <3>2, <3>3
  <2> QED BY <2>3, <2>4, <2>5 DEF ResultParts
<1> QED BY <1>1, <1>5, <1>6 DEF At

LEMMA DealKeepsResult ==
    ASSUME TypeOK, LockInv, Calm, ResultParts, NEW u \in Users, Deal(u)
    PROVE  ResultParts'
<1>1. u \in Workers /\ UNCHANGED <<room, requested>> /\ work[u].pc = "deal"
  BY DEF Deal, At, Workers
<1>2. Plain /\ requested = {}
  BY <1>1, StoringIsPlain
<1> QED BY <1>1, <1>2, StageKeepsResult DEF Deal

LEMMA StartClearsKeepsResult ==
    ASSUME TypeOK, LockInv, Calm, ResultParts, NEW u \in Users, StartClears(u)
    PROVE  ResultParts'
<1>1. u \in Workers /\ UNCHANGED <<room, requested>> /\ At(u, "clear") /\ work[u].job \in StartJobs
  BY DEF StartClears, Workers, StartJobs
<1>2. /\ room.status = "playing"
      /\ \A x \in Workers \ {u} : work[x].pc \notin {"finish", "clear"}
  BY <1>1 DEF ResultParts, StartInv, RematchInv, StartJobs, Quiet
<1>3. work'[u] = [work[u] EXCEPT !.pc = "deal"] /\ Only(u)
  BY <1>1, SetMoves DEF StartClears, Goto, Only
<1>4. work'[u].pc = "deal"
  BY <1>1, <1>3 DEF TypeOK, Works
<1>5. Plain'
  BY <1>1, <1>2, <1>3, <1>4 DEF Plain, Only
<1>6. requested' = {}
  BY <1>1, <1>2 DEF ResultParts, PlayingInv
<1> QED BY <1>5, <1>6, PlainKeepsResult

-----------------------------------------------------------------------------
(***************************************************************************)
(* The steps outside the locked sections.                                  *)
(***************************************************************************)
LEMMA StillKeepsResult ==
    ASSUME ResultParts, UNCHANGED <<now, room, stored, cache, requested, work>>
    PROVE  ResultParts'
BY DEF ResultParts, WaitingInv, PlayingInv, FinishedInv, FinishInv, StartInv, RematchInv, At,
   Result, First

\* A room that is opened or filled has nobody at work, a service that starts
\* again neither.
LEMMA IdleKeepsResult ==
    ASSUME \A w \in Workers : work'[w].pc = "idle", cache' = NoSnapshot, requested' = {},
           room'.status \in {"waiting", "playing", "finished"},
           room'.status = "waiting" => stored' = NoSnapshot,
           room'.status = "finished" => Result(stored')
    PROVE  ResultParts'
<1>1. WaitingInv' /\ PlayingInv' /\ FinishedInv'
  BY DEF WaitingInv, PlayingInv, FinishedInv, At, Quiet, Result
<1>2. FinishInv' /\ StartInv' /\ RematchInv'
  BY DEF FinishInv, StartInv, RematchInv, At
<1> QED BY <1>1, <1>2 DEF ResultParts

LEMMA JoinKeepsResult ==
    ASSUME TypeOK, ResultParts, Join
    PROVE  ResultParts'
<1>1. /\ room.status = "waiting" /\ room'.status = "waiting"
      /\ UNCHANGED <<stored, cache, requested, work>>
  BY DEF Join, TypeOK, Rooms
<1>2. /\ requested = {} /\ stored = NoSnapshot /\ cache = NoSnapshot
      /\ \A w \in Workers : work[w].pc = "idle"
  BY <1>1 DEF ResultParts, WaitingInv, At
<1> QED BY <1>1, <1>2, IdleKeepsResult

LEMMA CrashKeepsResult ==
    ASSUME ResultParts, Crash
    PROVE  ResultParts'
<1>1. \A w \in Workers : work'[w].pc = "idle"
  BY DEF Crash, Idle
<1>2. /\ cache' = NoSnapshot /\ requested' = {} /\ UNCHANGED <<room, stored>>
  BY DEF Crash
<1>3. /\ room.status \in {"waiting", "playing", "finished"}
      /\ room.status = "waiting" => stored = NoSnapshot
      /\ room.status = "finished" => Result(stored)
  BY DEF ResultParts, PlayingInv, WaitingInv, FinishedInv
<1> QED BY <1>1, <1>2, <1>3, IdleKeepsResult

LEMMA StartMatchKeepsResult ==
    ASSUME TypeOK, ResultParts, StartMatch
    PROVE  ResultParts'
<1>1. room.status = "waiting" /\ room'.status = "playing" /\ UNCHANGED <<stored, cache, requested>>
  BY DEF StartMatch, TypeOK, Rooms
<1>2. /\ requested = {} /\ stored = NoSnapshot /\ cache = NoSnapshot
      /\ \A w \in Workers : work[w].pc = "idle"
  BY <1>1 DEF ResultParts, WaitingInv, At
<1>3. Creator \in Workers
  BY DEF Workers, Users
<1>4. /\ work'[Creator] = [Idle EXCEPT !.pc = "clear", !.job = "match_start", !.room = room']
      /\ \A w \in Workers \ {Creator} : work'[w] = work[w]
  BY <1>3, SetMoves DEF StartMatch
<1>5. work'[Creator].pc = "clear" /\ work'[Creator].job = "match_start"
  BY <1>4 DEF Idle
<1>6. \A w \in Workers : w # Creator => work'[w].pc = "idle"
  BY <1>2, <1>4
<1>7. WaitingInv' /\ PlayingInv' /\ FinishedInv'
  BY <1>1, <1>2 DEF WaitingInv, PlayingInv, FinishedInv
<1>8. FinishInv' /\ RematchInv'
  BY <1>5, <1>6 DEF FinishInv, RematchInv, At
<1>9. StartInv'
  <2>1. \A u \in Workers : At(u, "clear")' => u = Creator
    BY <1>6 DEF At
  <2>2. room'.status = "playing" /\ cache' = NoSnapshot /\ stored' = NoSnapshot
    BY <1>1, <1>2
  <2> QED BY <1>6, <2>1, <2>2 DEF StartInv
<1> QED BY <1>7, <1>8, <1>9 DEF ResultParts

\* Time does not pass while match_start waits for the lock.
LEMMA TickKeepsResult ==
    ASSUME LockInv, ~Stalls, ResultParts, Tick
    PROVE  ResultParts'
<1>1. UNCHANGED <<room, stored, cache, requested, work>> /\ \A u \in Users : ~At(u, "clear")
  BY DEF Tick
<1>2. WaitingInv' /\ PlayingInv' /\ FinishedInv' /\ FinishInv' /\ RematchInv'
  BY <1>1 DEF ResultParts, WaitingInv, PlayingInv, FinishedInv, FinishInv, RematchInv, At, Result
<1>3. ASSUME NEW u \in Workers, At(u, "clear"), work[u].job = "match_start"
      PROVE  FALSE
  BY <1>1, <1>3 DEF LockInv, StepsInv, StepOf, Starts, Users
<1>4. StartInv'
  BY <1>1, <1>3 DEF StartInv, At
<1> QED BY <1>2, <1>4 DEF ResultParts

LEMMA FireKeepsResult ==
    ASSUME TypeOK, LockInv, Calm', ResultParts, NEW g \in Goroutines, NEW k \in Kinds, Fire(g, k)
    PROVE  ResultParts'
<1>1. /\ g \in Workers /\ Only(g) /\ At(g, "idle")
      /\ UNCHANGED <<now, room, stored, cache, requested>>
  BY FireOnly DEF Workers, Fire
<1>2. ~Spend("readFault")
  BY SpentHappened DEF LockInv, Calm, Events
<1>3. CASE /\ room.status = "playing"
           /\ Set(g, [Idle EXCEPT !.pc = "enter", !.job = k, !.seq = timer[k].seq, !.room = room])
  <2>1. work'[g] = [Idle EXCEPT !.pc = "enter", !.job = k, !.seq = timer[k].seq, !.room = room]
    BY <1>1, <1>3, SetMoves
  <2>2. work'[g].pc = "enter"
    BY <2>1 DEF Idle
  <2> QED BY <1>1, <1>3, <2>2, QuietMove DEF Quiet, At
<1>4. CASE UNCHANGED work
  BY <1>1, <1>4, StillKeepsResult
<1> QED BY <1>2, <1>3, <1>4 DEF Fire

LEMMA RequestKeepsResult ==
    ASSUME TypeOK, LockInv, Calm', ResultParts, NEW u \in Users, RequestRematch(u) \/ Receive(u)
    PROVE  ResultParts'
<1>1. u \in Workers /\ Only(u) /\ At(u, "idle") /\ UNCHANGED <<now, room, stored, cache>>
  BY UserOnly DEF Workers, RequestRematch, Receive
<1>2. CASE RequestRematch(u)
  <2>1. room.status = "finished"
    BY <1>2 DEF RequestRematch
  <2>2. work'[u].pc \in {"idle", "restart"}
    <3>1. CASE UNCHANGED work
      BY <1>1, <3>1 DEF At
    <3>2. CASE Set(u, [Idle EXCEPT !.pc = "restart", !.job = "rematch_request", !.room = room])
      <4>1. work'[u] = [Idle EXCEPT !.pc = "restart", !.job = "rematch_request", !.room = room]
        BY <1>1, <3>2, SetMoves
      <4> QED BY <4>1 DEF Idle
    <3> QED BY <1>2, <3>1, <3>2 DEF RequestRematch
  <2> QED BY <1>1, <2>1, <2>2, QuietMove DEF Quiet, At
<1>3. CASE Receive(u)
  <2>1. room.status = "playing" /\ UNCHANGED requested /\ Set(u, Reconciling(room))
    <3>1. ~Spend("readFault")
      BY SpentHappened DEF LockInv, Calm, Events
    <3> QED BY <1>3, <3>1 DEF Receive
  <2>2. work'[u] = Reconciling(room)
    BY <1>1, <2>1, SetMoves
  <2>3. work'[u].pc = "enter"
    BY <2>2 DEF Idle, Reconciling
  <2> QED BY <1>1, <2>1, <2>3, QuietMove DEF Quiet, At
<1> QED BY <1>2, <1>3

\* The rematch starts with the old match's result in the row, and every other
\* goroutine can only find out that that match is over.
LEMMA RestartKeepsResult ==
    ASSUME TypeOK, LockInv, ResultParts, NEW u \in Users, Restart(u)
    PROVE  ResultParts'
<1>1. /\ u \in Workers /\ At(u, "restart") /\ work[u].job = "rematch_request"
      /\ UNCHANGED <<now, stored, cache>>
  BY DEF Workers, Restart, LockInv, StepsInv, StepOf
<1>2. CASE /\ room.status = "finished" /\ room' = [room EXCEPT !.status = "playing"]
           /\ requested' = {} /\ Set(u, [work[u] EXCEPT !.pc = "clear", !.room = room'])
  <2>1. Result(stored) /\ \A w \in Workers : work[w].pc \in Quiet
    BY <1>2 DEF ResultParts, FinishedInv
  <2>2. /\ work'[u] = [work[u] EXCEPT !.pc = "clear", !.room = room']
        /\ \A w \in Workers \ {u} : work'[w] = work[w]
    BY <1>1, <1>2, SetMoves
  <2>3. work'[u].pc = "clear" /\ work'[u].job = "rematch_request"
    BY <1>1, <2>2 DEF TypeOK, Works
  <2>4. \A w \in Workers : w # u => work'[w].pc \in Quiet
    BY <2>1, <2>2
  <2>5. room'.status = "playing" /\ Result(stored')
    BY <1>1, <1>2, <2>1 DEF TypeOK, Rooms
  <2>6. WaitingInv' /\ PlayingInv' /\ FinishedInv'
    BY <1>2, <2>5 DEF WaitingInv, PlayingInv, FinishedInv
  <2>7. FinishInv' /\ StartInv'
    BY <2>3, <2>4 DEF FinishInv, StartInv, At, Quiet
  <2>8. RematchInv'
    <3>1. \A w \in Workers : At(w, "clear")' => w = u
      BY <2>4 DEF At, Quiet
    <3> QED BY <2>4, <2>5, <3>1 DEF RematchInv, Result
  <2> QED BY <2>6, <2>7, <2>8 DEF ResultParts
<1>3. CASE Done(u) /\ UNCHANGED <<room, requested>>
  BY <1>1, <1>3, DoneKeepsResult DEF At
<1> QED BY <1>2, <1>3 DEF Restart

LEMMA DispatchKeepsResult ==
    ASSUME TypeOK, ~CueStates, ResultParts, NEW u \in Users, Dispatch(u)
    PROVE  ResultParts'
<1>1. /\ u \in Workers /\ Only(u) /\ At(u, "event")
      /\ UNCHANGED <<now, room, stored, cache, requested>>
  BY UserOnly DEF Workers, Dispatch, Connection
<1>2. room.status # "waiting" /\ (room.status = "finished" => cache # NoSnapshot)
  BY <1>1 DEF ResultParts, WaitingInv, FinishedInv, At
<1>3. ASSUME NEW job, Set(u, [work[u] EXCEPT !.pc = "enter", !.job = job])
      PROVE  work'[u].pc = "enter"
  <2>1. work'[u] = [work[u] EXCEPT !.pc = "enter", !.job = job]
    BY <1>1, <1>3, SetMoves
  <2> QED BY <1>1, <2>1 DEF TypeOK, Works
<1>4. CASE Done(u)
  BY <1>1, <1>4, DoneKeepsResult DEF At
<1>5. CASE work'[u].pc = "enter"
  BY <1>1, <1>2, <1>5, QuietMove DEF Quiet, At
<1> QED BY <1>3, <1>4, <1>5 DEF Dispatch

\* FinishRoom finds the result in the row, and nobody about to replace it.
LEMMA FinishKeepsResult ==
    ASSUME TypeOK, ResultParts, NEW u \in Users, Finish(u)
    PROVE  ResultParts'
<1>1. /\ u \in Workers /\ At(u, "finish") /\ Done(u)
      /\ UNCHANGED <<now, stored, cache, requested>>
  BY DEF Workers, Finish
<1>2. /\ room.status = "playing" /\ Result(stored) /\ cache # NoSnapshot
      /\ \A w \in Workers \ {u} : work[w].pc \in Quiet
  BY <1>1 DEF ResultParts, FinishInv
<1>3. CASE room' = [room EXCEPT !.status = "finished"]
  <2>1. room'.status = "finished"
    BY <1>3 DEF TypeOK, Rooms
  <2>2. \A w \in Workers : work'[w].pc \in Quiet
    BY <1>1, <1>2, SetMoves DEF Done, Idle, Quiet
  <2>3. WaitingInv' /\ PlayingInv' /\ FinishedInv'
    BY <1>1, <1>2, <2>1, <2>2 DEF WaitingInv, PlayingInv, FinishedInv, Result
  <2>4. FinishInv' /\ StartInv' /\ RematchInv'
    BY <2>2 DEF FinishInv, StartInv, RematchInv, At, Quiet
  <2> QED BY <2>3, <2>4 DEF ResultParts
<1>4. CASE UNCHANGED room
  BY <1>1, <1>4, DoneKeepsResult DEF At
<1> QED BY <1>3, <1>4 DEF Finish

LEMMA NextKeepsResult ==
    ASSUME ~CueStates, ~Stalls, IInv, LockInv, ResultInv, [Next]_vars
    PROVE  ResultInv'
<1> SUFFICES ASSUME Calm' PROVE ResultParts'
  BY DEF ResultInv
<1>1. TypeOK /\ \A w \in Workers : Sound(work[w].snap)
  BY DEF IInv, HeldIsSound
<1>2. Calm /\ ResultParts
  BY <1>1, NextIsLater DEF Later, Calm, Left, Events, ResultInv
<1>3. CASE UNCHANGED vars
  BY <1>2, <1>3, StillKeepsResult DEF vars
<1>4. CASE Join \/ StartMatch \/ Tick \/ Crash
  BY <1>1, <1>2, <1>4, JoinKeepsResult, StartMatchKeepsResult, TickKeepsResult, CrashKeepsResult
<1>5. ASSUME NEW role, Leave(role)
      PROVE  FALSE
  BY <1>1, <1>5, SpentHappened DEF Leave, LockInv, Calm, Left, Events
<1>6. ~LeaveClears /\ ~LeaveDeletes
  BY <1>2, CalmLock DEF LeaveClears, LeaveDeletes, At
<1>7. ASSUME NEW u \in Users, RequestRematch(u) \/ Receive(u) \/ Connection(u)
      PROVE  ResultParts'
  <2>1. ~Peek(u) /\ ~PeekFill(u)
    BY <1>2, CalmLock DEF Peek, PeekFill, At, Workers
  <2> QED BY <1>1, <1>2, <1>7, <2>1, RequestKeepsResult, RestartKeepsResult, StartClearsKeepsResult,
             DealKeepsResult, EventKeepsResult, DispatchKeepsResult, FinishKeepsResult DEF Connection
<1>8. ASSUME NEW g \in Goroutines, NEW k \in Kinds, Fire(g, k)
      PROVE  ResultParts'
  BY <1>1, <1>2, <1>8, FireKeepsResult
<1>9. ASSUME NEW w \in Workers, Section(w)
      PROVE  ResultParts'
  BY <1>1, <1>2, <1>9, EnterKeepsResult, LoadKeepsResult, FillKeepsResult, ReconcileKeepsResult,
     PersistKeepsResult DEF Section
<1> QED BY <1>3, <1>4, <1>5, <1>6, <1>7, <1>8, <1>9 DEF Next

\* A room that is finished has its match's result in the database, however many
\* goroutines, timers, restarts and failed writes: no timer, message or
\* match_start overwrites it before FinishRoom or after.
THEOREM FinishedHasResult ==
    ASSUME ~CueStates, ~Stalls
    PROVE  Spec => []FinishedRoomHasResult
<1>1. Init => IInv /\ LockInv /\ ResultInv
  <2> SUFFICES ASSUME Init PROVE ResultParts
    BY InitSound, InitLocked DEF ResultInv
  <2>1. \A w \in Workers : work[w].pc = "idle"
    BY DEF Init, Idle
  <2>2. /\ room.status = "waiting" /\ requested = {} /\ stored = NoSnapshot
        /\ cache = NoSnapshot
    BY DEF Init
  <2> QED BY <2>1, <2>2 DEF ResultParts, WaitingInv, PlayingInv, FinishedInv, FinishInv, StartInv,
             RematchInv, At
<1>2. IInv /\ LockInv /\ ResultInv /\ [Next]_vars => (IInv /\ LockInv /\ ResultInv)'
  BY NextKeepsSound, NextKeepsLock, NextKeepsResult DEF IInv
<1>3. ResultInv => FinishedRoomHasResult
  BY DEF ResultInv, Calm, Left, ResultParts, FinishedInv, Result, FinishedRoomHasResult
<1> QED BY <1>1, <1>2, <1>3, PTL DEF Spec

-----------------------------------------------------------------------------
(***************************************************************************)
(* The referee implements MatchTurns, step by step: with a cache, a        *)
(* database, three kinds of timers and any number of goroutines that work  *)
(* on copies, with restarts and failed writes at any moment, the row of    *)
(* room_match_states changes only by a move of the game, or by the deal of *)
(* the match that was just opened, and the room finishes only on a table   *)
(* that is over.  The hypotheses are those of FinishedHasResult, and that  *)
(* nobody leaves and no read of the row fails: either may put one match's  *)
(* snapshot on the table of another.                                       *)
(***************************************************************************)

Rec(a, b, c, d, e, f) ==
    [phase |-> a, turn |-> b, shot |-> c, player |-> d, sunk |-> e, winner |-> f]

TableOf(s) ==
    Rec(IF Exists(s) THEN PhaseOf(s) ELSE "none",
        s.turnSeq, s.shotSeq, s.turnUser, s.sunk, s.winner)

\* What the moves of MatchTurns make of a table.
AsTurn(a) == [a EXCEPT !.phase = "turn"]
AsShot(a) == [a EXCEPT !.phase = "shot", !.shot = @ + 1]
AsPassed(a, p, sunk) ==
    [a EXCEPT !.phase = "prepare", !.turn = @ + 1, !.player = p, !.sunk = sunk]
AsOver(a, sunk, winner) == [a EXCEPT !.phase = "over", !.sunk = sunk, !.winner = winner]
AsFirst(a, player) == [a EXCEPT !.phase = "prepare", !.turn = 1, !.player = player]

\* The moves of MatchTurns, from one table to another.

RestsAs(a, b) ==
    \E sunk \in SUBSET Balls, p \in Users :
        /\ a.sunk \subseteq sunk
        /\ \/ /\ p = a.player => sunk # a.sunk
              /\ BlackBall \notin sunk \ a.sunk
              /\ b = AsPassed(a, p, sunk)
           \/ /\ BlackBall \in sunk \ a.sunk => p = Turns!Other(a.player)
              /\ b = AsOver(a, sunk, p)

MoveOf(a, b) ==
    \/ a.phase = "prepare" /\ b = AsTurn(a)
    \/ a.phase = "turn" /\ b = AsShot(a)
    \/ a.phase \in {"turn", "shot"} /\ b = AsPassed(a, Turns!Other(a.player), a.sunk)
    \/ a.phase = "shot" /\ RestsAs(a, b)

-----------------------------------------------------------------------------
(***************************************************************************)
(* The tables that the moves make, field by field.                         *)
(***************************************************************************)
LEMMA RecFields ==
    ASSUME NEW a, NEW b, NEW c, NEW d, NEW e, NEW f
    PROVE  LET r == Rec(a, b, c, d, e, f)
           IN  r.phase = a /\ r.turn = b /\ r.shot = c /\ r.player = d /\ r.sunk = e /\ r.winner = f
BY DEF Rec

LEMMA ShotRecord ==
    ASSUME NEW a, NEW b, NEW c, NEW d, NEW e, NEW f
    PROVE  AsShot(Rec(a, b, c, d, e, f)) = Rec("shot", b, c + 1, d, e, f)
<1> DEFINE r == Rec(a, b, c, d, e, f)
           s == Rec("shot", b, c, d, e, f)
<1>1. [r EXCEPT !.phase = "shot"] = s /\ r.shot = c
  BY DEF Rec
<1>2. [s EXCEPT !.shot = c + 1] = Rec("shot", b, c + 1, d, e, f)
  BY DEF Rec
<1> HIDE DEF r, s
<1>3. AsShot(r) = [[r EXCEPT !.phase = "shot"] EXCEPT !.shot = r.shot + 1]
  BY DEF AsShot
<1> QED BY <1>1, <1>2, <1>3 DEF r

LEMMA PassedRecord ==
    ASSUME NEW a, NEW b, NEW c, NEW d, NEW e, NEW f, NEW y, NEW z
    PROVE  AsPassed(Rec(a, b, c, d, e, f), y, z) = Rec("prepare", b + 1, c, y, z, f)
<1> DEFINE r == Rec(a, b, c, d, e, f)
           s == Rec("prepare", b, c, d, e, f)
           t == Rec("prepare", b + 1, c, d, e, f)
           u == Rec("prepare", b + 1, c, y, e, f)
<1>1. [r EXCEPT !.phase = "prepare"] = s /\ r.turn = b
  BY DEF Rec
<1>2. [s EXCEPT !.turn = b + 1] = t
  BY DEF Rec
<1>3. [t EXCEPT !.player = y] = u
  BY DEF Rec
<1>4. [u EXCEPT !.sunk = z] = Rec("prepare", b + 1, c, y, z, f)
  BY DEF Rec
<1> HIDE DEF r, s, t, u
<1>5. AsPassed(r, y, z)
        = [[[[r EXCEPT !.phase = "prepare"] EXCEPT !.turn = r.turn + 1] EXCEPT !.player = y]
             EXCEPT !.sunk = z]
  BY DEF AsPassed
<1> QED BY <1>1, <1>2, <1>3, <1>4, <1>5 DEF r

LEMMA OverRecord ==
    ASSUME NEW a, NEW b, NEW c, NEW d, NEW e, NEW f, NEW y, NEW z
    PROVE  AsOver(Rec(a, b, c, d, e, f), y, z) = Rec("over", b, c, d, y, z)
<1> DEFINE r == Rec(a, b, c, d, e, f)
           s == Rec("over", b, c, d, e, f)
           t == Rec("over", b, c, d, y, f)
<1>1. [r EXCEPT !.phase = "over"] = s
  BY DEF Rec
<1>2. [s EXCEPT !.sunk = y] = t
  BY DEF Rec
<1>3. [t EXCEPT !.winner = z] = Rec("over", b, c, d, y, z)
  BY DEF Rec
<1> HIDE DEF r, s, t
<1>4. AsOver(r, y, z) = [[[r EXCEPT !.phase = "over"] EXCEPT !.sunk = y] EXCEPT !.winner = z]
  BY DEF AsOver
<1> QED BY <1>1, <1>2, <1>3, <1>4 DEF r

LEMMA FirstRecord ==
    ASSUME NEW a, NEW b, NEW c, NEW d, NEW e, NEW f, NEW z
    PROVE  AsFirst(Rec(a, b, c, d, e, f), z) = Rec("prepare", 1, c, z, e, f)
<1> DEFINE r == Rec(a, b, c, d, e, f)
           s == Rec("prepare", b, c, d, e, f)
           t == Rec("prepare", 1, c, d, e, f)
<1>1. [r EXCEPT !.phase = "prepare"] = s
  BY DEF Rec
<1>2. [s EXCEPT !.turn = 1] = t
  BY DEF Rec
<1>3. [t EXCEPT !.player = z] = Rec("prepare", 1, c, z, e, f)
  BY DEF Rec
<1> HIDE DEF r, s, t
<1>4. AsFirst(r, z) = [[[r EXCEPT !.phase = "prepare"] EXCEPT !.turn = 1] EXCEPT !.player = z]
  BY DEF AsFirst
<1> QED BY <1>1, <1>2, <1>3, <1>4 DEF r

-----------------------------------------------------------------------------
(***************************************************************************)
(* Every rule of match_state.go that makes a new snapshot is a move.       *)
(***************************************************************************)
LEMMA PhaseIs ==
    ASSUME NEW s, Exists(s)
    PROVE  /\ TableOf(s).phase = PhaseOf(s)
           /\ Undecided(s, "moving") /\ s.shooter # NoUser => PhaseOf(s) = "shot"
           /\ Undecided(s, "aiming") /\ turnClockStarted(s) => PhaseOf(s) = "turn"
           /\ Undecided(s, "aiming") /\ ~turnClockStarted(s) => PhaseOf(s) = "prepare"
           /\ s.status = "finished" => PhaseOf(s) = "over"
BY RecFields DEF TableOf, PhaseOf, Undecided

LEMMA FirstIsFirst ==
    ASSUME NEW n
    PROVE  /\ TableOf(newInitialMatchSnapshot(n)) = Turns!FirstTable
           /\ TableOf(NoSnapshot) = Turns!NoTable
<1> DEFINE t == newInitialMatchSnapshot(n)
<1>1. /\ t.status = "aiming" /\ t.turnUser = Creator /\ t.turnSeq = 1 /\ t.shotSeq = 0
      /\ t.turnDeadline = 0 /\ t.sunk = {} /\ t.winner = NoUser
  BY DEF newInitialMatchSnapshot, NoSnapshot
<1> HIDE DEF t
<1>2. Exists(t) /\ PhaseOf(t) = "prepare"
  BY <1>1, PhaseIs DEF Exists, Undecided, turnClockStarted
<1>3. TableOf(t) = Turns!FirstTable
  <2>1. TableOf(t) = Rec("prepare", 1, 0, Creator, {}, NoUser)
    BY <1>1, <1>2 DEF TableOf
  <2>2. Turns!NoTable = Rec("none", 0, 0, NoUser, {}, NoUser)
    BY DEF Turns!NoTable, Rec
  <2>3. Turns!FirstTable = Rec("prepare", 1, 0, Creator, {}, NoUser)
    <3>1. Turns!FirstTable = AsFirst(Turns!NoTable, Creator)
      BY DEF Turns!FirstTable, AsFirst
    <3> QED BY <2>2, <3>1, FirstRecord
  <2> QED BY <2>1, <2>3
<1>4. TableOf(NoSnapshot) = Turns!NoTable
  BY DEF TableOf, NoSnapshot, Exists, Turns!NoTable, Rec
<1> QED BY <1>3, <1>4 DEF t

LEMMA ClockMoves ==
    ASSUME NEW s \in Snapshots, NEW n \in Nat, Undecided(s, "aiming"), ~turnClockStarted(s)
    PROVE  MoveOf(TableOf(s), TableOf(startTurnClock(s, n)))
<1> DEFINE t == startTurnClock(s, n)
           at == snapshotUpdateTimeAfter(s, n)
<1>1. at \in Nat
  BY UpdateTimeType
<1>2. at + TurnTime > 0
  BY <1>1, RulesAssumption
<1>3. /\ t.status = "aiming" /\ t.turnUser = s.turnUser /\ t.turnSeq = s.turnSeq
      /\ t.shotSeq = s.shotSeq /\ t.turnDeadline = at + TurnTime /\ t.sunk = s.sunk
      /\ t.winner = s.winner
  BY DEF startTurnClock, Snapshots, Undecided
<1> HIDE DEF t, at
<1>4. Exists(t) /\ PhaseOf(t) = "turn"
  BY <1>2, <1>3, PhaseIs DEF Exists, Undecided, turnClockStarted
<1>5. Exists(s) /\ PhaseOf(s) = "prepare"
  BY PhaseIs DEF Exists, Undecided
<1>6. TableOf(t) = AsTurn(TableOf(s))
  BY <1>3, <1>4 DEF TableOf, Rec, AsTurn
<1> QED BY <1>5, <1>6, PhaseIs DEF MoveOf, t

LEMMA ShotMoves ==
    ASSUME NEW s \in Snapshots, NEW n, NEW u \in Users, Undecided(s, "aiming"),
           turnClockStarted(s)
    PROVE  MoveOf(TableOf(s), TableOf(startShot(s, u, n)))
<1> DEFINE t == startShot(s, u, n)
<1>1. /\ t.status = "moving" /\ t.turnUser = s.turnUser /\ t.turnSeq = s.turnSeq
      /\ t.shotSeq = s.shotSeq + 1 /\ t.shooter = u /\ t.sunk = s.sunk
      /\ t.winner = s.winner
  BY DEF startShot, Snapshots
<1> HIDE DEF t
<1>2. u # NoUser
  BY PlayersDiffer DEF Users
<1>3. Exists(t) /\ PhaseOf(t) = "shot"
  BY <1>1, <1>2, PhaseIs DEF Exists, Undecided
<1>4. Exists(s) /\ PhaseOf(s) = "turn"
  BY PhaseIs DEF Exists, Undecided
<1>5. TableOf(t) = AsShot(TableOf(s))
  BY <1>1, <1>3, ShotRecord DEF TableOf
<1> QED BY <1>4, <1>5, PhaseIs DEF MoveOf, t

LEMMA PassedTable ==
    ASSUME NEW s \in Snapshots, NEW n, NEW user, s.winner = NoUser
    PROVE  TableOf(passTurn(s, user, n)) = AsPassed(TableOf(s), user, s.sunk)
<1> DEFINE t == passTurn(s, user, n)
<1>1. /\ t.status = "aiming" /\ t.turnUser = user /\ t.turnSeq = s.turnSeq + 1
      /\ t.shotSeq = s.shotSeq /\ t.turnDeadline = 0 /\ t.sunk = s.sunk /\ t.winner = NoUser
  BY DEF passTurn, Snapshots
<1> HIDE DEF t
<1>2. Exists(t) /\ PhaseOf(t) = "prepare"
  BY <1>1, PhaseIs DEF Exists, Undecided, turnClockStarted
<1>3. TableOf(t) = AsPassed(TableOf(s), user, s.sunk)
  BY <1>1, <1>2, PassedRecord DEF TableOf
<1> QED BY <1>3 DEF t

\* The other player, as the service computes it from the room.
LEMMA NextIsOther ==
    ASSUME NEW r, r.opponent = Opponent, NEW user \in Users
    PROVE  /\ nextTurnUserIDFor(r, user) = Turns!Other(user)
           /\ opponentUserIDFor(r, user) = Turns!Other(user)
BY PlayersDiffer DEF nextTurnUserIDFor, opponentUserIDFor, roleForUser, isRoomParticipant,
   Turns!Other, Users

LEMMA TimeoutMoves ==
    ASSUME NEW s \in Snapshots, NEW n \in Nat, NEW r, r.opponent = Opponent, Sound(s)
    PROVE  /\ isTurnExpired(s, n) => MoveOf(TableOf(s), TableOf(applyTurnTimeout(r, s, n)))
           /\ shotResultExpired(s, n) =>
                  MoveOf(TableOf(s), TableOf(applyShotResultTimeout(r, s, n)))
<1>1. ASSUME isTurnExpired(s, n) \/ shotResultExpired(s, n)
      PROVE  /\ Exists(s) /\ s.winner = NoUser /\ PhaseOf(s) \in {"turn", "shot"}
             /\ s.turnUser \in Users
             /\ s.status = "moving" => s.shooter = s.turnUser
  <2>1. Exists(s) /\ s.winner = NoUser /\ PhaseOf(s) \in {"turn", "shot"}
    BY <1>1, PhaseIs DEF isTurnExpired, shotResultExpired, Undecided, Exists
  <2> QED BY <2>1 DEF Sound, TurnIsSound
<1>2. ASSUME isTurnExpired(s, n) \/ shotResultExpired(s, n)
      PROVE  MoveOf(TableOf(s), TableOf(passTurn(s, Turns!Other(s.turnUser), n)))
  <2>1. TableOf(passTurn(s, Turns!Other(s.turnUser), n))
             = AsPassed(TableOf(s), Turns!Other(s.turnUser), s.sunk)
    BY <1>1, <1>2, PassedTable
  <2>2. TableOf(s).player = s.turnUser /\ TableOf(s).sunk = s.sunk
    BY RecFields DEF TableOf
  <2> QED BY <1>1, <1>2, <2>1, <2>2, PhaseIs DEF MoveOf
<1>3. isTurnExpired(s, n) => applyTurnTimeout(r, s, n) = passTurn(s, Turns!Other(s.turnUser), n)
  BY <1>1, NextIsOther DEF applyTurnTimeout
<1>4. shotResultExpired(s, n) =>
          applyShotResultTimeout(r, s, n) = passTurn(s, Turns!Other(s.turnUser), n)
  BY <1>1, NextIsOther DEF applyShotResultTimeout, shotResultExpired, Undecided
<1> QED BY <1>2, <1>3, <1>4

LEMMA ResultMoves ==
    ASSUME NEW s \in Snapshots, NEW n \in Nat, NEW r \in Rooms, r.opponent = Opponent, Sound(s),
           NEW result \in ShotResult(MaxTurns), acceptsShotResult(s, result)
    PROVE  MoveOf(TableOf(s), TableOf(applyShotResult(r, s, result, n)))
<1> DEFINE t == applyShotResult(r, s, result, n)
           w == winnerAfterShot(r, s, result)
           sunk == result.sunk
<1>1. /\ Exists(s) /\ s.winner = NoUser /\ s.shooter = s.turnUser /\ s.turnUser \in Users
      /\ PhaseOf(s) = "shot" /\ s.sunk \subseteq sunk /\ sunk \in SUBSET Balls
  <2>1. s.status = "moving" /\ Exists(s) /\ s.sunk \subseteq sunk /\ sunk \in SUBSET Balls
    BY DEF acceptsShotResult, preservesPreviouslySunkTargets, Exists, ShotResult
  <2>2. s.winner = NoUser /\ s.shooter = s.turnUser /\ s.turnUser \in Users
    BY <2>1 DEF Sound, TurnIsSound
  <2> QED BY <2>1, <2>2, PhaseIs DEF acceptsShotResult, Undecided
<1>2. NoUser \notin Users /\ Turns!Other(s.turnUser) \in Users
      /\ Turns!Other(s.turnUser) # s.turnUser
  BY <1>1, PlayersDiffer DEF Users, Turns!Other
<1>3. w \in Users \cup {NoUser}
  BY WinnerType
<1>4. BlackBall \in sunk \ s.sunk => w = Turns!Other(s.turnUser)
  BY <1>1, NextIsOther DEF winnerAfterShot
<1>5. /\ t.shotSeq = s.shotSeq /\ t.turnDeadline = 0 /\ t.winner = w /\ t.sunk = sunk
      /\ t.status = IF w = NoUser THEN "aiming" ELSE "finished"
      /\ t.turnSeq = IF w = NoUser THEN s.turnSeq + 1 ELSE s.turnSeq
  BY DEF applyShotResult
<1>6. CASE w = NoUser
  <2>1. t.turnUser \in Users /\ (t.turnUser = s.turnUser => sunk # s.sunk)
    <3>1. CASE keepsTurn(r, s, result)
      <4>1. t.turnUser = s.shooter
        BY <1>6, <3>1 DEF applyShotResult
      <4>2. sunk # s.sunk
        BY <3>1 DEF keepsTurn
      <4> QED BY <1>1, <4>1, <4>2
    <3>2. CASE ~keepsTurn(r, s, result)
      <4>1. t.turnUser = nextTurnUserIDFor(r, s.turnUser)
        BY <1>6, <3>2 DEF applyShotResult
      <4> QED BY <1>1, <1>2, <4>1, NextIsOther
    <3> QED BY <3>1, <3>2
  <2> DEFINE p == t.turnUser
  <2> HIDE DEF t, w
  <2>2. Exists(t) /\ PhaseOf(t) = "prepare"
    BY <1>5, <1>6, PhaseIs DEF Exists, Undecided, turnClockStarted
  <2>3. TableOf(t) = AsPassed(TableOf(s), p, sunk)
    BY <1>1, <1>5, <1>6, <2>2, PassedRecord DEF TableOf
  <2>4. BlackBall \notin sunk \ s.sunk
    BY <1>2, <1>4, <1>6
  <2>5. TableOf(s).sunk = s.sunk /\ TableOf(s).player = s.turnUser
    BY RecFields DEF TableOf
  <2> HIDE DEF sunk, p
  <2>6. RestsAs(TableOf(s), TableOf(t))
    BY <1>1, <2>1, <2>3, <2>4, <2>5 DEF RestsAs, p
  <2> QED BY <1>1, <2>6, PhaseIs DEF MoveOf, t
<1>7. CASE w # NoUser
  <2>1. t.turnUser = s.turnUser
    BY <1>7 DEF applyShotResult
  <2> HIDE DEF t, w
  <2>2. Exists(t) /\ PhaseOf(t) = "over"
    BY <1>5, <1>7, PhaseIs DEF Exists
  <2>3. TableOf(t) = AsOver(TableOf(s), sunk, w)
    BY <1>1, <1>5, <1>7, <2>1, <2>2, OverRecord DEF TableOf
  <2>4. TableOf(s).sunk = s.sunk /\ TableOf(s).player = s.turnUser
    BY RecFields DEF TableOf
  <2> HIDE DEF sunk
  <2>5. RestsAs(TableOf(s), TableOf(t))
    BY <1>1, <1>3, <1>4, <1>7, <2>3, <2>4 DEF RestsAs
  <2> QED BY <1>1, <2>5, PhaseIs DEF MoveOf, t
<1> QED BY <1>6, <1>7

LEMMA ReconciledMoves ==
    ASSUME NEW s \in Snapshots, NEW r, now \in Nat, r.opponent = Opponent, Sound(s),
           reconcileDue(s)
    PROVE  MoveOf(TableOf(s), TableOf(reconciled(r, s)))
<1>1. /\ isTurnExpired(s, now) => ~turnPrepareDue(s, now)
      /\ shotResultExpired(s, now) => ~turnPrepareDue(s, now) /\ ~isTurnExpired(s, now)
  BY DEF isTurnExpired, turnPrepareDue, shotResultExpired, Undecided
<1>2. CASE isTurnExpired(s, now)
  <2>1. reconciled(r, s) = applyTurnTimeout(r, s, now)
    BY <1>1, <1>2 DEF reconciled
  <2> QED BY <1>2, <2>1, TimeoutMoves
<1>3. CASE turnPrepareDue(s, now)
  <2>1. reconciled(r, s) = startTurnClock(s, now)
    BY <1>1, <1>3 DEF reconciled
  <2> QED BY <1>3, <2>1, ClockMoves DEF turnPrepareDue
<1>4. CASE shotResultExpired(s, now)
  <2>1. reconciled(r, s) = applyShotResultTimeout(r, s, now)
    BY <1>1, <1>4 DEF reconciled
  <2> QED BY <1>4, <2>1, TimeoutMoves
<1> QED BY <1>2, <1>3, <1>4 DEF reconcileDue

-----------------------------------------------------------------------------
(***************************************************************************)
(* The inductive invariant.  What a goroutine is about to store is the     *)
(* first table of the match, or one move away from the stored table,       *)
(* although it was computed some steps before; and a match that was dealt  *)
(* keeps a table.                                                          *)
(***************************************************************************)
Staged(w) ==
    LET s == work[w].snap
    IN  /\ At(w, "create") => stored = NoSnapshot /\ TableOf(s) = Turns!FirstTable
        /\ At(w, "persist") => IF work[w].job \in StartJobs
                               THEN TableOf(s) = Turns!FirstTable
                               ELSE MoveOf(TableOf(stored), TableOf(s))

DealtInv == room.status = "playing" /\ dealt => Exists(stored)

TurnInv == DealtInv /\ \A w \in Workers : Staged(w)

\* A step that MatchTurns takes, or does not see.
Taken == Turns!Next \/ UNCHANGED Turns!tvars

\* What a step of w must not do, for the match that is opening to stay the same one.
NoNewStart(w) ==
    work'[w].job \in StartJobs /\ work'[w].pc # "restart" =>
        work[w].job \in StartJobs /\ work[w].pc # "restart"

Away(w) == work'[w].pc \notin {"create", "persist"}

LEMMA AwayIsStaged ==
    ASSUME NEW w \in Workers, Away(w)
    PROVE  Staged(w)'
BY DEF Away, Staged, At

LEMMA StartingStays ==
    ASSUME NEW w \in Workers, Only(w), NoNewStart(w)
    PROVE  Starting' => Starting
<1> SUFFICES ASSUME NEW u \in Users, work'[u].job \in StartJobs, work'[u].pc # "restart"
             PROVE  work[u].job \in StartJobs /\ work[u].pc # "restart"
  BY DEF Starting, At, StartJobs
<1>1. u \in Workers
  BY DEF Workers
<1>2. CASE u = w
  BY <1>2 DEF NoNewStart
<1>3. CASE u # w
  BY <1>1, <1>3 DEF Only
<1> QED BY <1>2, <1>3

LEMMA TableIs == Table = TableOf(stored)
BY DEF Table, TableOf, Rec

\* The table stays as it is, and at most the opening is over.
LEMMA SettleOrStay ==
    ASSUME UNCHANGED <<stored, dealt>>, room'.status = room.status, Starting' => Starting
    PROVE  Taken
<1>1. Table' = Table
  BY DEF Table, Exists, PhaseOf, Undecided, turnClockStarted
<1>2. Opening' => Opening
  BY DEF Opening
<1>3. Opening \in BOOLEAN /\ Opening' \in BOOLEAN
  BY DEF Opening
<1>4. CASE Opening' = Opening
  BY <1>1, <1>4 DEF Taken, Turns!tvars
<1>5. CASE Opening' # Opening
  <2>1. Opening /\ Opening' = FALSE
    BY <1>2, <1>3, <1>5
  <2>2. Turns!Settle
    BY <1>1, <2>1 DEF Turns!Settle
  <2> QED BY <2>2 DEF Taken, Turns!Next
<1> QED BY <1>4, <1>5

\* A step of one goroutine that leaves the row and the room's status alone.
LEMMA QuietStep ==
    ASSUME TurnInv, NEW w \in Workers, Only(w), UNCHANGED <<stored, dealt>>,
           room'.status = room.status, NoNewStart(w), Staged(w)'
    PROVE  TurnInv' /\ Taken
<1>1. ASSUME NEW x \in Workers
      PROVE  Staged(x)'
  <2>1. CASE x = w
    BY <2>1
  <2>2. CASE x # w
    BY <2>2 DEF Only, TurnInv, Staged, At
  <2> QED BY <2>1, <2>2
<1>2. DealtInv'
  BY DEF TurnInv, DealtInv, Exists
<1> QED BY <1>1, <1>2, StartingStays, SettleOrStay DEF TurnInv

\* Nobody moves, or everybody is gone.
LEMMA StillStep ==
    ASSUME TurnInv, UNCHANGED <<stored, dealt>>, room'.status = room.status,
           UNCHANGED work \/ work' = [w \in Workers |-> Idle]
    PROVE  TurnInv' /\ Taken
<1>1. \A x \in Workers : Staged(x)'
  BY DEF TurnInv, Staged, At, Idle
<1>2. DealtInv'
  BY DEF TurnInv, DealtInv, Exists
<1>3. Starting' => Starting
  BY DEF Starting, At, Idle, Workers
<1> QED BY <1>1, <1>2, <1>3, SettleOrStay DEF TurnInv

\* match_start or a rematch opens a match.
LEMMA OpenStep ==
    ASSUME TypeOK, TurnInv, NEW w \in Workers, Only(w), Away(w), UNCHANGED stored,
           dealt' = FALSE, room' = [room EXCEPT !.status = "playing"],
           room.status \in {"waiting", "finished"}
    PROVE  TurnInv' /\ Taken
<1>1. room'.status = "playing"
  BY DEF TypeOK, Rooms
<1>2. ASSUME NEW x \in Workers
      PROVE  Staged(x)'
  <2>1. CASE x = w
    BY <2>1, AwayIsStaged
  <2>2. CASE x # w
    BY <2>2 DEF Only, TurnInv, Staged, At
  <2> QED BY <2>1, <2>2
<1>3. DealtInv'
  BY DEF DealtInv
<1>4. Table' = Table
  BY DEF Table, Exists, PhaseOf, Undecided, turnClockStarted
<1>5. Opening' = TRUE
  BY <1>1 DEF Opening
<1>6. Turns!Open
  BY <1>1, <1>4, <1>5 DEF Turns!Open
<1> QED BY <1>2, <1>3, <1>6 DEF TurnInv, Taken, Turns!Next

-----------------------------------------------------------------------------
(***************************************************************************)
(* The locked sections.                                                    *)
(***************************************************************************)
LEMMA StagedOrDone ==
    ASSUME TypeOK, NEW w \in Workers, NEW s, NEW pc, Stage(w, s, pc)
    PROVE  \/ work'[w].pc = pc /\ work'[w].job = work[w].job /\ work'[w].snap = s
           \/ work'[w] = Idle
<1>1. CASE Set(w, [work[w] EXCEPT !.pc = pc, !.snap = s])
  <2>1. work'[w] = [work[w] EXCEPT !.pc = pc, !.snap = s]
    BY <1>1, SetMoves
  <2> QED BY <2>1 DEF TypeOK, Works
<1>2. CASE Done(w)
  BY <1>2, SetMoves DEF Done
<1> QED BY <1>1, <1>2 DEF Stage, FailWith

LEMMA SectionEnds ==
    ASSUME TypeOK, NEW w \in Workers, NEW s, Set(w, AfterSection(w, s))
    PROVE  /\ work'[w].pc \in {"event", "finish", "idle"}
           /\ work'[w].job \in {work[w].job, "none"}
<1>1. work'[w] = AfterSection(w, s)
  BY SetMoves
<1> QED BY <1>1 DEF AfterSection, Idle, TypeOK, Works

\* A section keeps its job: it starts no match.
LEMMA SameJob ==
    ASSUME NEW w, work'[w].job \in {work[w].job, "none"}, work[w].pc # "restart"
    PROVE  NoNewStart(w)
BY DEF NoNewStart, StartJobs

LEMMA IdleIsQuiet ==
    ASSUME NEW w \in Workers, work'[w] = Idle
    PROVE  Away(w) /\ NoNewStart(w)
BY DEF Away, NoNewStart, StartJobs, Idle

LEMMA EnterTaken ==
    ASSUME TypeOK, TurnInv, NEW w \in Workers, Enter(w)
    PROVE  TurnInv' /\ Taken
<1>1. Only(w) /\ UNCHANGED <<room, stored, dealt>> /\ At(w, "enter")
  BY SectionOnly DEF Section, Enter
<1>2. work'[w].pc \in {"decide", "load"} /\ work'[w].job = work[w].job
  <2>1. \/ work'[w] = [work[w] EXCEPT !.pc = "decide", !.snap = cache]
        \/ work'[w] = [work[w] EXCEPT !.pc = "load"]
    BY SetMoves DEF Enter, Goto
  <2> QED BY <2>1 DEF TypeOK, Works
<1>3. Away(w) /\ NoNewStart(w)
  BY <1>1, <1>2, SameJob DEF Away, At
<1> QED BY <1>1, <1>3, AwayIsStaged, QuietStep

LEMMA LoadTaken ==
    ASSUME TypeOK, LockInv, Calm, Calm', TurnInv, NEW w \in Workers, Load(w)
    PROVE  TurnInv' /\ Taken
<1>1. Only(w) /\ UNCHANGED <<room, stored, dealt>> /\ At(w, "load")
  BY SectionOnly DEF Section, Load
<1>2. ~Spend("readFault")
  BY SpentHappened DEF LockInv, Calm, Events
<1>3. CASE Set(w, [work[w] EXCEPT !.pc = "fill", !.snap = stored])
  <2>1. work'[w] = [work[w] EXCEPT !.pc = "fill", !.snap = stored]
    BY <1>3, SetMoves
  <2>2. work'[w].pc = "fill" /\ work'[w].job = work[w].job
    BY <2>1 DEF TypeOK, Works
  <2>3. Away(w) /\ NoNewStart(w)
    BY <1>1, <2>2, SameJob DEF Away, At
  <2> QED BY <1>1, <2>3, AwayIsStaged, QuietStep
<1>4. CASE ~Exists(stored) /\ NoCanonicalSnapshot(w)
  <2>1. stored = NoSnapshot
    BY <1>4 DEF LockInv, WholeInv, Whole
  <2>2. CASE Stage(w, newInitialMatchSnapshot(now), "create")
    <3>1. CASE work'[w] = Idle
      BY <1>1, <3>1, IdleIsQuiet, AwayIsStaged, QuietStep
    <3>2. CASE /\ work'[w].pc = "create" /\ work'[w].job = work[w].job
               /\ work'[w].snap = newInitialMatchSnapshot(now)
      <4>1. Staged(w)'
        BY <1>1, <2>1, <3>2, FirstIsFirst DEF Staged, At
      <4>2. NoNewStart(w)
        BY <1>1, <3>2, SameJob DEF At
      <4> QED BY <1>1, <4>1, <4>2, QuietStep
    <3> QED BY <2>2, <3>1, <3>2, StagedOrDone
  <2>3. CASE Done(w)
    <3>1. work'[w] = Idle
      BY <2>3, SetMoves DEF Done
    <3> QED BY <1>1, <3>1, IdleIsQuiet, AwayIsStaged, QuietStep
  <2> QED BY <1>4, <2>2, <2>3 DEF NoCanonicalSnapshot, FailWith
<1> QED BY <1>2, <1>3, <1>4 DEF Load

LEMMA FillTaken ==
    ASSUME TypeOK, LockInv, Calm, TurnInv, NEW w \in Workers, Fill(w)
    PROVE  TurnInv' /\ Taken
<1>1. Only(w) /\ UNCHANGED <<room, stored, dealt>> /\ At(w, "fill")
  BY SectionOnly DEF Section, Fill
<1>2. cache = NoSnapshot
  BY <1>1, CalmLock
<1>3. setCachedSnapshotAccepts(work[w].snap)
  BY <1>2 DEF setCachedSnapshotAccepts, Exists, NoSnapshot
<1>4. work'[w] = [work[w] EXCEPT !.pc = "decide"]
  BY <1>3, SetMoves DEF Fill, Goto
<1>5. work'[w].pc = "decide" /\ work'[w].job = work[w].job
  BY <1>4 DEF TypeOK, Works
<1>6. Away(w) /\ NoNewStart(w)
  BY <1>1, <1>5, SameJob DEF Away, At
<1> QED BY <1>1, <1>6, AwayIsStaged, QuietStep

\* A decision stages a move of the table that is stored.
LEMMA StageTaken ==
    ASSUME TypeOK, TurnInv, NEW w \in Workers, NEW s, Stage(w, s, "persist"),
           Only(w), UNCHANGED <<room, stored, dealt>>, work[w].pc # "restart",
           IF work[w].job \in StartJobs THEN TableOf(s) = Turns!FirstTable
                                        ELSE MoveOf(TableOf(stored), TableOf(s))
    PROVE  TurnInv' /\ Taken
<1>1. CASE work'[w] = Idle
  BY <1>1, IdleIsQuiet, AwayIsStaged, QuietStep
<1>2. CASE work'[w].pc = "persist" /\ work'[w].job = work[w].job /\ work'[w].snap = s
  <2>1. Staged(w)'
    BY <1>2 DEF Staged, At
  <2>2. NoNewStart(w)
    BY <1>2, SameJob
  <2> QED BY <2>1, <2>2, QuietStep
<1> QED BY <1>1, <1>2, StagedOrDone

\* What a goroutine that decides has in its hands.
LEMMA Deciding ==
    ASSUME IInv, LockInv, Calm, NEW w \in Workers, At(w, "decide"),
           work[w].job \notin {"none", "leave"}
    PROVE  /\ work[w].snap = stored /\ work[w].snap \in Snapshots /\ Sound(work[w].snap)
           /\ Exists(work[w].snap)
           /\ work[w].room \in Rooms /\ work[w].room.opponent = Opponent
<1>1. work[w].snap = stored /\ Exists(work[w].snap)
  BY CalmLock
<1> QED BY <1>1 DEF IInv, HeldIsSound, WorkKnowsOpponent, TypeOK, Works

LEMMA ReconcileTaken ==
    ASSUME IInv, LockInv, Calm, TurnInv, NEW w \in Workers, Reconcile(w)
    PROVE  TurnInv' /\ Taken
<1>1. TypeOK /\ Only(w) /\ UNCHANGED <<room, stored, dealt>> /\ At(w, "decide")
      /\ Reconciles(work[w].job) /\ now \in Nat
  BY SectionOnly DEF Section, Reconcile, IInv, TypeOK
<1>2. work[w].job \notin StartJobs \cup {"none", "leave"}
  BY <1>1 DEF Reconciles, IsTimerJob, Kinds, StartJobs
<1> DEFINE s == work[w].snap
           r == work[w].room
<1>3. s = stored /\ s \in Snapshots /\ Sound(s) /\ r.opponent = Opponent
  BY <1>1, <1>2, Deciding
<1>4. CASE reconcileDue(s) /\ Stage(w, reconciled(r, s), "persist")
  <2>1. MoveOf(TableOf(stored), TableOf(reconciled(r, s)))
    BY <1>1, <1>3, <1>4, ReconciledMoves
  <2> HIDE DEF s, r
  <2> QED BY <1>1, <1>2, <1>4, <2>1, StageTaken DEF At
<1>5. CASE Set(w, AfterSection(w, s))
  <2>1. Away(w) /\ NoNewStart(w)
    BY <1>1, <1>5, SectionEnds, SameJob DEF Away, At
  <2> QED BY <1>1, <2>1, AwayIsStaged, QuietStep
<1> QED BY <1>4, <1>5 DEF Reconcile

LEMMA EventTaken ==
    ASSUME IInv, LockInv, Calm, TurnInv, NEW u \in Users,
           TurnReady(u) \/ ShotStarted(u) \/ ShotResultSubmitted(u)
    PROVE  TurnInv' /\ Taken
<1> DEFINE s == work[u].snap
           r == work[u].room
<1>1. TypeOK /\ u \in Workers /\ UNCHANGED <<room, stored, dealt>> /\ At(u, "decide")
      /\ work[u].job \in {"turn_ready", "shot_started", "shot_result"} /\ now \in Nat
  BY DEF TurnReady, ShotStarted, ShotResultSubmitted, IInv, TypeOK, Workers
<1>2. Only(u)
  BY <1>1, EventOnly
<1>3. work[u].job \notin StartJobs \cup {"none", "leave"}
  BY <1>1 DEF StartJobs
<1>4. s = stored /\ s \in Snapshots /\ Sound(s) /\ Exists(s) /\ r \in Rooms
      /\ r.opponent = Opponent
  BY <1>1, <1>3, Deciding
<1>5. ASSUME Refuse(u)
      PROVE  TurnInv' /\ Taken
  <2>1. work'[u] = Idle
    BY <1>1, <1>5, SetMoves DEF Refuse, Done
  <2> QED BY <1>1, <1>2, <2>1, IdleIsQuiet, AwayIsStaged, QuietStep
<1>6. ASSUME NEW t, Stage(u, t, "persist"), MoveOf(TableOf(s), TableOf(t))
      PROVE  TurnInv' /\ Taken
  <2>1. MoveOf(TableOf(stored), TableOf(t))
    BY <1>4, <1>6
  <2> QED BY <1>1, <1>2, <1>3, <1>6, <2>1, StageTaken DEF At
<1>7. CASE TurnReady(u)
  <2>1. PICK seq \in 0 .. MaxTurns :
           \/ /\ Undecided(s, "aiming") /\ ~turnClockStarted(s)
              /\ Stage(u, startTurnClock(s, now), "persist")
           \/ Refuse(u)
    BY <1>7 DEF TurnReady
  <2>2. CASE Undecided(s, "aiming") /\ ~turnClockStarted(s)
             /\ Stage(u, startTurnClock(s, now), "persist")
    <3>1. MoveOf(TableOf(s), TableOf(startTurnClock(s, now)))
      BY <1>1, <1>4, <2>2, ClockMoves
    <3> HIDE DEF s
    <3> QED BY <1>6, <2>2, <3>1
  <2> QED BY <1>5, <2>1, <2>2
<1>8. CASE ShotStarted(u)
  <2>1. CASE isTurnExpired(s, now) /\ Stage(u, applyTurnTimeout(r, s, now), "persist")
    <3>1. MoveOf(TableOf(s), TableOf(applyTurnTimeout(r, s, now)))
      BY <1>1, <1>4, <2>1, TimeoutMoves
    <3> HIDE DEF s, r
    <3> QED BY <1>6, <2>1, <3>1
  <2>2. CASE Undecided(s, "aiming") /\ turnClockStarted(s) /\ Stage(u, startShot(s, u, now), "persist")
    <3>1. MoveOf(TableOf(s), TableOf(startShot(s, u, now)))
      BY <1>4, <2>2, ShotMoves
    <3> HIDE DEF s
    <3> QED BY <1>6, <2>2, <3>1
  <2> QED BY <1>5, <1>8, <2>1, <2>2 DEF ShotStarted
<1>9. CASE ShotResultSubmitted(u)
  <2>1. PICK result \in ShotResult(MaxTurns) :
           \/ acceptsShotResult(s, result) /\ Stage(u, applyShotResult(r, s, result, now), "persist")
           \/ Refuse(u)
    BY <1>9 DEF ShotResultSubmitted
  <2>2. CASE acceptsShotResult(s, result) /\ Stage(u, applyShotResult(r, s, result, now), "persist")
    <3>1. MoveOf(TableOf(s), TableOf(applyShotResult(r, s, result, now)))
      BY <1>1, <1>4, <2>2, ResultMoves
    <3> HIDE DEF s, r
    <3> QED BY <1>6, <2>2, <3>1
  <2> QED BY <1>5, <2>1, <2>2
<1> QED BY <1>7, <1>8, <1>9

\* Two steps of match_start and of a rematch: to the lock, and to the first snapshot.
LEMMA StartTaken ==
    ASSUME TypeOK, LockInv, TurnInv, NEW u \in Users, StartClears(u) \/ Deal(u)
    PROVE  TurnInv' /\ Taken
<1>1. u \in Workers /\ UNCHANGED <<room, stored, dealt>>
  BY DEF StartClears, Deal, Workers
<1>2. Only(u)
  BY UserOnly DEF Connection
<1>3. CASE StartClears(u)
  <2>1. work'[u] = [work[u] EXCEPT !.pc = "deal"]
    BY <1>1, <1>3, SetMoves DEF StartClears, Goto
  <2>2. work'[u].pc = "deal" /\ work'[u].job = work[u].job
    BY <1>1, <2>1 DEF TypeOK, Works
  <2>3. Away(u) /\ NoNewStart(u)
    BY <1>3, <2>2, SameJob DEF Away, At, StartClears
  <2> QED BY <1>1, <1>2, <2>3, AwayIsStaged, QuietStep
<1>4. CASE Deal(u)
  <2>1. At(u, "deal") /\ work[u].job \in StartJobs
        /\ Stage(u, newInitialMatchSnapshot(now), "persist")
    BY <1>1, <1>4 DEF Deal, LockInv, StepsInv, StepOf
  <2>2. TableOf(newInitialMatchSnapshot(now)) = Turns!FirstTable
    BY FirstIsFirst
  <2> QED BY <1>1, <1>2, <2>1, <2>2, StageTaken DEF At
<1> QED BY <1>3, <1>4

\* The row changes: a move of the game, or the deal of a match that is opening.
LEMMA StoreTaken ==
    ASSUME TypeOK, LockInv, Calm, ResultParts, TurnInv, NEW w \in Workers,
           work[w].pc \in {"persist", "create"}, PersistSucceeds(w), UNCHANGED <<now, room>>
    PROVE  TurnInv' /\ Taken
<1>1. Only(w) /\ stored' = work[w].snap /\ dealt' = (dealt \/ Deals(w))
      /\ Exists(work[w].snap)
  BY SectionOnly, CalmLock DEF Section, Persist, PersistSucceeds
<1>2. /\ work'[w].pc \in {"decide", "event", "finish", "idle"}
      /\ work'[w].job \in {work[w].job, "none"}
  <2>1. CASE At(w, "create") /\ Goto(w, "decide")
    <3>1. work'[w] = [work[w] EXCEPT !.pc = "decide"]
      BY <2>1, SetMoves DEF Goto
    <3> QED BY <3>1 DEF TypeOK, Works
  <2>2. CASE Set(w, AfterSection(w, work[w].snap))
    BY <2>2, SectionEnds
  <2> QED BY <2>1, <2>2 DEF PersistSucceeds
<1>3. ASSUME NEW x \in Workers
      PROVE  Staged(x)'
  <2>1. CASE x = w
    BY <1>2, <2>1, AwayIsStaged DEF Away
  <2>2. CASE x # w
    <3>1. work'[x] = work[x] /\ work[x].pc \notin LockedSteps
      BY <1>1, <2>2 DEF Only, LockInv, MutexInv, LockedSteps
    <3> QED BY <3>1 DEF Staged, At, LockedSteps
  <2> QED BY <2>1, <2>2
<1>4. DealtInv'
  BY <1>1 DEF DealtInv, Exists
<1>5. Table = TableOf(stored) /\ Table' = TableOf(work[w].snap)
  <2>1. PICK s : s = work[w].snap
    OBVIOUS
  <2>2. stored' = s
    BY <1>1, <2>1
  <2>3. Table' = TableOf(s)
    BY <2>2 DEF Table, TableOf, Rec, Exists, PhaseOf, Undecided, turnClockStarted
  <2> QED BY <2>1, <2>3, TableIs
<1>6. room.status = "playing"
  <2>1. CASE At(w, "persist")
    BY <2>1, StoringIsPlain DEF At, Plain
  <2>2. CASE At(w, "create")
    BY <2>2 DEF ResultParts, PlayingInv, WaitingInv, FinishedInv, Quiet, At
  <2> QED BY <2>1, <2>2 DEF At
<1>7. Opening' \in BOOLEAN
  BY DEF Opening
<1>8. ASSUME Opening, Table' = Turns!FirstTable
      PROVE  Taken
  <2>1. Turns!Deal
    BY <1>7, <1>8 DEF Turns!Deal
  <2> QED BY <2>1 DEF Taken, Turns!Next
<1>9. CASE At(w, "create")
  <2>1. stored = NoSnapshot /\ Table' = Turns!FirstTable
    BY <1>5, <1>9 DEF TurnInv, Staged
  <2>2. ~dealt
    BY <1>6, <2>1 DEF TurnInv, DealtInv, Exists, NoSnapshot
  <2> QED BY <1>3, <1>4, <1>6, <1>8, <2>1, <2>2 DEF TurnInv, Opening
<1>10. CASE At(w, "persist") /\ work[w].job \in StartJobs
  <2>1. Table' = Turns!FirstTable
    BY <1>5, <1>10 DEF TurnInv, Staged
  <2>2. Starting
    <3>1. w \in Users
      BY <1>10 DEF LockInv, StepsInv, StepOf, Starts
    <3>2. ~At(w, "restart") /\ work[w].job \in {"match_start", "rematch_request"}
      BY <1>10 DEF At, StartJobs
    <3> QED BY <3>1, <3>2 DEF Starting
  <2> QED BY <1>3, <1>4, <1>6, <1>8, <2>1, <2>2 DEF TurnInv, Opening
<1>11. CASE At(w, "persist") /\ work[w].job \notin StartJobs
  <2>1. MoveOf(Table, Table')
    BY <1>5, <1>11 DEF TurnInv, Staged
  <2>2. UNCHANGED dealt
    BY <1>1, <1>11 DEF Deals, At, StartJobs, TypeOK
  <2>3. Starting' <=> Starting
    <3>1. \A u \in Users : u \in Workers
      BY DEF Workers
    <3>2. ~(work'[w].job \in StartJobs) /\ ~(work[w].job \in StartJobs)
      BY <1>2, <1>11 DEF StartJobs
    <3> QED BY <1>1, <3>1, <3>2 DEF Starting, Only, At, StartJobs
  <2>4. UNCHANGED <<room.status, Opening>>
    BY <2>2, <2>3 DEF Opening
  <2>5. Turns!Move
    <3>1. CASE Table.phase = "prepare" /\ Table' = AsTurn(Table)
      BY <2>4, <3>1 DEF Turns!Move, Turns!StartClock, AsTurn
    <3>2. CASE Table.phase = "turn" /\ Table' = AsShot(Table)
      BY <2>4, <3>2 DEF Turns!Move, Turns!Shoot, AsShot
    <3>3. CASE /\ Table.phase \in {"turn", "shot"}
               /\ Table' = AsPassed(Table, Turns!Other(Table.player), Table.sunk)
      BY <2>4, <3>3 DEF Turns!Move, Turns!TimeOut, Turns!NextTurn, AsPassed
    <3>4. CASE Table.phase = "shot" /\ RestsAs(Table, Table')
      <4>1. Users = Turns!Players
        BY DEF Users, Turns!Players
      <4>2. Turns!Rest
        BY <3>4, <4>1 DEF RestsAs, Turns!Rest, Turns!NextTurn, AsPassed, AsOver
      <4> QED BY <2>4, <4>2 DEF Turns!Move
    <3> QED BY <2>1, <3>1, <3>2, <3>3, <3>4 DEF MoveOf
  <2> QED BY <1>3, <1>4, <2>5 DEF TurnInv, Taken, Turns!Next
<1> QED BY <1>9, <1>10, <1>11 DEF At

LEMMA PersistTaken ==
    ASSUME TypeOK, LockInv, Calm, ResultParts, TurnInv, NEW w \in Workers, Persist(w)
    PROVE  TurnInv' /\ Taken
<1>1. CASE PersistSucceeds(w)
  BY <1>1, StoreTaken DEF Persist
<1>2. CASE PersistFails(w)
  <2>1. Only(w) /\ UNCHANGED <<room, stored, dealt>>
    BY <1>2, SectionOnly DEF Section, Persist, PersistFails
  <2>2. work'[w] = Idle
    BY <1>2, SetMoves DEF PersistFails, FailWith, Done
  <2> QED BY <2>1, <2>2, IdleIsQuiet, AwayIsStaged, QuietStep
<1> QED BY <1>1, <1>2 DEF Persist

-----------------------------------------------------------------------------
(***************************************************************************)
(* The steps outside the locked sections.                                  *)
(***************************************************************************)
LEMMA FireTaken ==
    ASSUME TypeOK, LockInv, Calm', TurnInv, NEW g \in Goroutines, NEW k \in Kinds, Fire(g, k)
    PROVE  TurnInv' /\ Taken
<1>1. g \in Workers /\ Only(g) /\ At(g, "idle") /\ UNCHANGED <<room, stored, dealt>>
  BY FireOnly DEF Workers, Fire
<1>2. CASE Set(g, [Idle EXCEPT !.pc = "enter", !.job = k, !.seq = timer[k].seq, !.room = room])
  <2>1. work'[g] = [Idle EXCEPT !.pc = "enter", !.job = k, !.seq = timer[k].seq, !.room = room]
    BY <1>1, <1>2, SetMoves
  <2>2. work'[g].pc = "enter" /\ work'[g].job = k
    BY <2>1 DEF Idle
  <2>3. Away(g) /\ NoNewStart(g)
    BY <2>2 DEF Away, NoNewStart, Kinds, StartJobs
  <2> QED BY <1>1, <2>3, AwayIsStaged, QuietStep
<1>3. CASE UNCHANGED work
  BY <1>1, <1>3, StillStep
<1> QED BY <1>2, <1>3 DEF Fire

LEMMA RequestTaken ==
    ASSUME TypeOK, TurnInv, NEW u \in Users, RequestRematch(u) \/ Receive(u) \/ Dispatch(u)
    PROVE  TurnInv' /\ Taken
<1>1. u \in Workers /\ UNCHANGED <<room, stored, dealt>>
  BY DEF Workers, RequestRematch, Receive, Dispatch
<1>2. Only(u)
  BY UserOnly DEF Connection
<1>3. ASSUME Away(u), NoNewStart(u)
      PROVE  TurnInv' /\ Taken
  BY <1>1, <1>2, <1>3, AwayIsStaged, QuietStep
<1>4. CASE RequestRematch(u)
  <2>1. CASE UNCHANGED work
    BY <1>1, <2>1, StillStep
  <2>2. CASE Set(u, [Idle EXCEPT !.pc = "restart", !.job = "rematch_request", !.room = room])
    <3>1. work'[u] = [Idle EXCEPT !.pc = "restart", !.job = "rematch_request", !.room = room]
      BY <1>1, <2>2, SetMoves
    <3>2. work'[u].pc = "restart"
      BY <3>1 DEF Idle
    <3> QED BY <1>3, <3>2 DEF Away, NoNewStart
  <2> QED BY <1>4, <2>1, <2>2 DEF RequestRematch
<1>5. CASE Receive(u)
  <2>1. work'[u] = Reconciling(room) \/ work'[u] = Reconciling(CopyOfMatch)
    BY <1>1, <1>5, SetMoves DEF Receive
  <2>2. work'[u].pc = "enter" /\ work'[u].job = "reconcile"
    BY <2>1 DEF Idle, Reconciling
  <2> QED BY <1>3, <2>2 DEF Away, NoNewStart, StartJobs
<1>6. CASE Dispatch(u)
  <2>1. CASE Done(u)
    BY <1>1, <1>3, <2>1, SetMoves, IdleIsQuiet DEF Done
  <2>2. ASSUME NEW job \in {"turn_ready", "shot_started", "shot_result", "cue_state"},
               NEW pc \in {"enter", "peek"}, Set(u, [work[u] EXCEPT !.pc = pc, !.job = job])
        PROVE  TurnInv' /\ Taken
    <3>1. work'[u] = [work[u] EXCEPT !.pc = pc, !.job = job]
      BY <1>1, <2>2, SetMoves
    <3>2. work'[u].pc = pc /\ work'[u].job = job
      BY <1>1, <3>1 DEF TypeOK, Works
    <3> QED BY <1>3, <3>2 DEF Away, NoNewStart, StartJobs
  <2> QED BY <1>6, <2>1, <2>2 DEF Dispatch
<1> QED BY <1>4, <1>5, <1>6

\* A match opens: match_start in a waiting room, a rematch in a finished one.
LEMMA OpenTaken ==
    ASSUME TypeOK, LockInv, TurnInv, StartMatch \/ \E u \in Users : Restart(u)
    PROVE  TurnInv' /\ Taken
<1>1. CASE StartMatch
  <2>1. /\ Creator \in Workers /\ UNCHANGED stored /\ dealt' = FALSE
        /\ room.status = "waiting" /\ room' = [room EXCEPT !.status = "playing"]
    BY <1>1 DEF StartMatch, Workers, Users
  <2>2. work'[Creator] = [Idle EXCEPT !.pc = "clear", !.job = "match_start", !.room = room']
    BY <1>1, <2>1, SetMoves DEF StartMatch
  <2>3. Only(Creator)
    BY <1>1, <2>1, SetOnly DEF StartMatch
  <2>4. Away(Creator)
    BY <2>2 DEF Away, Idle
  <2> QED BY <2>1, <2>3, <2>4, OpenStep
<1>2. ASSUME NEW u \in Users, Restart(u)
      PROVE  TurnInv' /\ Taken
  <2>1. u \in Workers /\ Only(u) /\ UNCHANGED stored
    BY <1>2, UserOnly DEF Workers, Restart, Connection
  <2>2. CASE /\ room.status = "finished" /\ room' = [room EXCEPT !.status = "playing"]
             /\ dealt' = FALSE /\ Set(u, [work[u] EXCEPT !.pc = "clear", !.room = room'])
    <3>1. work'[u] = [work[u] EXCEPT !.pc = "clear", !.room = room']
      BY <2>1, <2>2, SetMoves
    <3>2. Away(u)
      BY <2>1, <3>1 DEF Away, TypeOK, Works
    <3> QED BY <2>1, <2>2, <3>2, OpenStep
  <2>3. CASE Done(u) /\ UNCHANGED <<room, dealt>>
    BY <2>1, <2>3, SetMoves, IdleIsQuiet, AwayIsStaged, QuietStep DEF Done
  <2> QED BY <1>2, <2>2, <2>3 DEF Restart
<1> QED BY <1>1, <1>2

\* FinishRoom finds the table over.
LEMMA FinishTaken ==
    ASSUME TypeOK, ResultParts, TurnInv, NEW u \in Users, Finish(u)
    PROVE  TurnInv' /\ Taken
<1>1. /\ u \in Workers /\ At(u, "finish") /\ UNCHANGED <<stored, dealt>> /\ work'[u] = Idle
  BY SetMoves DEF Workers, Finish, Done
<1>2. Only(u) /\ Away(u) /\ NoNewStart(u)
  BY <1>1, UserOnly, IdleIsQuiet DEF Connection
<1>3. CASE room.status = "playing" /\ room' = [room EXCEPT !.status = "finished"]
  <2>1. Result(stored)
    BY <1>1 DEF ResultParts, FinishInv
  <2>2. Exists(stored) /\ PhaseOf(stored) = "over"
    BY <2>1 DEF Result, Exists, PhaseOf, Undecided
  <2>3. Table.phase = "over"
    BY <2>2, RecFields, TableIs DEF TableOf
  <2>4. room'.status = "finished"
    BY <1>3 DEF TypeOK, Rooms
  <2>5. Table' = Table
    BY <1>1 DEF Table, Exists, PhaseOf, Undecided, turnClockStarted
  <2>6. Opening' = FALSE
    BY <2>4 DEF Opening
  <2>7. Turns!Finish
    BY <1>3, <2>3, <2>4, <2>5, <2>6 DEF Turns!Finish
  <2>8. ASSUME NEW x \in Workers
        PROVE  Staged(x)'
    <3>1. CASE x = u
      BY <1>2, <3>1, AwayIsStaged
    <3>2. CASE x # u
      BY <1>1, <1>2, <3>2 DEF Only, TurnInv, Staged, At
    <3> QED BY <3>1, <3>2
  <2>9. DealtInv'
    BY <2>4 DEF DealtInv
  <2> QED BY <2>7, <2>8, <2>9 DEF TurnInv, Taken, Turns!Next
<1>4. CASE UNCHANGED room
  BY <1>1, <1>2, <1>4, AwayIsStaged, QuietStep
<1> QED BY <1>3, <1>4 DEF Finish

LEMMA NextTaken ==
    ASSUME IInv, LockInv, Calm, Calm', ResultParts, TurnInv, [Next]_vars
    PROVE  TurnInv' /\ Taken
<1>1. TypeOK
  BY DEF IInv
<1>2. CASE UNCHANGED vars
  BY <1>2, StillStep DEF vars
<1>3. CASE Join
  <2>1. UNCHANGED <<stored, dealt, work>> /\ room'.status = room.status
    BY <1>1, <1>3 DEF Join, TypeOK, Rooms
  <2> QED BY <2>1, StillStep
<1>4. CASE Tick \/ Crash
  BY <1>4, StillStep DEF Tick, Crash
<1>5. CASE StartMatch
  BY <1>1, <1>5, OpenTaken
<1>6. ASSUME NEW role, Leave(role)
      PROVE  FALSE
  BY <1>1, <1>6, SpentHappened DEF Leave, LockInv, Calm, Left, Events
<1>7. ~LeaveClears /\ ~LeaveDeletes
  BY CalmLock DEF LeaveClears, LeaveDeletes, At
<1>8. ASSUME NEW u \in Users, RequestRematch(u) \/ Receive(u) \/ Connection(u)
      PROVE  TurnInv' /\ Taken
  <2>1. ~Peek(u) /\ ~PeekFill(u)
    BY CalmLock DEF Peek, PeekFill, At, Workers
  <2> QED BY <1>1, <1>8, <2>1, RequestTaken, OpenTaken, StartTaken, EventTaken, FinishTaken
             DEF Connection
<1>9. ASSUME NEW g \in Goroutines, NEW k \in Kinds, Fire(g, k)
      PROVE  TurnInv' /\ Taken
  BY <1>1, <1>9, FireTaken
<1>10. ASSUME NEW w \in Workers, Section(w)
       PROVE  TurnInv' /\ Taken
  BY <1>1, <1>10, EnterTaken, LoadTaken, FillTaken, ReconcileTaken, PersistTaken DEF Section
<1> QED BY <1>2, <1>3, <1>4, <1>5, <1>6, <1>7, <1>8, <1>9, <1>10 DEF Next

-----------------------------------------------------------------------------
LEMMA NobodyLeft ==
    ASSUME TypeOK, Budget["leave"] = 0, Budget["readFault"] = 0
    PROVE  Calm
BY DEF TypeOK, Calm, Left, Happened, Events

LEMMA InitMaps ==
    ASSUME Init
    PROVE  Turns!Init /\ TurnInv
<1>1. Table = Turns!NoTable
  BY TableIs, FirstIsFirst DEF Init
<1>2. Turns!Init
  BY <1>1 DEF Turns!Init, Init, Opening
<1>3. TurnInv
  BY DEF TurnInv, DealtInv, Staged, Init, Idle, At
<1> QED BY <1>2, <1>3

LEMMA InitResult == Init => ResultParts
<1> SUFFICES ASSUME Init PROVE ResultParts
  OBVIOUS
<1>1. \A w \in Workers : work[w].pc = "idle"
  BY DEF Init, Idle
<1>2. room.status = "waiting" /\ requested = {} /\ stored = NoSnapshot /\ cache = NoSnapshot
  BY DEF Init
<1> QED BY <1>1, <1>2 DEF ResultParts, WaitingInv, PlayingInv, FinishedInv, FinishInv, StartInv,
           RematchInv, At

\* What the referee stores is a match as MatchTurns knows it, whatever the timers,
\* messages, restarts and failed writes: every change of the row is one move of the
\* game, or the deal of a match that has just been opened, and the room finishes
\* only when its table is over.
THEOREM ServerImplementsTurns ==
    ASSUME ~CueStates, ~Stalls, Budget["leave"] = 0, Budget["readFault"] = 0
    PROVE  Spec => ImplementsTurns
<1> DEFINE Inv == IInv /\ LockInv /\ ResultInv /\ TurnInv
<1>1. Init => Inv /\ Turns!Init
  BY InitSound, InitLocked, InitResult, InitMaps DEF ResultInv
<1>2. Inv /\ [Next]_vars => Inv' /\ Taken
  <2> SUFFICES ASSUME Inv, [Next]_vars PROVE Inv' /\ Taken
    OBVIOUS
  <2>1. IInv' /\ LockInv' /\ ResultInv'
    BY NextKeepsSound, NextKeepsLock, NextKeepsResult DEF IInv
  <2>2. Calm /\ Calm'
    <3>1. TypeOK /\ TypeOK'
      BY <2>1 DEF IInv
    <3> QED BY <3>1, NobodyLeft DEF TypeOK, Calm, Left, Happened, Events
  <2>3. ResultParts
    BY <2>2 DEF ResultInv
  <2> QED BY <2>1, <2>2, <2>3, NextTaken
<1>3. Taken => [Turns!Next]_(Turns!tvars)
  BY DEF Taken
<1> HIDE DEF Inv
<1> QED BY <1>1, <1>2, <1>3, PTL DEF Spec, ImplementsTurns, Turns!Spec
=============================================================================
