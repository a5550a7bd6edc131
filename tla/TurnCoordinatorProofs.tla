----------------------- MODULE TurnCoordinatorProofs -----------------------
(***************************************************************************)
(* Proofs about TurnCoordinator, for any number of turns, tasks, attempts, *)
(* retries and recoveries, and about the outbox of SubjectRevocation. The  *)
(* two share no state; each has an inductive invariant of its own.         *)
(***************************************************************************)
EXTENDS TurnCoordinator, SubjectRevocation, TLAPS

\* What the barrier knows while it runs: nothing has started before the robot's stop
\* was asked for; from the snapshot on every live task is in it; once the join runs
\* every live task is cancelled, so that nothing moves, reserves or speaks again.
BarrierKnows ==
    /\ barrier \in {"begin", "first"} => join = "off" /\ rec = "off"
    /\ barrier \in {"begin", "first"} => safety # "verified"
    /\ barrier \notin {"off", "begin"} => live \subseteq snapshot
    /\ barrier \in {"safety", "join", "reconcile"} => join # "off"
    /\ join = "waiting" => barrier \in {"safety", "join"}
    /\ barrier # "off" /\ join = "off" => safety # "verified" /\ rec = "off"
    /\ barrier # "off" /\ join # "off" => live \subseteq told
    /\ barrier # "off" /\ safety = "verified" => ~moving
    /\ barrier # "off" /\ join = "clean" => live = {}
    /\ barrier # "off" /\ rec = "done" => owed = {}

\* A restart is asked for when the household is blocked, or about to be.
RestartBlocks == restart => cstate = "blocked" \/ (barrier = "decide" /\ safety = "failed")

IInv ==
    /\ TypeOK
    /\ BarrierKnows
    /\ RestartBlocks
    /\ ReleasedTurnIsQuiet
    /\ LiveTasksAreTracked
    /\ OneReconciliation /\ (rec = "running" => recLive = 1)

\* The bounds are numbers, and at least one safety attempt is allowed.
LEMMA Bounds ==
    MaxTurn \in Nat /\ MaxRecovery \in Nat /\ 0 \in 0..MaxTurn /\ 0 \in 0..MaxRecovery
    /\ RetryLimit \in Nat /\ 0 \in 0..RetryLimit /\ 1 \in 0..RetryLimit
  BY CoordinatorConstants

\* The coordinator starts idle, with nothing tracked and nothing running.
LEMMA InitIInv == Init => IInv
<1> SUFFICES ASSUME Init PROVE IInv
  BY Zenon
<1>1. last \in 0..MaxTurn /\ try \in 0..RetryLimit /\ recoveries \in 0..MaxRecovery
  BY Zenon, Bounds DEF Init, NoTurn
<1>2. TypeOK
  BY Zenon, <1>1 DEF Init, TypeOK, NoTurn
<1> QED
  BY <1>2 DEF Init, IInv, BarrierKnows, RestartBlocks, ReleasedTurnIsQuiet,
              LiveTasksAreTracked, OneReconciliation

\* The steps of the turn itself (start, task, playback, reservation) keep IInv.
LEMMA WorkKeepsIInv ==
    IInv /\ (Start \/ TurnStep \/ RobotStops \/ (\E k \in Task : TaskEnds(k))) => IInv'
<1> SUFFICES ASSUME IInv, Start \/ TurnStep \/ RobotStops \/ (\E k \in Task : TaskEnds(k))
             PROVE  IInv'
  BY Zenon
<1> USE DEF IInv, TypeOK, BarrierKnows, RestartBlocks, ReleasedTurnIsQuiet,
            LiveTasksAreTracked, OneReconciliation, NoTurn, Turn
<1>1. CASE Start
  BY <1>1, CoordinatorConstants DEF Start, workVars, barrierVars
<1>2. CASE \E k \in Task : TrackTask(k)
  BY <1>2 DEF TrackTask, Accepts, coordVars, barrierVars
<1>3. CASE \E k \in Task : UntrackTask(k)
  BY <1>3 DEF UntrackTask, coordVars, barrierVars
<1>4. CASE \E k \in Task : Speaks(k)
  BY <1>4 DEF Speaks, Accepts, coordVars, barrierVars
<1>5. CASE \E k \in Task : RobotMoves(k)
  BY <1>5 DEF RobotMoves, coordVars, barrierVars
<1>6. CASE \E k \in Task, a \in Attempt : Reserves(k, a)
  BY <1>6 DEF Reserves, coordVars, barrierVars
<1>7. CASE \E k \in Task, a \in Attempt : TrackReservation(k, a)
  BY <1>7 DEF TrackReservation, Accepts, coordVars, barrierVars
<1>8. CASE \E k \in Task, a \in Attempt : CompleteReservation(k, a)
  BY <1>8 DEF CompleteReservation, Accepts, coordVars, barrierVars
<1>9. CASE \E a \in Attempt : Closes(a)
  BY <1>9 DEF Closes, coordVars, barrierVars
<1>10. CASE RobotStops
  BY ZenonT(40), <1>10 DEF RobotStops, coordVars, barrierVars
<1>11. CASE \E k \in Task : TaskEnds(k)
  BY <1>11 DEF TaskEnds, coordVars, barrierVars
<1> QED
  BY Zenon, <1>1, <1>2, <1>3, <1>4, <1>5, <1>6, <1>7, <1>8, <1>9, <1>10, <1>11 DEF TurnStep

\* Publishing the end of the turn (finish, cancel, recovery) keeps IInv.
LEMMA PublishKeepsIInv == IInv /\ (Finish \/ Cancel \/ Recover) => IInv'
<1> SUFFICES ASSUME IInv, Finish \/ Cancel \/ Recover PROVE IInv'
  BY Zenon
<1> USE DEF IInv, TypeOK, BarrierKnows, RestartBlocks, ReleasedTurnIsQuiet,
            LiveTasksAreTracked, OneReconciliation, NoTurn, Turn
<1>1. CASE Finish
  <2>1. try' \in 0..RetryLimit /\ recoveries' \in 0..MaxRecovery
    BY Zenon, <1>1, Bounds DEF Finish, CreateBarrier
  <2>2. TypeOK'
    BY Zenon, <1>1, <2>1 DEF Finish, Accepts, CreateBarrier, workVars
  <2>3. (BarrierKnows /\ RestartBlocks)'
    BY <1>1 DEF Finish, Accepts, CreateBarrier, workVars
  <2> QED
    BY Zenon, <1>1, <2>2, <2>3 DEF Finish, Accepts, CreateBarrier, workVars
<1>2. CASE Cancel
  <2>1. try' \in 0..RetryLimit /\ recoveries' \in 0..MaxRecovery
    BY Zenon, <1>2, Bounds DEF Cancel, CreateBarrier
  <2>2. TypeOK'
    BY Zenon, <1>2, <2>1 DEF Cancel, Accepts, CreateBarrier, workVars
  <2>3. (BarrierKnows /\ RestartBlocks)'
    BY <1>2 DEF Cancel, Accepts, CreateBarrier, workVars
  <2> QED
    BY Zenon, <1>2, <2>2, <2>3 DEF Cancel, Accepts, CreateBarrier, workVars
<1>3. CASE Recover
  <2>1. try' \in 0..RetryLimit /\ recoveries' \in 0..MaxRecovery
    BY <1>3, Bounds DEF Recover, CreateBarrier
  <2>2. TypeOK'
    BY Zenon, <1>3, <2>1 DEF Recover, MayRecover, CreateBarrier, workVars
  <2>3. (BarrierKnows /\ RestartBlocks)'
    BY <1>3 DEF Recover, MayRecover, CreateBarrier, workVars
  <2> QED
    BY Zenon, <1>3, <2>2, <2>3 DEF Recover, MayRecover, CreateBarrier, workVars
<1> QED
  BY Zenon, <1>1, <1>2, <1>3

\* The steps of the barrier and of its three jobs keep IInv.
LEMMA BarrierKeepsIInv ==
    IInv /\ (SafetyStep \/ JoinStep \/ BarrierStep \/ ReconciliationEnds
             \/ LateReconciliationEnds) => IInv'
<1> SUFFICES ASSUME IInv, SafetyStep \/ JoinStep \/ BarrierStep \/ ReconciliationEnds
                          \/ LateReconciliationEnds
             PROVE  IInv'
  BY Zenon
<1> USE DEF IInv, TypeOK, BarrierKnows, RestartBlocks, ReleasedTurnIsQuiet,
            LiveTasksAreTracked, OneReconciliation, NoTurn, Turn
<1>1. CASE SafetyVerified
  BY Zenon, <1>1 DEF SafetyVerified, coordVars
<1>2. CASE SafetyAttemptFails
  <2>1. try' \in 0..RetryLimit
    BY <1>2, Bounds DEF SafetyAttemptFails
  <2>2. TypeOK'
    BY Zenon, <1>2, <2>1 DEF SafetyAttemptFails, coordVars, workVars
  <2>3. (BarrierKnows /\ RestartBlocks)'
    BY Zenon, <1>2 DEF SafetyAttemptFails, coordVars, workVars
  <2> QED
    BY Zenon, <1>2, <2>2, <2>3 DEF SafetyAttemptFails, coordVars, workVars
<1>3. CASE JoinClean
  <2>1. live = {}
    BY Zenon, <1>3 DEF JoinClean
  <2>2. TypeOK'
    BY Zenon, <1>3 DEF JoinClean, coordVars
  <2>3. BarrierKnows'
    BY Zenon, <1>3, <2>1 DEF JoinClean, coordVars
  <2> QED
    BY Zenon, <1>3, <2>1, <2>2, <2>3 DEF JoinClean, coordVars
<1>4. CASE JoinTimeout
  BY Zenon, <1>4 DEF JoinTimeout, coordVars
<1>5. CASE BarrierBegins
  <2>1. try' \in 0..RetryLimit
    BY Zenon, <1>5, Bounds DEF BarrierBegins
  <2>2. TypeOK'
    BY Zenon, <1>5, <2>1 DEF BarrierBegins, workVars
  <2>3. (BarrierKnows /\ RestartBlocks)'
    BY <1>5 DEF BarrierBegins, workVars
  <2> QED
    BY Zenon, <1>5, <2>2, <2>3 DEF BarrierBegins, workVars
<1>6. CASE BarrierCancelsTasks
  BY <1>6 DEF BarrierCancelsTasks, StartReconciliation, coordVars
<1>7. CASE BarrierAwaits
  BY ZenonT(40), <1>7 DEF BarrierAwaits, coordVars, workVars
<1>8. CASE BarrierDecides
  BY ZenonT(40), <1>8 DEF BarrierDecides, Verified
<1>9. CASE ReconciliationEnds
  BY <1>9 DEF ReconciliationEnds, coordVars
<1>10. CASE LateReconciliationEnds
  BY <1>10 DEF LateReconciliationEnds, coordVars
<1> QED
  BY Zenon, <1>1, <1>2, <1>3, <1>4, <1>5, <1>6, <1>7, <1>8, <1>9, <1>10
  DEF SafetyStep, JoinStep, BarrierStep

\* A step that changes nothing keeps IInv.
LEMMA StutterKeepsIInv == IInv /\ UNCHANGED vars => IInv'
  BY DEF IInv, TypeOK, BarrierKnows, RestartBlocks, ReleasedTurnIsQuiet,
         LiveTasksAreTracked, OneReconciliation, vars, coordVars, workVars, barrierVars

\* The coordinator keeps its inductive invariant.
THEOREM CoordinatorInvariant == Spec => []IInv
<1>1. IInv /\ [Next]_vars => IInv'
  BY Zenon, WorkKeepsIInv, PublishKeepsIInv, BarrierKeepsIInv, StutterKeepsIInv DEF Next
<1> QED
  BY InitIInv, <1>1, PTL DEF Spec

\* A turn is released only when the robot is still, its tasks have ended and its
\* reservations are closed.
THEOREM QuietAlways == Spec => []ReleasedTurnIsQuiet
<1>1. IInv => ReleasedTurnIsQuiet
  BY Zenon DEF IInv
<1> QED
  BY CoordinatorInvariant, <1>1, PTL

\* At most one reconciliation of a turn runs, and no live task is unknown.
THEOREM OwnershipAlways == Spec => [](OneReconciliation /\ LiveTasksAreTracked)
<1>1. IInv => OneReconciliation /\ LiveTasksAreTracked
  BY Zenon DEF IInv
<1> QED
  BY CoordinatorInvariant, <1>1, PTL

\* Once a process restart is asked for, no step of the coordinator ends the block.
THEOREM RestartAlways == Spec => RestartIsFinal
<1> DEFINE Kept == restart => restart' /\ cstate' # "idle"
<1>1. ASSUME IInv, Next, restart PROVE restart' /\ cstate' # "idle"
  <2> USE <1>1 DEF IInv, TypeOK, RestartBlocks
  <2>1. CASE Start \/ Finish \/ Cancel \/ Recover
    BY Zenon, <2>1 DEF Start, Finish, Cancel, Recover, MayRecover, Accepts
  <2>2. CASE TurnStep \/ RobotStops \/ (\E k \in Task : TaskEnds(k))
    BY Zenon, <2>2 DEF TurnStep, TrackTask, UntrackTask, Speaks, RobotMoves, Reserves,
                TrackReservation, CompleteReservation, Closes, RobotStops, TaskEnds, coordVars
  <2>3. CASE SafetyStep \/ JoinStep \/ ReconciliationEnds \/ LateReconciliationEnds
    BY Zenon, <2>3 DEF SafetyStep, SafetyVerified, SafetyAttemptFails, JoinStep, JoinClean,
                JoinTimeout, ReconciliationEnds, LateReconciliationEnds, coordVars
  <2>4. CASE BarrierBegins \/ BarrierCancelsTasks \/ BarrierAwaits
    BY Zenon, <2>4 DEF BarrierBegins, BarrierCancelsTasks, BarrierAwaits, coordVars
  <2>5. CASE BarrierDecides
    BY Zenon, <2>5 DEF BarrierDecides, Verified
  <2> QED
    BY Zenon, <1>1, <2>1, <2>2, <2>3, <2>4, <2>5 DEF Next, BarrierStep
<1>2. IInv /\ [Next]_vars => [Kept]_vars
  BY Zenon, <1>1
<1> QED
  BY CoordinatorInvariant, <1>2, PTL DEF Spec, RestartIsFinal

\* The coordinator implements HouseholdTurn: one turn at a time, released only through
\* a published cancellation.
THEOREM RefinesHouseholdTurn == Spec => ImplementsHouseholdTurn
<1>1. Init => Outside!CInit
  BY Zenon DEF Init, Outside!CInit, NoTurn, Outside!NoTurn
<1>2. ASSUME IInv, Next PROVE [Outside!CNext]_(Outside!turnVars)
  <2> USE <1>2 DEF Outside!CNext, Outside!turnVars, NoTurn, Outside!NoTurn, Turn, Outside!Turn
  <2>1. CASE Start
    <3>1. last + 1 \in Outside!Turn /\ last + 1 > last
      BY <2>1, CoordinatorConstants DEF Start, IInv, TypeOK
    <3> QED
      BY Zenon, <2>1, <3>1 DEF Start, Outside!CStart
  <2>2. CASE Finish \/ Cancel \/ Recover
    BY Zenon, <2>2 DEF Finish, Cancel, Recover, MayRecover, Accepts, CreateBarrier,
                Outside!CPublish, Outside!CBlock, Outside!CRecover
  <2>3. CASE TurnStep \/ RobotStops \/ (\E k \in Task : TaskEnds(k))
    BY Zenon, <2>3 DEF TurnStep, TrackTask, UntrackTask, Speaks, RobotMoves, Reserves,
                TrackReservation, CompleteReservation, Closes, RobotStops, TaskEnds, coordVars
  <2>4. CASE SafetyStep \/ JoinStep \/ ReconciliationEnds \/ LateReconciliationEnds
    BY Zenon, <2>4 DEF SafetyStep, SafetyVerified, SafetyAttemptFails, JoinStep, JoinClean,
                JoinTimeout, ReconciliationEnds, LateReconciliationEnds, coordVars
  <2>5. CASE BarrierBegins \/ BarrierCancelsTasks \/ BarrierAwaits
    BY Zenon, <2>5 DEF BarrierBegins, BarrierCancelsTasks, BarrierAwaits, coordVars
  <2>6. CASE BarrierDecides
    BY Zenon, <2>6 DEF BarrierDecides, IInv, TypeOK, Outside!CRelease, Outside!CBlock
  <2> QED
    BY Zenon, <1>2, <2>1, <2>2, <2>3, <2>4, <2>5, <2>6 DEF Next, BarrierStep
<1>3. UNCHANGED vars => UNCHANGED Outside!turnVars
  BY Zenon DEF vars, coordVars, Outside!turnVars
<1>4. IInv /\ [Next]_vars => [Outside!CNext]_(Outside!turnVars)
  BY Zenon, <1>2, <1>3
<1> QED
  BY CoordinatorInvariant, <1>1, <1>4, PTL
  DEF Spec, ImplementsHouseholdTurn, Outside!CSpec

-----------------------------------------------------------------------------
(***************************************************************************)
(* The outbox of subject revocations, for any number of events, families,  *)
(* workers, faults and any length of the leases.                           *)
(***************************************************************************)

Claimed == Working \cup {"complete", "defer", "retry"}

Labels == Claimed \cup {"off", "top", "drained", "recover", "stale", "claim", "expiry", "asleep", "waiting"}

RowTypes ==
    /\ evState \in [Event -> {"none", "pending", "processing", "completed"}]
    /\ evOwner \in [Event -> Worker \cup {None}]
    /\ effState \in [Event -> [Family -> {"pending", "applying", "completed"}]]
    /\ effOwner \in [Event -> [Family -> Worker \cup {None}]]

PlaceTypes ==
    /\ mode \in [Worker -> {"off", "startup", "periodic"}]
    /\ pc \in [Worker -> Labels]
    /\ job \in [Worker -> Event \cup {None}]
    /\ family \in [Worker -> Family]
    /\ backlog \in [Worker -> SUBSET Event]

OutboxTypes == RowTypes /\ PlaceTypes

\* What a worker knows of the event it has claimed: the families it has passed are
\* completed, also when another worker completed them, and behind "applied" the
\* effect of its own family has committed.
Knows(w) ==
    /\ pc[w] \in Claimed => job[w] \in Event
    /\ pc[w] \in Working => \A f \in Family : f < family[w] => effState[job[w]][f] = "completed"
    /\ pc[w] = "applied" => <<job[w], family[w]>> \in applied
    /\ pc[w] = "complete" => \A f \in Family : effState[job[w]][f] = "completed"

\* Rows that wait for a worker have no owner.
WaitingIsFree ==
    /\ \A e \in Event : evState[e] \in {"none", "pending"} => evOwner[e] = None
    /\ \A e \in Event, f \in Family : effState[e][f] = "pending" => effOwner[e][f] = None

RowsInv == RowTypes /\ WaitingIsFree /\ CompletedMeansApplied

\* A backlog holds committed events, and all of them are completed once the worker is ready.
BacklogInv ==
    ReadyMeansDrained /\ \A w \in Worker : \A e \in backlog[w] : evState[e] # "none"

OutboxInv == RowsInv /\ PlaceTypes /\ (\A w \in Worker : Knows(w)) /\ BacklogInv

\* What no step takes back: completed effects and events, applied effects, and the
\* commitment of an event.
Kept ==
    /\ \A e \in Event, f \in Family : effState[e][f] = "completed" => effState'[e][f] = "completed"
    /\ \A e \in Event : evState[e] = "completed" => evState'[e] = "completed"
    /\ \A e \in Event : evState[e] # "none" => evState'[e] # "none"
    /\ applied \subseteq applied'

LEMMA FirstFamily == 1 \in Family /\ MaxFamily \in Family
  BY OutboxConstants DEF Family

\* The outbox starts empty, with every worker off.
LEMMA OutboxInvInit == OutboxInit => OutboxInv
<1> SUFFICES ASSUME OutboxInit PROVE OutboxInv
  BY Zenon
<1>1. RowTypes
  BY Zenon DEF OutboxInit, RowTypes, None
<1>2. PlaceTypes
  BY Zenon, FirstFamily DEF OutboxInit, PlaceTypes, Labels, None
<1>3. \A w \in Worker : Knows(w)
  BY Zenon DEF OutboxInit, Knows, Claimed, Working
<1> QED
  BY Zenon, <1>1, <1>2, <1>3 DEF OutboxInit, OutboxInv, RowsInv, BacklogInv, WaitingIsFree,
     CompletedMeansApplied, ReadyMeansDrained

\* A worker that ended knows of nothing.
LEMMA DeadKnows ==
  ASSUME PlaceTypes, NEW w \in Worker, Dies(w)
  PROVE  PlaceTypes' /\ Knows(w)'
<1>1. pc' \in [Worker -> Labels] /\ pc'[w] = "off"
  BY Zenon DEF PlaceTypes, Dies, Labels
<1>2. job' \in [Worker -> Event \cup {None}] /\ mode' \in [Worker -> {"off", "startup", "periodic"}]
  BY Zenon DEF PlaceTypes, Dies
<1>3. family' \in [Worker -> Family] /\ backlog' \in [Worker -> SUBSET Event]
  BY Zenon, FirstFamily DEF PlaceTypes, Dies
<1> QED
  BY Zenon, <1>1, <1>2, <1>3 DEF PlaceTypes, Knows, Claimed, Working

\* The family after the one that is completed, or completion of the event.
LEMMA PassedFamily ==
  ASSUME PlaceTypes, NEW w \in Worker, NextFamily(w)
  PROVE  /\ pc' \in [Worker -> Labels] /\ family' \in [Worker -> Family]
         /\ \/ pc'[w] = "complete" /\ family[w] = MaxFamily
            \/ pc'[w] = "effect" /\ family'[w] = family[w] + 1
<1>1. CASE family[w] = MaxFamily
  BY Zenon, <1>1 DEF PlaceTypes, NextFamily, Goto, Labels, Claimed
<1>2. CASE family[w] # MaxFamily
  <2>1. family[w] + 1 \in Family
    BY <1>2, OutboxConstants DEF PlaceTypes, Family
  <2> QED
    BY Zenon, <1>2, <2>1 DEF PlaceTypes, NextFamily, Goto, Labels, Claimed, Working
<1> QED
  BY Zenon, <1>1, <1>2

\* The steps of one worker, heartbeats, faults and its start included.
OfWorker(w) == StartWorker(w) \/ WorkerStep(w) \/ ApplyFails(w) \/ Renew(w) \/ RenewEffect(w) \/ Crash(w)

\* What one worker does leaves the place of every other one alone.
LEMMA OthersStand ==
  ASSUME PlaceTypes, NEW w \in Worker, OfWorker(w), NEW x \in Worker \ {w}
  PROVE  pc'[x] = pc[x] /\ job'[x] = job[x] /\ family'[x] = family[x]
<1> USE DEF PlaceTypes
<1>1. CASE StartWorker(w) \/ ApplyFails(w) \/ Crash(w)
  BY Zenon, <1>1 DEF StartWorker, ApplyFails, Crash, Goto, Dies
<1>2. CASE Renew(w) \/ RenewEffect(w)
  BY Zenon, <1>2 DEF Renew, RenewEffect, Dies, workerVars
<1>3. CASE CountPending(w) \/ AwaitExpiry(w) \/ Wake(w)
  BY Zenon, <1>3 DEF CountPending, BecomeReady, AwaitExpiry, Wake, Goto, Dies
<1>4. CASE RecoverExpired(w) \/ RecoverStale(w)
  BY Zenon, <1>4 DEF RecoverExpired, RecoverStale, Goto
<1>5. CASE ClaimNext(w)
  BY Zenon, <1>5 DEF ClaimNext, Goto
<1>6. CASE ClaimEffect(w)
  BY Zenon, <1>6 DEF ClaimEffect, NextFamily, Busy, Goto
<1>7. CASE Apply(w) \/ CompleteEffect(w) \/ AbandonEffect(w)
  BY Zenon, <1>7 DEF Apply, CompleteEffect, AbandonEffect, NextFamily, Goto
<1>8. CASE CloseClaim(w)
  BY Zenon, <1>8 DEF CloseClaim, Goto
<1>9. CASE Retry(w)
  BY Zenon, <1>9 DEF Retry, Dies
<1> QED
  BY Zenon, <1>1, <1>2, <1>3, <1>4, <1>5, <1>6, <1>7, <1>8, <1>9
     DEF OfWorker, WorkerStep, ReconcileStartedOnce

\* Whoever stands where it stood still knows what it knew.
LEMMA BystanderKnows ==
  ASSUME OutboxTypes, NEW x \in Worker, Knows(x), Kept,
         pc'[x] = pc[x] /\ job'[x] = job[x] /\ family'[x] = family[x]
  PROVE  Knows(x)'
  BY Zenon DEF Knows, Kept, OutboxTypes, PlaceTypes, Claimed, Working

\* What an effect's row becomes, seen from every row.
LEMMA EffectRow ==
  ASSUME RowTypes, NEW w \in Worker, job[w] \in Event, family[w] \in Family,
         NEW st \in {"pending", "applying", "completed"}, NEW owner \in Worker \cup {None}, NEW left,
         SetEffect(w, st, owner, left)
  PROVE  /\ effState' \in [Event -> [Family -> {"pending", "applying", "completed"}]]
         /\ effOwner' \in [Event -> [Family -> Worker \cup {None}]]
         /\ effState'[job[w]][family[w]] = st /\ effOwner'[job[w]][family[w]] = owner
         /\ \A e \in Event, f \in Family : <<e, f>> # <<job[w], family[w]>> =>
              effState'[e][f] = effState[e][f] /\ effOwner'[e][f] = effOwner[e][f]
<1>1. /\ effState' \in [Event -> [Family -> {"pending", "applying", "completed"}]]
      /\ effState'[job[w]][family[w]] = st
      /\ \A e \in Event, f \in Family : <<e, f>> # <<job[w], family[w]>> => effState'[e][f] = effState[e][f]
  BY Zenon DEF RowTypes, SetEffect
<1>2. /\ effOwner' \in [Event -> [Family -> Worker \cup {None}]]
      /\ effOwner'[job[w]][family[w]] = owner
      /\ \A e \in Event, f \in Family : <<e, f>> # <<job[w], family[w]>> => effOwner'[e][f] = effOwner[e][f]
  BY Zenon DEF RowTypes, SetEffect
<1> QED
  BY Zenon, <1>1, <1>2

\* What an event's row becomes.
LEMMA EventRow ==
  ASSUME RowTypes, NEW w \in Worker, job[w] \in Event,
         NEW st \in {"none", "pending", "processing", "completed"}, NEW owner \in Worker \cup {None}, NEW left,
         SetEvent(w, st, owner, left)
  PROVE  /\ evState' \in [Event -> {"none", "pending", "processing", "completed"}]
         /\ evOwner' \in [Event -> Worker \cup {None}]
         /\ evState'[job[w]] = st /\ evOwner'[job[w]] = owner
         /\ \A e \in Event : e # job[w] => evState'[e] = evState[e] /\ evOwner'[e] = evOwner[e]
  BY Zenon DEF RowTypes, SetEvent

\* Steps that touch no row.
LEMMA QuietRows ==
  ASSUME RowsInv, UNCHANGED <<evState, evOwner, effState, effOwner, applied>>
  PROVE  RowsInv' /\ Kept
  BY Zenon DEF RowsInv, RowTypes, WaitingIsFree, CompletedMeansApplied, Kept

\* Steps that touch the rows of events only, and complete none.
LEMMA EventSteps ==
  ASSUME RowsInv, UNCHANGED <<effState, effOwner, applied>>,
         evState' \in [Event -> {"none", "pending", "processing", "completed"}],
         evOwner' \in [Event -> Worker \cup {None}],
         \A e \in Event : evState'[e] \in {"none", "pending"} => evOwner'[e] = None,
         \A e \in Event : evState[e] = "completed" => evState'[e] = "completed",
         \A e \in Event : evState[e] # "none" => evState'[e] # "none",
         \A e \in Event : evState'[e] = "completed" => \A f \in Family : effState[e][f] = "completed"
  PROVE  RowsInv' /\ Kept
  BY Zenon DEF RowsInv, RowTypes, WaitingIsFree, CompletedMeansApplied, Kept

\* Steps that touch the rows of effects only, and complete none that is not applied.
LEMMA EffectSteps ==
  ASSUME RowsInv, UNCHANGED <<evState, evOwner, applied>>,
         effState' \in [Event -> [Family -> {"pending", "applying", "completed"}]],
         effOwner' \in [Event -> [Family -> Worker \cup {None}]],
         \A e \in Event, f \in Family : effState'[e][f] = "pending" => effOwner'[e][f] = None,
         \A e \in Event, f \in Family : effState[e][f] = "completed" => effState'[e][f] = "completed",
         \A e \in Event, f \in Family : effState'[e][f] = "completed" => <<e, f>> \in applied
  PROVE  RowsInv' /\ Kept
  BY Zenon DEF RowsInv, RowTypes, WaitingIsFree, CompletedMeansApplied, Kept

\* The rows after a step of a worker.
LEMMA WorkerRows ==
  ASSUME OutboxInv, NEW w \in Worker, OfWorker(w)
  PROVE  RowsInv' /\ Kept
<1> USE DEF OutboxInv
<1>0. RowTypes /\ PlaceTypes /\ Knows(w) /\ pc[w] \in Labels /\ family[w] \in Family
  BY Zenon DEF RowsInv, PlaceTypes
<1>1. CASE StartWorker(w) \/ ApplyFails(w) \/ Crash(w) \/ Renew(w) \/ RenewEffect(w)
  BY Zenon, <1>1, QuietRows DEF StartWorker, ApplyFails, Crash, Renew, RenewEffect, evVars, effVars
<1>2. CASE CountPending(w) \/ AwaitExpiry(w) \/ Wake(w)
  BY Zenon, <1>2, QuietRows DEF CountPending, BecomeReady, AwaitExpiry, Wake, evVars, effVars
<1>3. CASE RecoverExpired(w)
  <2>1. UNCHANGED <<effState, effOwner, applied>>
    BY Zenon, <1>3 DEF RecoverExpired, effVars
  <2>2. \A e \in Event : \/ ExpiredClaim(e) /\ evState'[e] = "pending" /\ evOwner'[e] = None
                         \/ evState'[e] = evState[e] /\ evOwner'[e] = evOwner[e]
    BY Zenon, <1>3 DEF RecoverExpired
  <2>3. /\ evState' \in [Event -> {"none", "pending", "processing", "completed"}]
        /\ evOwner' \in [Event -> Worker \cup {None}]
    BY Zenon, <1>0, <1>3 DEF RecoverExpired, RowTypes
  <2> QED
    BY Zenon, <2>1, <2>2, <2>3, EventSteps DEF RowsInv, WaitingIsFree, CompletedMeansApplied, ExpiredClaim
<1>4. CASE RecoverStale(w)
  <2>1. UNCHANGED <<evState, evOwner, applied>>
    BY Zenon, <1>4 DEF RecoverStale, evVars
  <2>2. \A e \in Event, f \in Family :
          \/ StaleEffect(e, f) /\ effState'[e][f] = "pending" /\ effOwner'[e][f] = None
          \/ effState'[e][f] = effState[e][f] /\ effOwner'[e][f] = effOwner[e][f]
    BY Zenon, <1>4 DEF RecoverStale
  <2>3. /\ effState' \in [Event -> [Family -> {"pending", "applying", "completed"}]]
        /\ effOwner' \in [Event -> [Family -> Worker \cup {None}]]
    BY Zenon, <1>0, <1>4 DEF RecoverStale, RowTypes
  <2>4. \A e \in Event, f \in Family : effState'[e][f] = "pending" => effOwner'[e][f] = None
    BY ZenonT(40), <2>2 DEF RowsInv, WaitingIsFree
  <2>5. \A e \in Event, f \in Family : effState[e][f] = "completed" <=> effState'[e][f] = "completed"
    BY Zenon, <2>2 DEF StaleEffect
  <2>6. \A e \in Event, f \in Family : effState'[e][f] = "completed" => <<e, f>> \in applied
    BY Zenon, <2>5 DEF RowsInv, CompletedMeansApplied
  <2> QED
    BY Zenon, <2>1, <2>3, <2>4, <2>5, <2>6, EffectSteps
<1>5. CASE ClaimNext(w)
  <2>1. UNCHANGED <<effState, effOwner, applied>>
    BY Zenon, <1>5 DEF ClaimNext, effVars
  <2>2. CASE UNCHANGED evVars
    BY Zenon, <2>1, <2>2, QuietRows DEF evVars
  <2>3. CASE \E e \in Event : /\ evState[e] = "pending"
                              /\ evState' = [evState EXCEPT ![e] = "processing"]
                              /\ evOwner' = [evOwner EXCEPT ![e] = w]
    <3>1. PICK e \in Event : /\ evState[e] = "pending"
                             /\ evState' = [evState EXCEPT ![e] = "processing"]
                             /\ evOwner' = [evOwner EXCEPT ![e] = w]
      BY Zenon, <2>3
    <3>2. /\ evState' \in [Event -> {"none", "pending", "processing", "completed"}]
          /\ evOwner' \in [Event -> Worker \cup {None}]
          /\ evState'[e] = "processing"
          /\ \A x \in Event : x # e => evState'[x] = evState[x] /\ evOwner'[x] = evOwner[x]
      BY Zenon, <1>0, <3>1 DEF RowTypes
    <3>3. \A x \in Event : evState'[x] \in {"none", "pending"} => evOwner'[x] = None
      BY Zenon, <3>2 DEF RowsInv, WaitingIsFree
    <3>4. \A x \in Event : evState'[x] = "completed" => \A f \in Family : effState[x][f] = "completed"
      BY Zenon, <3>2 DEF RowsInv, CompletedMeansApplied
    <3> QED
      BY Zenon, <2>1, <3>1, <3>2, <3>3, <3>4, EventSteps
  <2> QED
    BY Zenon, <1>5, <2>2, <2>3 DEF ClaimNext
<1>6. CASE ClaimEffect(w)
  <2>1. UNCHANGED <<evState, evOwner, applied>> /\ job[w] \in Event
    BY Zenon, <1>0, <1>6 DEF ClaimEffect, evVars, Knows, Claimed, Working
  <2>2. CASE UNCHANGED effVars
    BY Zenon, <2>1, <2>2, QuietRows DEF effVars
  <2>3. CASE Claimable(job[w], family[w]) /\ SetEffect(w, "applying", w, Lease)
    <3>1. effState[job[w]][family[w]] # "completed"
      BY Zenon, <2>3 DEF Claimable, StaleEffect
    <3>2. /\ effState' \in [Event -> [Family -> {"pending", "applying", "completed"}]]
          /\ effOwner' \in [Event -> [Family -> Worker \cup {None}]]
          /\ effState'[job[w]][family[w]] = "applying" /\ effOwner'[job[w]][family[w]] = w
          /\ \A e \in Event, f \in Family : <<e, f>> # <<job[w], family[w]>> =>
               effState'[e][f] = effState[e][f] /\ effOwner'[e][f] = effOwner[e][f]
      BY Zenon, <1>0, <2>1, <2>3, EffectRow
    <3>3. \A e \in Event, f \in Family : effState'[e][f] = "pending" => effOwner'[e][f] = None
      BY <3>1, <3>2 DEF RowsInv, WaitingIsFree
    <3>4. \A e \in Event, f \in Family : effState[e][f] = "completed" => effState'[e][f] = "completed"
      BY Zenon, <3>1, <3>2
    <3>5. \A e \in Event, f \in Family : effState'[e][f] = "completed" => <<e, f>> \in applied
      BY Zenon, <3>1, <3>2 DEF RowsInv, CompletedMeansApplied
    <3> QED
      BY Zenon, <2>1, <3>1, <3>2, <3>3, <3>4, <3>5, EffectSteps
  <2> QED
    BY Zenon, <1>6, <2>2, <2>3 DEF ClaimEffect
<1>7. CASE Apply(w)
  BY Zenon, <1>7 DEF Apply, RowsInv, RowTypes, WaitingIsFree, CompletedMeansApplied, Kept, evVars, effVars
<1>8. CASE CompleteEffect(w)
  <2>1. UNCHANGED <<evState, evOwner, applied>> /\ job[w] \in Event /\ <<job[w], family[w]>> \in applied
    BY Zenon, <1>0, <1>8 DEF CompleteEffect, evVars, Knows, Claimed, Working
  <2>2. CASE UNCHANGED effVars
    BY Zenon, <2>1, <2>2, QuietRows DEF effVars
  <2>3. CASE SetEffect(w, "completed", None, 0)
    <3>1. /\ effState' \in [Event -> [Family -> {"pending", "applying", "completed"}]]
          /\ effOwner' \in [Event -> [Family -> Worker \cup {None}]]
          /\ effState'[job[w]][family[w]] = "completed" /\ effOwner'[job[w]][family[w]] = None
          /\ \A e \in Event, f \in Family : <<e, f>> # <<job[w], family[w]>> =>
               effState'[e][f] = effState[e][f] /\ effOwner'[e][f] = effOwner[e][f]
      BY Zenon, <1>0, <2>1, <2>3, EffectRow
    <3>3. ASSUME NEW e \in Event, NEW f \in Family PROVE effState'[e][f] = "pending" => effOwner'[e][f] = None
      <4>1. CASE e = job[w] /\ f = family[w]
        BY Zenon, <3>1, <4>1
      <4>2. CASE ~(e = job[w] /\ f = family[w])
        BY <3>1, <4>2 DEF RowsInv, WaitingIsFree
      <4> QED
        BY Zenon, <4>1, <4>2
    <3>4. \A e \in Event, f \in Family : effState[e][f] = "completed" => effState'[e][f] = "completed"
      BY Zenon, <3>1
    <3>5. \A e \in Event, f \in Family : effState'[e][f] = "completed" => <<e, f>> \in applied
      BY Zenon, <2>1, <3>1 DEF RowsInv, CompletedMeansApplied
    <3> QED
      BY Zenon, <2>1, <3>1, <3>3, <3>4, <3>5, EffectSteps
  <2> QED
    BY Zenon, <1>8, <2>2, <2>3 DEF CompleteEffect
<1>9. CASE AbandonEffect(w)
  <2>1. UNCHANGED <<evState, evOwner, applied>> /\ job[w] \in Event
    BY Zenon, <1>0, <1>9 DEF AbandonEffect, evVars, Knows, Claimed, Working
  <2>2. CASE UNCHANGED effVars
    BY Zenon, <2>1, <2>2, QuietRows DEF effVars
  <2>3. CASE HoldsEffect(w) /\ SetEffect(w, "pending", None, 0)
    <3>1. /\ effState' \in [Event -> [Family -> {"pending", "applying", "completed"}]]
          /\ effOwner' \in [Event -> [Family -> Worker \cup {None}]]
          /\ effState'[job[w]][family[w]] = "pending" /\ effOwner'[job[w]][family[w]] = None
          /\ \A e \in Event, f \in Family : <<e, f>> # <<job[w], family[w]>> =>
               effState'[e][f] = effState[e][f] /\ effOwner'[e][f] = effOwner[e][f]
      BY Zenon, <1>0, <2>1, <2>3, EffectRow
    <3>2. effState[job[w]][family[w]] # "completed"
      BY Zenon, <2>3 DEF HoldsEffect
    <3>3. \A e \in Event, f \in Family : effState'[e][f] = "pending" => effOwner'[e][f] = None
      BY <3>1, <3>2 DEF RowsInv, WaitingIsFree
    <3>4. \A e \in Event, f \in Family : effState[e][f] = "completed" => effState'[e][f] = "completed"
      BY Zenon, <3>1, <3>2
    <3>5. \A e \in Event, f \in Family : effState'[e][f] = "completed" => <<e, f>> \in applied
      BY Zenon, <3>1, <3>2 DEF RowsInv, CompletedMeansApplied
    <3> QED
      BY Zenon, <2>1, <3>1, <3>2, <3>3, <3>4, <3>5, EffectSteps
  <2> QED
    BY Zenon, <1>9, <2>2, <2>3 DEF AbandonEffect
<1>10. CASE CloseClaim(w)
  <2>1. UNCHANGED <<effState, effOwner, applied>> /\ job[w] \in Event
    BY Zenon, <1>0, <1>10 DEF CloseClaim, effVars, Knows, Claimed
  <2>2. CASE UNCHANGED evVars
    BY Zenon, <2>1, <2>2, QuietRows DEF evVars
  <2>3. CASE pc[w] = "complete" /\ HoldsClaim(w) /\ SetEvent(w, "completed", None, 0)
    <3>1. \A f \in Family : effState[job[w]][f] = "completed"
      BY Zenon, <1>0, <2>3 DEF Knows
    <3>2. /\ evState' \in [Event -> {"none", "pending", "processing", "completed"}]
          /\ evOwner' \in [Event -> Worker \cup {None}]
          /\ evState'[job[w]] = "completed" /\ evOwner'[job[w]] = None
          /\ \A e \in Event : e # job[w] => evState'[e] = evState[e] /\ evOwner'[e] = evOwner[e]
      BY Zenon, <1>0, <2>1, <2>3, EventRow
    <3>3. \A e \in Event : evState'[e] \in {"none", "pending"} => evOwner'[e] = None
      BY Zenon, <3>2 DEF RowsInv, WaitingIsFree
    <3>4. \A e \in Event : evState'[e] = "completed" => \A f \in Family : effState[e][f] = "completed"
      BY Zenon, <3>1, <3>2 DEF RowsInv, CompletedMeansApplied
    <3> QED
      BY Zenon, <2>1, <3>2, <3>3, <3>4, EventSteps
  <2>4. CASE HoldsClaim(w) /\ DeferUntil(w)
    <3>1. /\ evState' \in [Event -> {"none", "pending", "processing", "completed"}]
          /\ evOwner' \in [Event -> Worker \cup {None}]
          /\ evState'[job[w]] = "processing" /\ evOwner'[job[w]] = w
          /\ \A e \in Event : e # job[w] => evState'[e] = evState[e] /\ evOwner'[e] = evOwner[e]
      BY Zenon, <1>0, <2>1, <2>4, EventRow DEF DeferUntil
    <3>2. evState[job[w]] = "processing"
      BY Zenon, <2>4 DEF HoldsClaim
    <3>3. \A e \in Event : evState'[e] \in {"none", "pending"} => evOwner'[e] = None
      BY Zenon, <3>1 DEF RowsInv, WaitingIsFree
    <3>4. \A e \in Event : evState'[e] = "completed" => \A f \in Family : effState[e][f] = "completed"
      BY ZenonT(40), <3>1 DEF RowsInv, CompletedMeansApplied
    <3> QED
      BY Zenon, <2>1, <3>1, <3>2, <3>3, <3>4, EventSteps
  <2> QED
    BY Zenon, <1>10, <2>2, <2>3, <2>4 DEF CloseClaim
<1>11. CASE Retry(w)
  <2>1. UNCHANGED <<effState, effOwner, applied>> /\ job[w] \in Event
    BY Zenon, <1>0, <1>11 DEF Retry, effVars, Knows, Claimed
  <2>2. CASE UNCHANGED evVars
    BY Zenon, <2>1, <2>2, QuietRows DEF evVars
  <2>3. CASE HoldsClaim(w) /\ RetryPending(w)
    <3>1. /\ evState' \in [Event -> {"none", "pending", "processing", "completed"}]
          /\ evOwner' \in [Event -> Worker \cup {None}]
          /\ evState'[job[w]] = "pending" /\ evOwner'[job[w]] = None
          /\ \A e \in Event : e # job[w] => evState'[e] = evState[e] /\ evOwner'[e] = evOwner[e]
      BY Zenon, <1>0, <2>1, <2>3, EventRow DEF RetryPending
    <3>2. evState[job[w]] = "processing"
      BY Zenon, <2>3 DEF HoldsClaim
    <3>3. \A e \in Event : evState'[e] \in {"none", "pending"} => evOwner'[e] = None
      BY Zenon, <3>1 DEF RowsInv, WaitingIsFree
    <3>4. \A e \in Event : evState'[e] = "completed" => \A f \in Family : effState[e][f] = "completed"
      BY ZenonT(40), <3>1 DEF RowsInv, CompletedMeansApplied
    <3> QED
      BY Zenon, <2>1, <3>1, <3>2, <3>3, <3>4, EventSteps
  <2> QED
    BY Zenon, <1>11, <2>2, <2>3 DEF Retry
<1> QED
  BY Zenon, <1>1, <1>2, <1>3, <1>4, <1>5, <1>6, <1>7, <1>8, <1>9, <1>10, <1>11
     DEF OfWorker, WorkerStep, ReconcileStartedOnce

\* Where a step of its own leaves a worker, and what it knows there.
LEMMA WorkerPlaces ==
  ASSUME OutboxInv, NEW w \in Worker, OfWorker(w), Kept
  PROVE  PlaceTypes' /\ Knows(w)'
<1> USE DEF OutboxInv
<1>0. RowTypes /\ PlaceTypes /\ Knows(w) /\ family[w] \in Family
  BY Zenon DEF RowsInv, PlaceTypes
<1>1. CASE StartWorker(w)
  BY Zenon, <1>0, <1>1 DEF StartWorker, Goto, PlaceTypes, Labels, Knows, Claimed, Working, Unfinished
<1>2. CASE ApplyFails(w)
  BY Zenon, <1>0, <1>2 DEF ApplyFails, Goto, PlaceTypes, Labels, Knows, Claimed, Working, effVars, evVars
<1>3. CASE Crash(w) \/ Retry(w)
  BY Zenon, <1>0, <1>3, DeadKnows DEF Crash, Retry
<1>4. CASE Renew(w)
  <2>1. CASE UNCHANGED <<workerVars, effVars, applied>>
    BY Zenon, <1>0, <2>1 DEF workerVars, effVars, PlaceTypes, Knows
  <2> QED
    BY Zenon, <1>0, <1>4, <2>1, DeadKnows DEF Renew
<1>5. CASE RenewEffect(w)
  <2>1. CASE UNCHANGED <<workerVars, effState, applied>>
    BY Zenon, <1>0, <2>1 DEF workerVars, PlaceTypes, Knows
  <2> QED
    BY Zenon, <1>0, <1>5, <2>1, DeadKnows DEF RenewEffect
<1>6. CASE CountPending(w) \/ Wake(w)
  BY ZenonT(40), <1>0, <1>6 DEF CountPending, BecomeReady, Wake, Goto, PlaceTypes, Labels, Knows, Claimed, Working
<1>7. CASE AwaitExpiry(w)
  <2>1. CASE Goto(w, "asleep") /\ UNCHANGED <<mode, job, family, backlog>>
    BY Zenon, <1>0, <2>1 DEF Goto, PlaceTypes, Labels, Knows, Claimed, Working
  <2> QED
    BY Zenon, <1>0, <1>7, <2>1, DeadKnows DEF AwaitExpiry
<1>8. CASE RecoverExpired(w) \/ RecoverStale(w)
  BY Zenon, <1>0, <1>8 DEF RecoverExpired, RecoverStale, Goto, PlaceTypes, Labels, Knows, Claimed, Working
<1>9. CASE ClaimNext(w)
  <2>1. CASE \E to \in {"drained", "waiting"} : Goto(w, to) /\ UNCHANGED <<mode, job, family, backlog>>
    BY <1>0, <2>1 DEF Goto, PlaceTypes, Labels, Knows, Claimed, Working
  <2>2. CASE \E e \in Event : /\ job' = [job EXCEPT ![w] = e]
                              /\ family' = [family EXCEPT ![w] = 1]
                              /\ Goto(w, "effect") /\ UNCHANGED <<mode, backlog>>
    <3>1. PlaceTypes' /\ pc'[w] = "effect" /\ job'[w] \in Event /\ family'[w] = 1
      BY ZenonT(40), <1>0, <2>2, FirstFamily DEF Goto, PlaceTypes, Labels, Claimed, Working
    <3>2. \A f \in Family : ~(f < 1)
      BY DEF Family
    <3> QED
      BY Zenon, <3>1, <3>2 DEF Knows
  <2> QED
    BY Zenon, <1>9, <2>1, <2>2 DEF ClaimNext
<1>10. ASSUME pc[w] \in Working, job' = job, mode' = mode, backlog' = backlog,
              effState'[job[w]][family[w]] = "completed", NextFamily(w)
       PROVE  PlaceTypes' /\ Knows(w)'
  <2>1. /\ PlaceTypes'
        /\ \/ pc'[w] = "complete" /\ family[w] = MaxFamily
           \/ pc'[w] = "effect" /\ family'[w] = family[w] + 1
    BY Zenon, <1>0, <1>10, PassedFamily DEF PlaceTypes
  <2>2. job[w] \in Event /\ \A f \in Family : f <= family[w] => effState'[job[w]][f] = "completed"
    <3>1. job[w] \in Event /\ \A f \in Family : f < family[w] => effState'[job[w]][f] = "completed"
      BY Zenon, <1>0, <1>10 DEF Knows, Kept, Claimed
    <3>2. \A f \in Family : f <= family[w] => f < family[w] \/ f = family[w]
      BY <1>0 DEF Family
    <3> QED
      BY Zenon, <1>10, <3>1, <3>2
  <2>3. CASE pc'[w] = "complete" /\ family[w] = MaxFamily
    <3>1. \A f \in Family : f <= family[w]
      BY <2>3, OutboxConstants DEF Family
    <3> QED
      BY Zenon, <1>10, <2>1, <2>2, <2>3, <3>1 DEF Knows, Working
  <2>4. CASE pc'[w] = "effect" /\ family'[w] = family[w] + 1
    <3>1. \A f \in Family : f < family'[w] => f <= family[w]
      BY <1>0, <2>4 DEF Family
    <3> QED
      BY Zenon, <1>10, <2>1, <2>2, <2>4, <3>1 DEF Knows
  <2> QED
    BY Zenon, <2>1, <2>3, <2>4
<1>11. CASE ClaimEffect(w)
  <2>1. pc[w] \in Working /\ job' = job /\ mode' = mode /\ backlog' = backlog /\ job[w] \in Event
    BY Zenon, <1>0, <1>11 DEF ClaimEffect, Working, Knows, Claimed
  <2>2. CASE effState[job[w]][family[w]] = "completed" /\ NextFamily(w) /\ UNCHANGED <<effVars, wait>>
    BY Zenon, <1>10, <2>1, <2>2 DEF effVars
  <2>3. CASE \E to \in {"apply", "defer"} : Goto(w, to) /\ UNCHANGED family
    <3>1. PICK to \in {"apply", "defer"} : pc' = [pc EXCEPT ![w] = to] /\ family' = family
      BY Zenon, <2>3 DEF Goto
    <3>2. PlaceTypes'
      BY Zenon, <1>0, <2>1, <3>1 DEF PlaceTypes, Labels, Claimed, Working
    <3>3. pc'[w] = to /\ job'[w] = job[w] /\ family'[w] = family[w]
      BY Zenon, <1>0, <2>1, <3>1 DEF PlaceTypes
    <3> QED
      BY Zenon, <1>0, <2>1, <3>2, <3>3 DEF Knows, Claimed, Working, Kept
  <2> QED
    BY Zenon, <1>11, <2>2, <2>3 DEF ClaimEffect, Busy
<1>12. CASE Apply(w)
  BY Zenon, <1>0, <1>12 DEF Apply, Goto, PlaceTypes, Labels, Knows, Claimed, Working, effVars
<1>13. CASE CompleteEffect(w)
  <2>1. pc[w] \in Working /\ job' = job /\ mode' = mode /\ backlog' = backlog /\ job[w] \in Event
    BY Zenon, <1>0, <1>13 DEF CompleteEffect, Working, Knows, Claimed
  <2>2. CASE SetEffect(w, "completed", None, 0) /\ NextFamily(w)
    BY Zenon, <1>0, <1>10, <2>1, <2>2, EffectRow
  <2>3. CASE Goto(w, "retry") /\ UNCHANGED family
    BY Zenon, <1>0, <2>1, <2>3 DEF Goto, PlaceTypes, Labels, Knows, Claimed, Working
  <2> QED
    BY Zenon, <1>13, <2>2, <2>3 DEF CompleteEffect
<1>14. CASE AbandonEffect(w)
  <2>1. job[w] \in Event
    BY Zenon, <1>0, <1>14 DEF AbandonEffect, Working, Knows, Claimed
  <2> QED
    BY Zenon, <1>0, <1>14, <2>1 DEF AbandonEffect, Goto, PlaceTypes, Labels, Knows, Claimed, Working
<1>15. CASE CloseClaim(w)
  <2>1. job[w] \in Event
    BY Zenon, <1>0, <1>15 DEF CloseClaim, Knows, Claimed
  <2>2. CASE Goto(w, "claim") /\ job' = [job EXCEPT ![w] = None] /\ family' = [family EXCEPT ![w] = 1]
             /\ UNCHANGED <<mode, backlog>>
    BY Zenon, <1>0, <2>2, FirstFamily DEF Goto, PlaceTypes, Labels, Knows, Claimed, Working
  <2>3. CASE Goto(w, "retry") /\ UNCHANGED <<job, family, mode, backlog>>
    BY Zenon, <1>0, <2>1, <2>3 DEF Goto, PlaceTypes, Labels, Knows, Claimed, Working
  <2> QED
    BY Zenon, <1>15, <2>2, <2>3 DEF CloseClaim
<1> QED
  BY Zenon, <1>1, <1>2, <1>3, <1>4, <1>5, <1>6, <1>7, <1>8, <1>9, <1>11, <1>12, <1>13, <1>14, <1>15
     DEF OfWorker, WorkerStep, ReconcileStartedOnce

\* What a step of a worker does to the backlogs: it leaves one alone, drops it, takes
\* the unfinished events at a start, or finds that nothing is unfinished.
LEMMA Backlogs ==
  ASSUME OutboxInv, NEW w \in Worker, OfWorker(w), NEW x \in Worker
  PROVE  \/ mode'[x] = mode[x] /\ backlog'[x] = backlog[x]
         \/ backlog'[x] = {}
         \/ mode'[x] = "startup" /\ backlog'[x] = Unfinished /\ evState' = evState
         \/ Unfinished = {} /\ backlog'[x] = backlog[x] /\ evState' = evState
<1> USE DEF OutboxInv, PlaceTypes
<1>1. CASE StartWorker(w)
  BY Zenon, <1>1 DEF StartWorker, evVars
<1>2. CASE CountPending(w)
  BY Zenon, <1>2 DEF CountPending, BecomeReady, Drained, evVars
<1>3. CASE Crash(w) \/ Retry(w) \/ Renew(w) \/ RenewEffect(w) \/ AwaitExpiry(w)
  BY Zenon, <1>3 DEF Crash, Retry, Renew, RenewEffect, AwaitExpiry, Dies, workerVars
<1>4. CASE ApplyFails(w) \/ Wake(w) \/ RecoverExpired(w) \/ RecoverStale(w) \/ ClaimNext(w)
  BY Zenon, <1>4 DEF ApplyFails, Wake, RecoverExpired, RecoverStale, ClaimNext
<1>5. CASE ClaimEffect(w) \/ Apply(w) \/ CompleteEffect(w) \/ AbandonEffect(w) \/ CloseClaim(w)
  BY Zenon, <1>5 DEF ClaimEffect, Apply, CompleteEffect, AbandonEffect, CloseClaim
<1> QED
  BY Zenon, <1>1, <1>2, <1>3, <1>4, <1>5 DEF OfWorker, WorkerStep, ReconcileStartedOnce

\* Every step keeps the invariant.
LEMMA OutboxInvStep == OutboxInv /\ [OutboxNext]_outboxVars => OutboxInv'
<1> SUFFICES ASSUME OutboxInv, [OutboxNext]_outboxVars PROVE OutboxInv'
  BY Zenon
<1>0. OutboxTypes /\ RowsInv
  BY Zenon DEF OutboxInv, RowsInv, OutboxTypes
<1>1. ASSUME NEW w \in Worker, OfWorker(w) PROVE OutboxInv'
  <2>1. RowsInv' /\ Kept
    BY Zenon, <1>1, WorkerRows
  <2>2. PlaceTypes' /\ Knows(w)'
    BY Zenon, <1>1, <2>1, WorkerPlaces
  <2>3. ASSUME NEW x \in Worker PROVE Knows(x)'
    <3>1. CASE x # w
      BY Zenon, <1>0, <1>1, <2>1, <3>1, OthersStand, BystanderKnows DEF OutboxInv
    <3> QED
      BY Zenon, <2>2, <3>1
  <2>4. BacklogInv'
    <3> SUFFICES ASSUME NEW x \in Worker, NEW e \in backlog'[x]
                 PROVE  evState'[e] # "none" /\ (mode'[x] = "periodic" => evState'[e] = "completed")
      BY Zenon DEF BacklogInv, ReadyMeansDrained
    <3>1. e \in Event
      BY Zenon, <2>2 DEF PlaceTypes
    <3>2. CASE mode'[x] = mode[x] /\ backlog'[x] = backlog[x]
      BY Zenon, <2>1, <3>1, <3>2 DEF OutboxInv, BacklogInv, ReadyMeansDrained, Kept
    <3>3. CASE mode'[x] = "startup" /\ backlog'[x] = Unfinished /\ evState' = evState
      BY Zenon, <3>3 DEF Unfinished
    <3>4. CASE Unfinished = {} /\ backlog'[x] = backlog[x] /\ evState' = evState
      <4>1. evState[e] # "none" /\ evState[e] \notin {"pending", "processing"}
        BY Zenon, <3>1, <3>4 DEF OutboxInv, BacklogInv, Unfinished
      <4> QED
        BY Zenon, <1>0, <3>1, <3>4, <4>1 DEF OutboxTypes, RowTypes
    <3> QED
      BY Zenon, <1>1, <3>2, <3>3, <3>4, Backlogs
  <2> QED
    BY Zenon, <2>1, <2>2, <2>3, <2>4 DEF OutboxInv
<1>2. ASSUME RowsInv', Kept, UNCHANGED <<mode, pc, job, family, backlog>> PROVE OutboxInv'
  <2>1. ASSUME NEW x \in Worker PROVE Knows(x)'
    BY Zenon, <1>0, <1>2, BystanderKnows DEF OutboxInv
  <2>2. PlaceTypes'
    BY Zenon, <1>2 DEF OutboxInv, PlaceTypes
  <2>3. BacklogInv'
    <3>1. \A x \in Worker : backlog[x] \subseteq Event
      BY Zenon DEF OutboxInv, PlaceTypes
    <3> QED
      BY Zenon, <1>2, <3>1 DEF OutboxInv, BacklogInv, ReadyMeansDrained, Kept
  <2> QED
    BY Zenon, <1>2, <2>1, <2>2, <2>3 DEF OutboxInv
<1>3. ASSUME NEW e \in Event, Enqueue(e) PROVE OutboxInv'
  <2>1. /\ UNCHANGED <<evOwner, effState, effOwner, applied, mode, pc, job, family, backlog>>
        /\ evState[e] = "none" /\ evState' = [evState EXCEPT ![e] = "pending"]
    BY Zenon, <1>3 DEF Enqueue, effVars, workerVars
  <2>2. RowsInv' /\ Kept
    BY Zenon, <1>0, <2>1, EventSteps DEF RowsInv, RowTypes, WaitingIsFree, CompletedMeansApplied
  <2> QED
    BY Zenon, <1>2, <2>1, <2>2
<1>4. CASE Tick \/ UNCHANGED outboxVars
  <2>1. UNCHANGED <<evState, evOwner, effState, effOwner, applied, mode, pc, job, family, backlog>>
    BY Zenon, <1>4 DEF Tick, outboxVars, evVars, effVars, workerVars
  <2> QED
    BY Zenon, <1>0, <1>2, <2>1, QuietRows
<1> QED
  BY Zenon, <1>1, <1>3, <1>4 DEF OutboxNext, OfWorker

\* LiveLeaseHonoured, of one step.
Honoured ==
    /\ \A e \in Event, w \in Worker :
          evOwner[e] = w /\ evLeft[e] > 0 /\ evOwner'[e] # w =>
             job[w] = e /\ pc[w] \in {"complete", "retry"}
    /\ \A e \in Event, f \in Family, w \in Worker :
          effOwner[e][f] = w /\ effLeft[e][f] > 0 /\ effOwner'[e][f] # w =>
             job[w] = e /\ family[w] = f /\ pc[w] \in {"applied", "abandon"}

\* A step of a worker takes only what is free or expired, and gives up only its own.
LEMMA WorkerHonours ==
  ASSUME OutboxInv, NEW w \in Worker, OfWorker(w)
  PROVE  Honoured
<1> USE DEF OutboxInv
<1>0. /\ RowTypes /\ PlaceTypes /\ Knows(w) /\ family[w] \in Family /\ WaitingIsFree
      /\ \A x \in Worker : x # None
  BY Zenon, OutboxConstants DEF RowsInv, PlaceTypes, None
<1>1. ASSUME UNCHANGED <<evOwner, effOwner>> PROVE Honoured
  BY Zenon, <1>1 DEF Honoured
<1>2. CASE StartWorker(w) \/ ApplyFails(w) \/ Crash(w) \/ Renew(w) \/ RenewEffect(w)
  BY Zenon, <1>1, <1>2 DEF StartWorker, ApplyFails, Crash, Renew, RenewEffect, evVars, effVars
<1>3. CASE CountPending(w) \/ AwaitExpiry(w) \/ Wake(w) \/ Apply(w)
  BY Zenon, <1>1, <1>3 DEF CountPending, BecomeReady, AwaitExpiry, Wake, Apply, evVars, effVars
<1>4. CASE RecoverExpired(w)
  <2>1. effOwner' = effOwner /\ \A e \in Event : evOwner'[e] = evOwner[e] \/ evLeft[e] = 0
    BY Zenon, <1>4 DEF RecoverExpired, ExpiredClaim, effVars
  <2> QED
    BY <2>1 DEF Honoured
<1>5. CASE RecoverStale(w)
  <2>1. evOwner' = evOwner /\ \A e \in Event, f \in Family : effOwner'[e][f] = effOwner[e][f] \/ effLeft[e][f] = 0
    BY Zenon, <1>5 DEF RecoverStale, StaleEffect, evVars
  <2> QED
    BY <2>1 DEF Honoured
<1>6. CASE ClaimNext(w)
  <2>1. effOwner' = effOwner
    BY Zenon, <1>6 DEF ClaimNext, effVars
  <2>2. \A e \in Event : evOwner'[e] = evOwner[e] \/ evOwner[e] = None
    BY Zenon, <1>0, <1>6 DEF ClaimNext, evVars, WaitingIsFree, RowTypes
  <2> QED
    BY Zenon, <1>0, <2>1, <2>2 DEF Honoured
<1>7. ASSUME evOwner' = evOwner, job[w] \in Event, NEW st \in {"pending", "applying", "completed"},
             NEW owner \in Worker \cup {None}, NEW left, SetEffect(w, st, owner, left),
             \/ Claimable(job[w], family[w])
             \/ HoldsEffect(w) /\ pc[w] \in {"applied", "abandon"}
      PROVE  Honoured
  <2>1. ASSUME NEW e \in Event, NEW f \in Family, ~(e = job[w] /\ f = family[w])
        PROVE  effOwner'[e][f] = effOwner[e][f]
    BY Zenon, <1>0, <1>7, <2>1 DEF SetEffect, RowTypes
  <2>2. CASE Claimable(job[w], family[w])
    <3>1. effOwner[job[w]][family[w]] = None \/ effLeft[job[w]][family[w]] = 0
      BY Zenon, <1>0, <1>7, <2>2 DEF Claimable, StaleEffect, WaitingIsFree
    <3>2. ASSUME NEW e \in Event, NEW f \in Family, NEW x \in Worker,
                 effOwner[e][f] = x, effLeft[e][f] > 0, effOwner'[e][f] # x
          PROVE  FALSE
      <4>1. e = job[w] /\ f = family[w]
        BY Zenon, <2>1, <3>2
      <4> QED
        BY <1>0, <3>1, <3>2, <4>1
    <3> QED
      BY Zenon, <1>7, <3>2 DEF Honoured
  <2>3. CASE HoldsEffect(w) /\ pc[w] \in {"applied", "abandon"}
    BY <1>7, <2>1, <2>3 DEF Honoured, HoldsEffect
  <2> QED
    BY Zenon, <1>7, <2>2, <2>3
<1>8. CASE ClaimEffect(w)
  <2>1. evOwner' = evOwner /\ job[w] \in Event
    BY Zenon, <1>0, <1>8 DEF ClaimEffect, evVars, Knows, Claimed, Working
  <2>2. CASE Claimable(job[w], family[w]) /\ SetEffect(w, "applying", w, Lease)
    BY Zenon, <1>7, <2>1, <2>2
  <2> QED
    BY Zenon, <1>1, <1>8, <2>1, <2>2 DEF ClaimEffect, effVars
<1>9. CASE CompleteEffect(w)
  <2>1. evOwner' = evOwner /\ job[w] \in Event /\ pc[w] = "applied"
    BY Zenon, <1>0, <1>9 DEF CompleteEffect, evVars, Knows, Claimed, Working
  <2>2. CASE HoldsEffect(w) /\ SetEffect(w, "completed", None, 0)
    BY Zenon, <1>7, <2>1, <2>2
  <2> QED
    BY Zenon, <1>1, <1>9, <2>1, <2>2 DEF CompleteEffect, effVars
<1>10. CASE AbandonEffect(w)
  <2>1. evOwner' = evOwner /\ job[w] \in Event /\ pc[w] = "abandon"
    BY Zenon, <1>0, <1>10 DEF AbandonEffect, evVars, Knows, Claimed, Working
  <2>2. CASE HoldsEffect(w) /\ SetEffect(w, "pending", None, 0)
    BY Zenon, <1>7, <2>1, <2>2
  <2> QED
    BY Zenon, <1>1, <1>10, <2>1, <2>2 DEF AbandonEffect, effVars
<1>11. CASE CloseClaim(w)
  <2>1. effOwner' = effOwner /\ job[w] \in Event
    BY Zenon, <1>0, <1>11 DEF CloseClaim, effVars, Knows, Claimed
  <2>2. CASE pc[w] = "complete" /\ HoldsClaim(w) /\ SetEvent(w, "completed", None, 0)
    <3>1. \A e \in Event : evOwner'[e] = evOwner[e] \/ e = job[w]
      BY Zenon, <1>0, <2>1, <2>2, EventRow
    <3> QED
      BY Zenon, <2>1, <2>2, <3>1 DEF Honoured, HoldsClaim
  <2>3. CASE HoldsClaim(w) /\ DeferUntil(w)
    <3>1. \A e \in Event : evOwner'[e] = evOwner[e]
      <4>1. evOwner'[job[w]] = w /\ \A e \in Event : e # job[w] => evOwner'[e] = evOwner[e]
        BY Zenon, <1>0, <2>1, <2>3 DEF RowTypes, DeferUntil, SetEvent
      <4> QED
        BY Zenon, <2>3, <4>1 DEF HoldsClaim
    <3> QED
      BY Zenon, <2>1, <3>1 DEF Honoured
  <2> QED
    BY Zenon, <1>1, <1>11, <2>1, <2>2, <2>3 DEF CloseClaim, evVars
<1>12. CASE Retry(w)
  <2>1. effOwner' = effOwner /\ job[w] \in Event /\ pc[w] = "retry"
    BY Zenon, <1>0, <1>12 DEF Retry, effVars, Knows, Claimed
  <2>2. CASE HoldsClaim(w) /\ RetryPending(w)
    <3>1. \A e \in Event : evOwner'[e] = evOwner[e] \/ e = job[w]
      BY Zenon, <1>0, <2>1, <2>2, EventRow DEF RetryPending
    <3> QED
      BY Zenon, <2>1, <2>2, <3>1 DEF Honoured, HoldsClaim
  <2> QED
    BY Zenon, <1>1, <1>12, <2>1, <2>2 DEF Retry, evVars
<1> QED
  BY Zenon, <1>2, <1>3, <1>4, <1>5, <1>6, <1>8, <1>9, <1>10, <1>11, <1>12
     DEF OfWorker, WorkerStep, ReconcileStartedOnce

LEMMA OutboxHonours == OutboxInv /\ [OutboxNext]_outboxVars => [Honoured]_outboxVars
<1> SUFFICES ASSUME OutboxInv, OutboxNext PROVE Honoured
  BY Zenon
<1>1. CASE Tick \/ \E e \in Event : Enqueue(e)
  BY Zenon, <1>1 DEF Tick, Enqueue, effVars, Honoured
<1> QED
  BY Zenon, <1>1, WorkerHonours DEF OutboxNext, OfWorker

\* However claims expire, are taken over, repeated and interrupted, and however many
\* workers there are: a completed revocation had every effect applied, a worker that
\* reports ready has drained what it found, and a live lease is ended by its holder only.
THEOREM RevocationsAlwaysApplied == OutboxSpec => RevocationsAreApplied
<1>1. OutboxInv => CompletedMeansApplied /\ ReadyMeansDrained
  BY Zenon DEF OutboxInv, RowsInv, BacklogInv
<1>2. OutboxSpec => []OutboxInv
  BY OutboxInvInit, OutboxInvStep, PTL DEF OutboxSpec
<1>3. OutboxSpec => [][Honoured]_outboxVars
  BY <1>2, OutboxHonours, PTL DEF OutboxSpec
<1> QED
  BY <1>1, <1>2, <1>3, PTL DEF RevocationsAreApplied, LiveLeaseHonoured, Honoured

=============================================================================
