-------------------------- MODULE TurnCoordinator --------------------------
(***************************************************************************)
(* TurnCoordinator: the owner of the one household turn and of the safety  *)
(* barrier that every turn ends with.  The barrier stops the robot, ends   *)
(* the turn's tasks and closes its reservations concurrently; the turn is  *)
(* released only when all three are verified, otherwise the household is   *)
(* safety-blocked.                                                         *)
(*                                                                         *)
(* The coordinator's lock is never held across an await, so each section   *)
(* under it is one step.  The three jobs of the barrier are processes of   *)
(* their own.  reconcile_turn is its result: it closes every reservation   *)
(* of the turn, or fails having closed some (ProviderAttempt shows it).    *)
(***************************************************************************)
EXTENDS Naturals, FiniteSets

CONSTANTS
    MaxTurn,
    Task,        \* tasks that a turn's workflow may track
    Attempt,     \* reservations that a turn may make
    MaxTracked,  \* _MAX_TRACKED_ATTEMPTS
    RetryLimit,  \* safety_retry_limit
    MaxRecovery  \* recover_safety_block calls that pass the owner proof

ASSUME CoordinatorConstants ==
    MaxTurn \in Nat /\ MaxTracked \in Nat /\ RetryLimit \in 1..3 /\ MaxRecovery \in Nat

NoTurn == 0
Turn == 1..MaxTurn

VARIABLES
    active, cstate,  \* _active, _state
    last,            \* newest turn identifier in use
    tasks, live,     \* _tasks of the turn; the tasks of the turn that have not ended
    told,            \* tasks that have been cancelled
    speaking,        \* tasks whose playback passed its last accepts_results check
    attempts,        \* _attempts of the turn
    owed,            \* reservations of the turn that are open in the database
    barrier,         \* _run_cancellation_barrier: where it waits
    snapshot,        \* the tasks it cancels and joins
    safety, try,     \* _retry_reachy_safety: "off", "trying", "verified", "failed"; its attempt
    join,            \* _join_tracked: "off", "waiting", "clean", "stubborn"
    rec, recLive,    \* reconciliation of this barrier; reconciliations still running
    restart,         \* _process_restart_required
    moving,          \* the robot plays or moves for the turn
    recoveries

coordVars == <<active, cstate, last, restart, recoveries>>
workVars == <<tasks, live, told, speaking, attempts, owed, moving>>
barrierVars == <<barrier, snapshot, safety, try, join, rec, recLive>>
vars == <<coordVars, workVars, barrierVars>>

Init ==
    /\ active = NoTurn /\ cstate = "idle" /\ last = NoTurn
    /\ tasks = {} /\ live = {} /\ told = {} /\ speaking = {} /\ attempts = {} /\ owed = {}
    /\ barrier = "off" /\ snapshot = {} /\ safety = "off" /\ try = 0
    /\ join = "off" /\ rec = "off" /\ recLive = 0
    /\ restart = FALSE /\ moving = FALSE /\ recoveries = 0

Accepts == cstate = "active"

----------------------------------------------------------------------------
(* The turn at work.                                                        *)

\* Mutant: a turn starts while the barrier of the previous one still runs.
StartDuringBarrier ==
    /\ cstate \in {"idle", "cancelling"} /\ last < MaxTurn
    /\ active' = last + 1 /\ last' = last + 1 /\ cstate' = "active"
    /\ UNCHANGED <<restart, recoveries, workVars, barrierVars>>

Start ==
    /\ cstate = "idle" /\ active = NoTurn /\ last < MaxTurn
    /\ active' = last + 1 /\ last' = last + 1 /\ cstate' = "active"
    /\ UNCHANGED <<restart, recoveries, workVars, barrierVars>>

TrackTask(k) ==
    /\ Accepts /\ k \notin live \cup told
    /\ tasks' = tasks \cup {k} /\ live' = live \cup {k}
    /\ UNCHANGED <<told, speaking, attempts, owed, moving, coordVars, barrierVars>>

TaskEnds(k) ==
    /\ k \in live /\ live' = live \ {k} /\ speaking' = speaking \ {k}
    /\ UNCHANGED <<tasks, told, attempts, owed, moving, coordVars, barrierVars>>

\* untrack_task refuses a live task.
UntrackTask(k) ==
    /\ k \in tasks \ live /\ tasks' = tasks \ {k}
    /\ UNCHANGED <<live, told, speaking, attempts, owed, moving, coordVars, barrierVars>>

\* The last accepts_results check before play(); the command leaves later.
Speaks(k) ==
    /\ Accepts /\ k \in live \ speaking /\ speaking' = speaking \cup {k}
    /\ UNCHANGED <<tasks, live, told, attempts, owed, moving, coordVars, barrierVars>>

\* The playback command reaches the robot, also when the turn's end was published
\* meanwhile; a cancelled task is interrupted before it sends one.
RobotMoves(k) ==
    /\ k \in speaking \ told /\ ~moving
    /\ moving' = TRUE
    /\ UNCHANGED <<tasks, live, told, speaking, attempts, owed, coordVars, barrierVars>>

\* Playback runs out, or a stop request that nobody waits for any more arrives.
RobotStops ==
    /\ moving /\ moving' = FALSE
    /\ UNCHANGED <<tasks, live, told, speaking, attempts, owed, coordVars, barrierVars>>

\* BudgetGuard.reserve commits; a cancelled task makes no further reservation.
Reserves(k, a) ==
    /\ k \in live \ told /\ a \notin owed \cup attempts
    /\ owed' = owed \cup {a}
    /\ UNCHANGED <<tasks, live, told, speaking, attempts, moving, coordVars, barrierVars>>

\* track_reservation follows, unless the turn was cancelled or tracks too many.
TrackReservation(k, a) ==
    /\ Accepts /\ k \in live \ told /\ a \in owed \ attempts
    /\ Cardinality(attempts) < MaxTracked
    /\ attempts' = attempts \cup {a}
    /\ UNCHANGED <<tasks, live, told, speaking, owed, moving, coordVars, barrierVars>>

\* settle or release commits, by the task (a cancelled one shields it) or by the
\* periodic reconciler when the reservation has expired.
Closes(a) ==
    /\ a \in owed /\ owed' = owed \ {a}
    /\ UNCHANGED <<tasks, live, told, speaking, attempts, moving, coordVars, barrierVars>>

\* The task that settled calls complete_reservation; a stale turn is refused.
CompleteReservation(k, a) ==
    /\ Accepts /\ k \in live /\ a \in attempts \ owed
    /\ attempts' = attempts \ {a}
    /\ UNCHANGED <<tasks, live, told, speaking, owed, moving, coordVars, barrierVars>>

----------------------------------------------------------------------------
(* Publishing the end of the turn.                                          *)

\* _create_barrier; when no task can be created the process must be restarted.
CreateBarrier ==
    \/ /\ cstate' = "cancelling" /\ barrier' = "begin"
       /\ safety' = "off" /\ try' = 0 /\ join' = "off" /\ rec' = "off" /\ snapshot' = {}
       /\ UNCHANGED restart
    \/ /\ cstate' = "blocked" /\ restart' = TRUE
       /\ UNCHANGED <<barrier, safety, try, join, rec, snapshot>>

Finish ==
    /\ Accepts /\ attempts = {}
    /\ CreateBarrier
    /\ UNCHANGED <<active, last, recoveries, recLive, workVars>>

Cancel ==
    /\ Accepts
    /\ CreateBarrier
    /\ UNCHANGED <<active, last, recoveries, recLive, workVars>>

MayRecover == cstate = "blocked" /\ ~restart

\* recover_safety_block checks again after the owner's proof; this is the second check.
Recover ==
    /\ MayRecover /\ recoveries < MaxRecovery
    /\ recoveries' = recoveries + 1
    /\ CreateBarrier
    /\ UNCHANGED <<active, last, recLive, workVars>>

----------------------------------------------------------------------------
(* _run_cancellation_barrier                                                *)

BarrierBegins ==
    /\ barrier = "begin"
    /\ snapshot' = tasks
    /\ \/ safety' = "trying" /\ try' = 1 /\ barrier' = "first" /\ UNCHANGED restart
       \/ safety' = "failed" /\ restart' = TRUE /\ barrier' = "decide" /\ UNCHANGED try
    /\ UNCHANGED <<active, cstate, last, recoveries, join, rec, recLive, workVars>>

StartReconciliation ==
    IF recLive > 0 THEN rec' = "error" /\ UNCHANGED recLive
    ELSE \/ rec' = "running" /\ recLive' = recLive + 1
         \/ rec' = "error" /\ UNCHANGED recLive

\* Mutant: the tasks are joined but not cancelled.
JoinsUncancelled ==
    /\ barrier = "first"
    /\ join' = "waiting" /\ StartReconciliation /\ barrier' = "safety"
    /\ UNCHANGED <<coordVars, workVars, snapshot, safety, try>>

\* The first stop request is on its way: cancel, join and reconcile.
BarrierCancelsTasks ==
    /\ barrier = "first"
    /\ told' = told \cup (snapshot \cap live)
    /\ \/ join' = "waiting" /\ StartReconciliation /\ barrier' = "safety"
       \/ barrier' = "decide" /\ UNCHANGED <<join, rec, recLive>>   \* no join task
    /\ UNCHANGED <<coordVars, tasks, live, speaking, attempts, owed, moving,
                   snapshot, safety, try>>

\* The receipt says that playback, motion and buffers of this turn are stopped.  It
\* takes a database transaction and a round trip to the robot; the tasks are
\* cancelled in the loop's next round.
SafetyVerified ==
    /\ safety = "trying" /\ barrier \in {"safety", "join", "reconcile"}
    /\ safety' = "verified" /\ moving' = FALSE
    /\ UNCHANGED <<coordVars, tasks, live, told, speaking, attempts, owed,
                   barrier, snapshot, try, join, rec, recLive>>

\* No answer in time, an error, a receipt that is malformed, of another turn or
\* incomplete, or no task for the next attempt.
SafetyAttemptFails ==
    /\ safety = "trying" /\ barrier \in {"safety", "join", "reconcile"}
    /\ \/ try < RetryLimit /\ try' = try + 1 /\ UNCHANGED safety
       \/ safety' = "failed" /\ UNCHANGED try
    /\ UNCHANGED <<coordVars, workVars, barrier, snapshot, join, rec, recLive>>

JoinClean ==
    /\ join = "waiting" /\ snapshot \cap live = {}
    /\ join' = "clean" /\ tasks' = {}
    /\ UNCHANGED <<coordVars, live, told, speaking, attempts, owed, moving,
                   barrier, snapshot, safety, try, rec, recLive>>

\* Mutant: the join has no timeout.
JoinTimeoutNever == join = "waiting" /\ FALSE /\ UNCHANGED vars

JoinTimeout ==
    /\ join = "waiting" /\ snapshot \cap live # {}
    /\ join' = "stubborn" /\ tasks' = snapshot \cap live
    /\ UNCHANGED <<coordVars, live, told, speaking, attempts, owed, moving,
                   barrier, snapshot, safety, try, rec, recLive>>

\* reconcile_turn of this barrier closes all reservations, or some and fails.
ReconciliationEnds ==
    /\ rec = "running"
    /\ recLive' = recLive - 1
    /\ \/ rec' = "done" /\ owed' = {}
       \/ rec' = "error" /\ owed' \in SUBSET owed
    /\ UNCHANGED <<coordVars, tasks, live, told, speaking, attempts, moving,
                   barrier, snapshot, safety, try, join>>

\* One that was cancelled by its timeout ends later, having closed some.
LateReconciliationEnds ==
    /\ recLive > (IF rec = "running" THEN 1 ELSE 0)
    /\ recLive' = recLive - 1 /\ owed' \in SUBSET owed
    /\ UNCHANGED <<coordVars, tasks, live, told, speaking, attempts, moving,
                   barrier, snapshot, safety, try, join, rec>>

\* The barrier awaits safety, then the join, then (with a timeout) the reconciliation.
BarrierAwaits ==
    /\ \/ barrier = "safety" /\ safety # "trying" /\ barrier' = "join" /\ UNCHANGED rec
       \/ barrier = "join" /\ join # "waiting" /\ barrier' = "reconcile" /\ UNCHANGED rec
       \/ barrier = "reconcile" /\ rec # "running" /\ barrier' = "decide" /\ UNCHANGED rec
       \/ barrier = "reconcile" /\ rec = "running" /\ barrier' = "decide" /\ rec' = "error"
    /\ UNCHANGED <<coordVars, workVars, snapshot, safety, try, join, recLive>>

Verified == safety = "verified" /\ join = "clean" /\ rec = "done" /\ recLive = 0

\* _release_turn or _latch_barrier_failure
BarrierDecides ==
    /\ barrier = "decide" /\ barrier' = "off"
    /\ IF Verified
       THEN /\ active' = NoTurn /\ cstate' = "idle" /\ restart' = FALSE
            /\ tasks' = {} /\ attempts' = {} /\ told' = {}
       ELSE /\ cstate' = "blocked"
            /\ UNCHANGED <<active, restart, tasks, attempts, told>>
    /\ UNCHANGED <<last, recoveries, live, speaking, owed, moving,
                   snapshot, safety, try, join, rec, recLive>>

----------------------------------------------------------------------------

TurnStep ==
    \/ \E k \in Task : TrackTask(k) \/ UntrackTask(k) \/ Speaks(k) \/ RobotMoves(k)
    \/ \E k \in Task, a \in Attempt :
            Reserves(k, a) \/ TrackReservation(k, a) \/ CompleteReservation(k, a)
    \/ \E a \in Attempt : Closes(a)

SafetyStep == SafetyVerified \/ SafetyAttemptFails
JoinStep == JoinClean \/ JoinTimeout
BarrierStep == BarrierBegins \/ BarrierCancelsTasks \/ BarrierAwaits \/ BarrierDecides

Next ==
    \/ Start \/ Finish \/ Cancel \/ Recover
    \/ TurnStep \/ RobotStops \/ (\E k \in Task : TaskEnds(k))
    \/ SafetyStep \/ JoinStep \/ BarrierStep
    \/ ReconciliationEnds \/ LateReconciliationEnds

Spec == Init /\ [][Next]_vars

(* The barrier's waits have timeouts and the event loop runs ready tasks.   *)
(* Nothing is assumed of the robot, the tasks, the database or the owner.   *)
FairSpec == Spec /\ WF_vars(SafetyStep) /\ WF_vars(JoinStep) /\ WF_vars(BarrierStep)

----------------------------------------------------------------------------
(* Properties *)

\* Type invariant.
TypeOK ==
    /\ active \in Turn \cup {NoTurn} /\ last \in 0..MaxTurn
    /\ cstate \in {"idle", "active", "cancelling", "blocked"}
    /\ active = NoTurn <=> cstate = "idle"
    /\ tasks \subseteq Task /\ live \subseteq Task /\ told \subseteq Task
    /\ speaking \subseteq live
    /\ attempts \subseteq Attempt /\ owed \subseteq Attempt
    /\ barrier \in {"off", "begin", "first", "safety", "join", "reconcile", "decide"}
    /\ barrier # "off" <=> cstate = "cancelling"
    /\ snapshot \subseteq Task
    /\ safety \in {"off", "trying", "verified", "failed"} /\ try \in 0..RetryLimit
    /\ join \in {"off", "waiting", "clean", "stubborn"}
    /\ rec \in {"off", "running", "done", "error"} /\ recLive \in Nat
    /\ restart \in BOOLEAN /\ moving \in BOOLEAN /\ recoveries \in 0..MaxRecovery

\* A released turn leaves nothing behind: the robot is still, none of its tasks runs
\* and none of its reservations is open, whatever timed out and was retried before.
ReleasedTurnIsQuiet == cstate = "idle" => ~moving /\ live = {} /\ owed = {}

\* Two reconciliations of a turn never run at the same time, also when one outlives
\* the barrier that cancelled it and the owner recovers the turn meanwhile.
OneReconciliation == recLive <= 1

\* Every task of the turn that still runs is known to the coordinator, so that the next
\* barrier cancels and joins it.
LiveTasksAreTracked == live \subseteq tasks

\* When the coordinator asks for a process restart, nothing but that ends the block.
RestartIsFinal == [][restart => restart' /\ cstate' # "idle"]_vars

Outside == INSTANCE HouseholdTurn
\* Seen from the session manager the coordinator is HouseholdTurn: a turn is released
\* once, after its cancellation was published, and a blocked household only recovers.
ImplementsHouseholdTurn == Outside!CSpec

\* Every published cancellation ends: the turn is released or the household blocked.
BarrierEnds == cstate = "cancelling" ~> cstate # "cancelling"

=============================================================================
