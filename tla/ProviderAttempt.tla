-------------------------- MODULE ProviderAttempt --------------------------
(***************************************************************************)
(* Who runs the transactions of BudgetStore, and in which order:           *)
(*   - the task of a turn: AttemptRunner around ProviderGateway.send, at   *)
(*     most one provider request per turn with its retries;                *)
(*   - the turn's barrier: TurnCoordinator cancels the task and runs       *)
(*     BudgetGuard.reconcile_turn beside it;                               *)
(*   - the process: the drain at start-up, the periodic reconciler, and    *)
(*     crashes, after which only the database is left.                     *)
(*                                                                         *)
(* Every await of the task is a program location.  asyncio delivers a      *)
(* cancellation at an await: a transaction that was waiting for the lock   *)
(* is not run; one inside its commit commits and then raises.  Locations   *)
(* finish, release, settle and freeze run shielded: they complete, and the *)
(* cancellation is raised afterwards.                                      *)
(***************************************************************************)
EXTENDS BudgetStore

CONSTANTS
    MaxTurn,      \* turns started
    MaxCrash,     \* process restarts
    MaxAttempts   \* RetryPolicy.max_attempts

ASSUME AttemptConstants == MaxTurn \in Nat /\ MaxCrash \in Nat /\ MaxAttempts \in 1..2

VARIABLES
    pc, row, end, usage, retry, \* the task: location, its reservation (0: none), how the
                                \* call ended, the usage observed, whether a retry is due
    cancel,   \* "none", "pending" (task.cancel() called), "seen" (raised in the task)
    result,   \* what the caller of AttemptRunner.run got: "none", "value" or "error"
    turn,     \* CoordinatorState
    bound,    \* reservations with a budget.turn key naming this turn
    tracked,  \* TurnCoordinator._attempts of the turn
    rec, todo, cur, \* reconcile_turn: location, rows left of its snapshot, row in hand
    boot, bad,      \* "draining", "ready", "quarantining" (row bad) or "down"
    invoked,  \* reservations whose provider request went out
    turns, crashes

taskVars == <<pc, row, end, usage, retry, cancel, result>>
turnVars == <<turn, bound, tracked, turns>>
recVars == <<rec, todo, cur>>
bootVars == <<boot, bad, crashes>>
allVars == <<vars, taskVars, turnVars, recVars, bootVars, invoked>>

\* Awaits where a cancellation is raised at once; the first seven are transactions.
Transacting == {"reserve", "authorize", "consume", "begin", "mark", "context", "network"}
Interruptible == Transacting \cup {"adapter", "invoke", "observe"}
Shielded == {"finish", "release", "settle", "settle_value", "freeze"}
Running == Interruptible \cup Shielded

AttemptInit ==
    /\ Init
    /\ pc = "off" /\ row = 0 /\ end = "failed" /\ usage = NULL /\ retry = FALSE
    /\ cancel = "none" /\ result = "none"
    /\ turn = "idle" /\ bound = {} /\ tracked = {}
    /\ rec = "off" /\ todo = {} /\ cur = 0
    /\ boot = "draining" /\ bad = 0
    /\ invoked = {} /\ turns = 0 /\ crashes = 0

----------------------------------------------------------------------------
(* The task.                                                                *)

\* Where an exception at p leads, and which outcome the gateway then records.
AfterFailure(p) ==
    IF p = "reserve" THEN "ended"
    ELSE IF p \in {"authorize", "adapter", "consume", "begin", "mark"} THEN "release"
    ELSE "finish"

EndAfter(p, cancelled) ==
    IF p = "context" THEN "failed"
    ELSE IF p = "observe" THEN "succeeded"
    ELSE IF cancelled THEN "cancelled" ELSE "ambiguous"

Leave(p, cancelled) ==
    /\ pc' = AfterFailure(p)
    /\ end' = EndAfter(p, cancelled)
    /\ usage' = NULL
    /\ result' = IF AfterFailure(p) = "ended" THEN "error" ELSE result
    /\ cancel' = IF cancelled THEN "seen" ELSE cancel

\* The await at p returns and the task goes on to next, unless it was cancelled.
Continue(p, next) ==
    IF cancel = "pending" THEN Leave(p, TRUE)
    ELSE pc' = next /\ UNCHANGED <<end, usage, result, cancel>>

\* The transaction at p is refused or fails, or the cancellation comes first.
TaskFails ==
    /\ pc \in Interruptible
    /\ Leave(pc, cancel = "pending")
    /\ retry' = FALSE
    /\ UNCHANGED <<vars, row, turnVars, recVars, bootVars, invoked>>

(* _prepare_attempt: reserve, and without yielding again track_reservation. *)
TaskReserve ==
    \E r \in Reservation, quote \in Quotes \cup {NoQuote} :
        /\ pc = "reserve" /\ Reserve(r, quote)
        /\ bound' = bound \cup {r}
        /\ retry' = FALSE
        /\ IF cancel = "pending"
           THEN Leave("reserve", TRUE) /\ UNCHANGED <<row, tracked>>
           ELSE IF ReserveOutcome(quote) \notin Allowed
           THEN Leave("reserve", FALSE) /\ UNCHANGED <<row, tracked>>
           ELSE /\ row' = r
                /\ UNCHANGED <<end, usage, result, cancel>>
                /\ IF turn = "active"
                   THEN pc' = "authorize" /\ tracked' = tracked \cup {r}
                   ELSE pc' = "release" /\ UNCHANGED tracked
        /\ UNCHANGED <<turn, turns, recVars, bootVars, invoked>>

\* RouteAuthority.authorize and consume write only the route_authorizations table.
TaskRoute(p, next) ==
    /\ pc = p
    /\ Continue(p, next)
    /\ UNCHANGED <<vars, row, retry, turnVars, recVars, bootVars, invoked>>

\* The adapter fails before it claims the gateway: TransientProviderError "never_sent".
AdapterTransient ==
    /\ pc = "adapter" /\ cancel # "pending"
    /\ pc' = "release" /\ retry' = TRUE
    /\ UNCHANGED <<vars, row, end, usage, cancel, result, turnVars, recVars, bootVars, invoked>>

(* ProviderGateway._claim *)
TaskBegin ==
    /\ pc = "begin" /\ Begin(row) /\ Continue("begin", "mark")
    /\ UNCHANGED <<row, retry, turnVars, recVars, bootVars, invoked>>

TaskMark ==
    /\ pc = "mark" /\ MarkSent(row) /\ Continue("mark", "context")
    /\ UNCHANGED <<row, retry, turnVars, recVars, bootVars, invoked>>

\* BudgetGuard.require_accounting_context reads the rows again.
TaskContext ==
    /\ pc = "context"
    /\ state[row] = "sent" /\ phase[row] = "marked_sent"
    /\ callOutcome[row] = "started" /\ callPhase[row] = "marked_sent"
    /\ Continue("context", "network")
    /\ UNCHANGED <<vars, row, retry, turnVars, recVars, bootVars, invoked>>

(* ProviderGateway.send after the claim: only a committed phase change is    *)
(* followed by the provider request.                                        *)
TaskNetwork ==
    /\ pc = "network" /\ MarkNetwork(row) /\ Continue("network", "invoke")
    /\ invoked' = IF cancel = "pending" THEN invoked ELSE invoked \cup {row}
    /\ UNCHANGED <<row, retry, turnVars, recVars, bootVars>>

TaskAnswered ==
    /\ pc = "invoke" /\ Continue("invoke", "observe")
    /\ UNCHANGED <<vars, row, retry, turnVars, recVars, bootVars, invoked>>

\* The request fails with an error that claims nothing was sent and asks for a retry.
InvokeTransient ==
    /\ pc = "invoke" /\ cancel # "pending"
    /\ Leave("invoke", FALSE)
    /\ retry' = TRUE
    /\ UNCHANGED <<vars, row, turnVars, recVars, bootVars, invoked>>

\* _resolve_billable: usage that prices, or none that can be attested.
TaskObserved ==
    /\ pc = "observe" /\ cancel # "pending"
    /\ usage' \in Actuals \cup {NULL}
    /\ pc' = "finish" /\ end' = "succeeded"
    /\ UNCHANGED <<vars, row, retry, cancel, result, turnVars, recVars, bootVars, invoked>>

\* A shielded section ends: a pending cancellation is raised now.
Seen == IF cancel = "pending" THEN "seen" ELSE cancel

\* What follows _finish_durably.  An ambiguous call may carry a TransientProviderError
\* of unknown disposition, which is settled without trying to release.
AfterFinish(ok) ==
    IF ok /\ end = "succeeded" /\ usage # NULL /\ cancel = "none" THEN {"settle_value"}
    ELSE IF end = "ambiguous" /\ ~retry THEN {"settle", "release"} ELSE {"release"}

TaskFinish ==
    /\ pc = "finish"
    /\ \/ /\ FinishCall(row, end, usage) \/ (FinishRepeats(row, end, usage) /\ UNCHANGED vars)
          /\ pc' \in AfterFinish(TRUE)
       \/ /\ ~(callOutcome[row] = "started" \/ FinishRepeats(row, end, usage))
          /\ pc' \in AfterFinish(FALSE) /\ UNCHANGED vars
    /\ cancel' = Seen
    /\ UNCHANGED <<row, end, usage, retry, result, turnVars, recVars, bootVars, invoked>>

\* The finish operation itself is cancelled inside its commit: _finish_durably runs it
\* once more and raises the cancellation after that.
TaskFinishCut ==
    /\ pc = "finish" /\ cancel = "none" /\ FinishCall(row, end, usage)
    /\ cancel' = "pending"
    /\ UNCHANGED <<pc, row, end, usage, retry, result, turnVars, recVars, bootVars, invoked>>

----------------------------------------------------------------------------
(* AttemptRunner closes the reservation, and forgets it (_complete) if the   *)
(* turn is still active; otherwise complete_reservation raises "stale turn". *)

Completed == IF turn = "active" THEN tracked \ {row} ELSE tracked
CompleteRaises == row \in tracked /\ turn # "active"

\* Mutant: what became of the failed attempt is not asked.
MayRetryUnasked(released) == retry /\ cancel = "none" /\ Cardinality(bound) < MaxAttempts

MayRetry(released) ==
    /\ released /\ retry /\ cancel = "none" /\ ~CompleteRaises
    /\ Cardinality(bound) < MaxAttempts

TaskRelease ==
    /\ pc = "release" /\ ReleaseUnsent(row)
    /\ tracked' = Completed
    /\ pc' = IF MayRetry(TRUE) THEN "reserve" ELSE "ended"
    /\ result' = IF MayRetry(TRUE) THEN result ELSE "error"
    /\ cancel' = Seen
    /\ UNCHANGED <<row, end, usage, retry, turn, bound, turns, recVars, bootVars, invoked>>

\* release_unsent raises PermissionError: _release_or_settle settles instead.
TaskReleaseRefused ==
    /\ pc = "release" /\ ~ProvenUnsent(row)
    /\ pc' = "settle"
    /\ UNCHANGED <<vars, row, end, usage, retry, cancel, result,
                   turnVars, recVars, bootVars, invoked>>

TaskSettle ==
    /\ pc \in {"settle", "settle_value"} /\ Settle(row)
    /\ tracked' = Completed
    /\ pc' = IF pc = "settle" /\ MayRetry(FALSE) THEN "reserve" ELSE "ended"
    /\ result' = IF pc = "settle_value" /\ cancel = "none" /\ ~CompleteRaises
                 THEN "value" ELSE "error"
    /\ cancel' = Seen
    /\ UNCHANGED <<row, end, usage, retry, turn, bound, turns, recVars, bootVars, invoked>>

\* The settlement rolls back; without usable evidence the month is frozen next.
TaskSettleRefused ==
    /\ pc \in {"settle", "settle_value"} /\ ~Settleable(row)
    /\ IF EvidenceMissing(row) THEN pc' = "freeze" /\ UNCHANGED <<result, cancel>>
       ELSE pc' = "ended" /\ result' = "error" /\ cancel' = Seen
    /\ UNCHANGED <<vars, row, end, usage, retry, turnVars, recVars, bootVars, invoked>>

TaskFreeze ==
    /\ pc = "freeze" /\ FreezeQuarantine(row)
    /\ pc' = "ended" /\ result' = "error" /\ cancel' = Seen
    /\ UNCHANGED <<row, end, usage, retry, turnVars, recVars, bootVars, invoked>>

\* A shielded transaction fails for want of storage; the row stays as it was.
TaskStorageFails ==
    /\ pc \in Shielded
    /\ pc' = IF pc = "finish" THEN "release" ELSE "ended"
    /\ result' = IF pc = "finish" THEN result ELSE "error"
    /\ cancel' = Seen
    /\ UNCHANGED <<vars, row, end, usage, retry, turnVars, recVars, bootVars, invoked>>

TaskStep ==
    \/ TaskReserve \/ TaskRoute("authorize", "adapter") \/ TaskRoute("adapter", "consume")
    \/ TaskRoute("consume", "begin") \/ AdapterTransient \/ TaskBegin \/ TaskMark
    \/ TaskContext \/ TaskNetwork \/ InvokeTransient \/ TaskAnswered \/ TaskObserved \/ TaskFinish \/ TaskFinishCut
    \/ TaskRelease \/ TaskReleaseRefused \/ TaskSettle \/ TaskSettleRefused \/ TaskFreeze
    \/ TaskFails \/ TaskStorageFails

----------------------------------------------------------------------------
(* The turn, as far as its reservations are concerned.                      *)

\* No task has done anything yet; the turn's sets are empty.
FreshTask(p) ==
    /\ pc' = p /\ row' = 0 /\ end' = "failed" /\ usage' = NULL /\ retry' = FALSE
    /\ cancel' = "none" /\ result' = "none"
    /\ bound' = {} /\ tracked' = {}

StartTurn ==
    /\ boot = "ready" /\ turn = "idle" /\ turns < MaxTurn
    /\ turn' = "active" /\ turns' = turns + 1
    /\ FreshTask("reserve")
    /\ UNCHANGED <<vars, recVars, bootVars, invoked>>

\* The barrier cancels the turn's task and starts reconcile_turn.
Barrier ==
    /\ turn' = "cancelling"
    /\ cancel' = IF pc \in Running THEN "pending" ELSE cancel
    /\ rec' = "load" /\ todo' = {} /\ cur' = 0
    /\ UNCHANGED <<vars, pc, row, end, usage, retry, result, bound, tracked, turns,
                   bootVars, invoked>>

\* TurnCoordinator.finish refuses a turn with tracked attempts.
FinishTurn == turn = "active" /\ pc = "ended" /\ tracked = {} /\ Barrier

\* TurnCoordinator.cancel; recover_safety_block runs the barrier again.
CancelTurn == turn = "active" /\ Barrier
RecoverTurn == turn = "blocked" /\ rec = "off" /\ Barrier

BarrierVerified ==
    /\ turn = "cancelling" /\ rec = "done" /\ pc \notin Running
    /\ turn' = "idle" /\ tracked' = {} /\ rec' = "off"
    /\ UNCHANGED <<vars, taskVars, bound, turns, todo, cur, bootVars, invoked>>

\* Reconciliation failed or timed out, or the task outlived its join.
BarrierFails ==
    /\ turn = "cancelling"
    /\ turn' = "blocked" /\ rec' = "off"
    /\ UNCHANGED <<vars, taskVars, bound, tracked, turns, todo, cur, bootVars, invoked>>

----------------------------------------------------------------------------
(* BudgetGuard.reconcile_turn                                               *)

\* load_bound reads the durable bindings of the turn.
TurnRows == bound

\* The store's lock is FIFO and the task was cancelled before reconcile_turn queued:
\* a transaction of the task that will still commit commits before load_bound reads.
RecLoad ==
    /\ rec = "load" /\ ~(cancel = "pending" /\ pc \in Transacting)
    /\ todo' = {r \in TurnRows : Open(r)}
    /\ rec' = "next"
    /\ UNCHANGED <<vars, taskVars, turnVars, cur, bootVars, invoked>>

\* The row in hand is closed: go on with the others.
RecClosed == todo' = todo \ {cur'} /\ rec' = "next"

RecRelease ==
    \E r \in todo :
        /\ rec = "next" /\ ReleaseUnsent(r)
        /\ cur' = r /\ RecClosed
        /\ UNCHANGED <<taskVars, turnVars, bootVars, invoked>>

RecReleaseRefused ==
    \E r \in todo :
        /\ rec = "next" /\ ~ProvenUnsent(r)
        /\ cur' = r /\ rec' = "check"
        /\ UNCHANGED <<vars, todo, taskVars, turnVars, bootVars, invoked>>

RecCheck ==
    /\ rec = "check" /\ UNCHANGED cur
    /\ IF Open(cur) THEN rec' = "settle" /\ UNCHANGED todo ELSE RecClosed
    /\ UNCHANGED <<vars, taskVars, turnVars, bootVars, invoked>>

RecSettle ==
    /\ rec = "settle" /\ Settle(cur)
    /\ UNCHANGED cur /\ RecClosed
    /\ UNCHANGED <<taskVars, turnVars, bootVars, invoked>>

\* _ReservationNotSettleable: closed meanwhile, or an error.
RecSettleRefused ==
    /\ rec = "settle" /\ ~Settleable(cur) /\ UNCHANGED cur
    /\ IF ~Open(cur) THEN RecClosed
       ELSE /\ rec' = IF EvidenceMissing(cur) THEN "freeze" ELSE "error"
            /\ UNCHANGED todo
    /\ UNCHANGED <<vars, taskVars, turnVars, bootVars, invoked>>

RecFreeze ==
    /\ rec = "freeze" /\ FreezeQuarantine(cur)
    /\ rec' = "error"
    /\ UNCHANGED <<todo, cur, taskVars, turnVars, bootVars, invoked>>

RecDone ==
    /\ rec = "next" /\ todo = {}
    /\ rec' = "done"
    /\ UNCHANGED <<vars, todo, cur, taskVars, turnVars, bootVars, invoked>>

RecStep ==
    \/ RecLoad \/ RecRelease \/ RecReleaseRefused \/ RecCheck \/ RecSettle
    \/ RecSettleRefused \/ RecFreeze \/ RecDone

----------------------------------------------------------------------------
(* The process: StartupTurnRecovery and the periodic worker.                 *)

Boundary == IF boot = "draining" THEN MaxReservation ELSE clock

Reconcile ==
    /\ boot \in {"draining", "ready"} /\ ReconcileBatch(Boundary)
    /\ UNCHANGED <<taskVars, turnVars, recVars, bootVars, invoked>>

\* drain_restart_open_attempts ends with a batch that is not full.
Drained ==
    /\ boot = "draining" /\ Batch(MaxReservation) = {}
    /\ boot' = "ready"
    /\ UNCHANGED <<vars, taskVars, turnVars, recVars, bad, crashes, invoked>>

Unclosable == {r \in Batch(Boundary) : ~ProvenUnsent(r) /\ ~Settleable(r)}

\* One row that cannot be closed rolls its whole batch back.  Start-up fails, or the
\* worker ends and readiness is withdrawn; both last until the process restarts.
ReconcileFails ==
    /\ boot \in {"draining", "ready"} /\ Unclosable # {}
    /\ bad' = Min(Unclosable)
    /\ boot' = IF EvidenceMissing(bad') THEN "quarantining" ELSE "down"
    /\ UNCHANGED <<vars, taskVars, turnVars, recVars, crashes, invoked>>

ReconcileFreezes ==
    /\ boot = "quarantining" /\ FreezeQuarantine(bad)
    /\ boot' = "down"
    /\ UNCHANGED <<taskVars, turnVars, recVars, bad, crashes, invoked>>

\* The process dies and starts again: tasks and coordinator are gone.
Crash ==
    /\ crashes < MaxCrash /\ crashes' = crashes + 1
    /\ boot' = "draining" /\ bad' = 0
    /\ FreshTask("off") /\ turn' = "idle"
    /\ rec' = "off" /\ todo' = {} /\ cur' = 0
    /\ UNCHANGED <<vars, turns, invoked>>

Time == Expire /\ UNCHANGED <<taskVars, turnVars, recVars, bootVars, invoked>>

AttemptNext ==
    \/ TaskStep
    \/ StartTurn \/ FinishTurn \/ CancelTurn \/ RecoverTurn
    \/ BarrierVerified \/ BarrierFails
    \/ RecStep
    \/ Reconcile \/ Drained \/ ReconcileFails \/ ReconcileFreezes \/ Crash
    \/ Time

AttemptSpec == AttemptInit /\ [][AttemptNext]_allVars

(* The event loop keeps running ready tasks, the provider adapters and the   *)
(* database give up by themselves, and time passes.  Nothing is assumed of   *)
(* crashes, cancellations, timeouts or the owner.                            *)
Fairness ==
    /\ WF_allVars(TaskStep) /\ WF_allVars(RecStep)
    /\ WF_allVars(BarrierVerified \/ (BarrierFails /\ rec = "error"))
    /\ WF_allVars(Reconcile \/ Drained \/ ReconcileFails)
    /\ WF_allVars(ReconcileFreezes)
    /\ WF_allVars(Time)

FairAttemptSpec == AttemptSpec /\ Fairness

----------------------------------------------------------------------------
(* Properties *)

\* A request that may have reached the provider is never given back as unsent, whoever
\* closes the reservation and whenever the task is cancelled: it is charged or open.
InvokedIsNeverReleased == \A r \in invoked : state[r] \in {"sent", "settled"}

\* A retry follows only an attempt proven unsent: one turn's request reaches the
\* provider at most once, although it may reserve MaxAttempts times.
SentAtMostOnce == Cardinality(invoked \cap bound) <= 1

\* When the barrier has released the turn, all its reservations are closed, also one
\* whose reserve() committed while its task was being cancelled and that no
\* in-memory set knows.
ReleasedTurnIsClosed == turn = "idle" => \A r \in bound : ~Open(r)

\* A caller gets a provider's value only after the attested usage was charged.
ValueIsPaid ==
    result = "value" => /\ state[row] = "settled" /\ charged[row] = receipt[row]
                        /\ row \in invoked

\* A value is handed over only while the turn still accepts results at that moment.
NoLateValue == [][result' = "value" /\ result # "value" => turn = "active"]_allVars

\* reconcile_turn never meets a row whose proof pair contradicts itself: it fails only
\* for a call whose usage cannot be charged.
ReconciliationFailsOnlyForEvidence ==
    rec = "error" => \E r \in bound : Open(r) /\ Finished(r) /\ ~Settleable(r)

\* No reservation stays open for ever: the task, the barrier, the periodic worker or
\* the next start closes it, unless a month is frozen for missing evidence.
EveryReservationCloses ==
    \A r \in Reservation : Open(r) ~> (~Open(r) \/ frozen # {})

\* What a turn's calls owe the household's books, however gateway task, barrier,
\* reconciliation, expiry worker and restart interleave.
CallsAreAccounted ==
    /\ [](InvokedIsNeverReleased /\ SentAtMostOnce /\ ReleasedTurnIsClosed /\ ValueIsPaid)
    /\ []ReconciliationFailsOnlyForEvidence
    /\ NoLateValue

=============================================================================
