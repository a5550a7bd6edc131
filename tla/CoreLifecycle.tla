--------------------------- MODULE CoreLifecycle ---------------------------
(***************************************************************************)
(* Starting and stopping the core process: ProductionReachyLifecycle over  *)
(* the transport server and the current-session channel,                   *)
(* BudgetReconciliationSupervisor with its required worker,                *)
(* StartupTurnRecovery, and the process lease that keeps a second core     *)
(* from the same database.                                                 *)
(*                                                                         *)
(* start() and stop() are two tasks of one event loop.  Code between two   *)
(* awaits that really suspend is one step; each suspension is a value of   *)
(* at[c].  Without a transport the container calls the supervisor itself.  *)
(***************************************************************************)
EXTENDS Naturals

CONSTANTS
    RetryLimit,          \* StartupTurnRecovery retry_limit
    MaxStart, MaxStop    \* calls of start() and stop() that pass their first checks

ASSUME LifecycleConstants ==
    RetryLimit \in Nat \ {0} /\ MaxStart \in Nat /\ MaxStop \in Nat

Caller == {"start", "stop"}
Recovering == {"safety", "attempts", "sessions"}
Working == {"server", "auth", "expired", "worker"} \cup Recovering
Cleaning == {"drain", "media", "close", "budget"}

VARIABLES
    at,        \* where each call waits
    err,       \* primary: the call's cleanup has met an error
    cause,     \* what the last start failed of: "none", "error", "cancel"
    cancelled, \* the start task has been cancelled and not yet resumed
    try, ops,  \* stop_all attempts begun; those cancelled that have not ended (_background)
    transport,                  \* the container was built with the Reachy transport
    starts, stops,
    started, pending,           \* _started, _cleanup_pending
    server,                     \* _server: "closed", "open", "closing"
    current, pubOpen, draining, \* the current-session channel
    lease, stopSet,             \* _held, _stop
    recovered, ready,           \* _ready of the recovery and of the supervisor
    worker                      \* _worker: "none", "running", "ended", "failed"

lifeVars == <<starts, stops, transport, started, pending>>
callVars == <<at, err, cause, cancelled, lifeVars>>
recoveryVars == <<try, ops>>
channelVars == <<server, current, pubOpen, draining>>
budgetVars == <<lease, stopSet, recovered, ready, worker>>
vars == <<callVars, recoveryVars, channelVars, budgetVars>>

(* CoreProcessLease.acquire: the composition root starts only with the lock on the
   owner-only lease file; without it there is no process to start. *)
Acquire == lease = TRUE

Init ==
    /\ at = [c \in Caller |-> "off"] /\ err = [c \in Caller |-> FALSE]
    /\ cause = "none" /\ cancelled = FALSE /\ starts = 0 /\ stops = 0
    /\ transport \in BOOLEAN
    /\ started = FALSE /\ pending = FALSE
    /\ try = 0 /\ ops = 0
    /\ server = "closed" /\ current = FALSE /\ pubOpen = TRUE /\ draining = FALSE
    /\ Acquire /\ stopSet = FALSE
    /\ recovered = FALSE /\ ready = FALSE /\ worker = "none"

GoTo(c, there) == at' = [at EXCEPT ![c] = there]

\* BudgetReconciliationSupervisor.require_ready, and the session channel's
RequireReady == recovered /\ ready /\ worker = "running"
HouseholdReady == RequireReady /\ (transport => current /\ ~draining)

----------------------------------------------------------------------------
(* _prepare_shutdown_cleanup                                                *)

\* Mutant: shutdown does not ask the worker to stop.
PrepareWithoutStop == ready' = FALSE /\ recovered' = FALSE /\ UNCHANGED stopSet

Prepare == ready' = FALSE /\ recovered' = FALSE /\ stopSet' = TRUE

\* A start that fails cleans up after itself: the supervisor if it had begun, then
\* the transport.
FailStart(why) ==
    /\ cause' = why /\ cancelled' = FALSE
    /\ \/ at["start"] \in {"server", "auth"}
          /\ GoTo("start", "drain")
          /\ UNCHANGED budgetVars
       \/ at["start"] \in Working \ {"server", "auth"}
          /\ GoTo("start", "bclean")
          /\ Prepare
          /\ UNCHANGED <<lease, worker>>

----------------------------------------------------------------------------
(* start()                                                                  *)

StartCall ==
    /\ starts < MaxStart /\ at["start"] = "off" /\ at["stop"] = "off"
    /\ ~pending /\ ~started /\ (transport \/ worker = "none")
    /\ starts' = starts + 1 /\ err' = [err EXCEPT !["start"] = FALSE]
    /\ \/ /\ transport /\ lease
          /\ GoTo("start", "server") /\ cause' = "none"
          /\ pubOpen' = TRUE /\ current' = FALSE /\ draining' = FALSE
          /\ UNCHANGED <<try, budgetVars>>
       \/ /\ transport /\ ~lease
          /\ GoTo("start", "drain") /\ cause' = "error"
          /\ UNCHANGED <<try, pubOpen, current, draining, budgetVars>>
       \/ /\ ~transport /\ lease
          /\ GoTo("start", "safety") /\ cause' = "none"
          /\ recovered' = FALSE /\ try' = 1
          /\ UNCHANGED <<lease, stopSet, ready, worker, pubOpen, current, draining>>
       \/ /\ ~transport /\ ~lease
          /\ GoTo("start", "bclean") /\ cause' = "error"
          /\ Prepare
          /\ UNCHANGED <<try, lease, worker, pubOpen, current, draining>>
    /\ UNCHANGED <<cancelled, stops, transport, started, pending, ops, server>>

\* ReachyWssServer.start binds, or fails having closed what it bound, perhaps unproven.
ServerStarts ==
    /\ at["start"] = "server" /\ ~cancelled
    /\ \/ /\ server = "closed" /\ server' = "open"
          /\ GoTo("start", "auth")
          /\ UNCHANGED <<cause, cancelled, budgetVars>>
       \/ /\ server' \in (IF server = "closed" THEN {"closed", "closing"} ELSE {server})
          /\ FailStart("error")
    /\ UNCHANGED <<err, lifeVars, current, pubOpen, draining, recoveryVars>>

\* wait_authenticated returns with a session, and the supervisor's start begins.
Authenticated ==
    /\ at["start"] = "auth" /\ ~cancelled /\ current /\ ~draining
    /\ GoTo("start", "safety")
    /\ recovered' = FALSE /\ try' = 1
    /\ UNCHANGED <<err, cause, cancelled, lifeVars, ops, channelVars,
                   lease, stopSet, ready, worker>>

\* _verify_global_safety: an attempt that is not verified is followed by the next; one
\* that timed out is cancelled and may linger.
SafetyAttemptFails ==
    /\ at["start"] = "safety" /\ ~cancelled
    /\ ops' \in {ops, ops + 1}
    /\ IF try < RetryLimit
         THEN try' = try + 1 /\ UNCHANGED <<at, cause, cancelled, budgetVars>>
         ELSE FailStart("error") /\ UNCHANGED try
    /\ UNCHANGED <<err, lifeVars, channelVars>>

StopAllEnds ==
    /\ ops > 0 /\ ops' = ops - 1
    /\ UNCHANGED <<try, callVars, channelVars, budgetVars>>

\* The transactions of the recovery: restart reconciliation, then abandoned sessions.
RecoveryAdvances ==
    /\ at["start"] \in Recovering /\ ~cancelled /\ lease
    /\ \/ at["start"] = "safety" /\ GoTo("start", "attempts") /\ UNCHANGED recovered
       \/ at["start"] = "attempts" /\ GoTo("start", "sessions") /\ UNCHANGED recovered
       \/ at["start"] = "sessions" /\ GoTo("start", "expired") /\ recovered' = TRUE
    /\ UNCHANGED <<err, cause, cancelled, lifeVars, recoveryVars, channelVars,
                   lease, stopSet, ready, worker>>

\* drain_before_ready has returned.
WorkerStarts ==
    /\ at["start"] = "expired" /\ ~cancelled
    /\ IF stopSet
         THEN FailStart("error")
         ELSE /\ worker' = "running" /\ GoTo("start", "worker")
              /\ UNCHANGED <<cause, cancelled, lease, stopSet, recovered, ready>>
    /\ UNCHANGED <<err, lifeVars, recoveryVars, channelVars>>

\* The supervisor is ready and, over a transport, so is the lifecycle.
StartReturns ==
    /\ at["start"] = "worker" /\ ~cancelled
    /\ IF worker # "running"
         THEN FailStart("error") /\ UNCHANGED <<started, pending>>
         ELSE /\ GoTo("start", "off") /\ ready' = TRUE
              /\ started' = transport /\ pending' = FALSE
              /\ UNCHANGED <<cause, cancelled, lease, stopSet, recovered, worker>>
    /\ UNCHANGED <<err, starts, stops, transport, recoveryVars, channelVars>>

\* Any awaited step of start() may raise.
StartFails ==
    /\ at["start"] \in {"auth", "attempts", "sessions", "expired"} /\ ~cancelled
    /\ FailStart("error")
    /\ UNCHANGED <<err, lifeVars, recoveryVars, channelVars>>

StartIsCancelled ==
    /\ at["start"] \in Working /\ cancelled
    /\ ops' = ops + (IF at["start"] = "safety" THEN 1 ELSE 0)
    /\ FailStart("cancel")
    /\ UNCHANGED <<err, lifeVars, try, channelVars>>

\* Mutant: the failed start gives the lease up without waiting for what it owns.
BudgetCleanedEarly ==
    /\ at["start"] = "bclean"
    /\ lease' = FALSE
    /\ GoTo("start", IF transport THEN "drain" ELSE "off")
    /\ UNCHANGED <<err, cause, cancelled, lifeVars, recoveryVars, channelVars,
                   stopSet, recovered, ready, worker>>

\* The supervisor's _cleanup_failed_start: worker and startup activity have ended.
BudgetCleaned ==
    /\ at["start"] = "bclean" /\ worker # "running" /\ ops = 0
    /\ lease' = FALSE
    /\ GoTo("start", IF transport THEN "drain" ELSE "off")
    /\ UNCHANGED <<err, cause, cancelled, lifeVars, recoveryVars, channelVars,
                   stopSet, recovered, ready, worker>>

----------------------------------------------------------------------------
(* stop()                                                                   *)

StopCall ==
    /\ stops < MaxStop /\ at["stop"] = "off"
    /\ stops' = stops + 1 /\ err' = [err EXCEPT !["stop"] = FALSE]
    /\ GoTo("stop", "request")
    /\ IF transport THEN UNCHANGED budgetVars ELSE Prepare /\ UNCHANGED <<lease, worker>>
    /\ UNCHANGED <<cause, cancelled, starts, transport, started, pending, recoveryVars, channelVars>>

Observed == IF transport THEN "drain" ELSE "budget"

\* _cancel_and_observe_start.  A start in the supervisor's own cleanup swallows the
\* cancellation; one in the transport's cleanup ends cancelled.
CancelStart ==
    /\ at["stop"] = "request"
    /\ GoTo("stop", IF at["start"] = "off" THEN Observed ELSE "observe")
    /\ cancelled' = (at["start"] \in Working)
    /\ cause' = IF at["start"] \in Cleaning THEN "cancel" ELSE cause
    /\ UNCHANGED <<err, lifeVars, recoveryVars, channelVars, budgetVars>>

StartObserved ==
    /\ at["stop"] = "observe"
    /\ \/ at["start"] = "off" /\ err' = [err EXCEPT !["stop"] = (cause = "error")]
       \/ at["start"] # "off" /\ transport /\ err' = [err EXCEPT !["stop"] = TRUE]
    /\ GoTo("stop", Observed)
    /\ UNCHANGED <<cause, cancelled, lifeVars, recoveryVars, channelVars,
                   budgetVars>>

----------------------------------------------------------------------------
(* The cleanup that a failed start and a stop both run.                     *)

\* The call ends: a start with a cleanup error, and any stop, settles _cleanup_pending.
Returns(c, e) ==
    /\ GoTo(c, "off")
    /\ started' = (started /\ (c = "start" \/ e))
    /\ pending' = (transport /\ (e \/ (pending /\ c = "start")))

\* begin_shutdown_drain
Drain(c) ==
    /\ at[c] = "drain"
    /\ pubOpen' = FALSE /\ draining' = TRUE
    /\ GoTo(c, "media")
    /\ UNCHANGED <<err, cause, cancelled, lifeVars, recoveryVars,
                   server, current, budgetVars>>

\* The disconnect safety barrier has ended, well or not, and the server is told to close.
MediaStopped(c) ==
    /\ at[c] = "media"
    /\ \E failed \in BOOLEAN : err' = [err EXCEPT ![c] = @ \/ failed]
    /\ server' = IF server = "open" THEN "closing" ELSE server
    /\ GoTo(c, "close")
    /\ UNCHANGED <<cause, cancelled, lifeVars, recoveryVars,
                   current, pubOpen, draining, budgetVars>>

\* ReachyWssServer.close: proven once the handlers have ended.  With no error so far
\* the session authority is withdrawn and the supervisor's stop begins.
ServerClosed(c) ==
    /\ at[c] = "close"
    /\ LET proven == ~err[c] /\ server' = "closed" IN
       /\ \/ (server = "closed" \/ ~current) /\ server' = "closed"
          \/ server' = server /\ server # "closed"
       /\ IF proven
            THEN /\ current' = FALSE /\ pubOpen' = FALSE /\ draining' = FALSE
                 /\ Prepare /\ GoTo(c, "budget")
                 /\ UNCHANGED <<started, pending, lease, worker>>
            ELSE Returns(c, TRUE) /\ UNCHANGED <<current, pubOpen, draining, budgetVars>>
    /\ UNCHANGED <<err, cause, cancelled, starts, stops, transport, recoveryVars>>

\* The supervisor's stop: it waits for the worker, ends startup activity and releases
\* the lease; a worker that had failed makes it raise.
BudgetStopped(c) ==
    /\ at[c] = "budget" /\ worker # "running" /\ ops = 0
    /\ lease' = FALSE /\ recovered' = FALSE
    /\ Returns(c, err[c] \/ worker = "failed")
    /\ UNCHANGED <<err, cause, cancelled, starts, stops, transport, recoveryVars, channelVars, stopSet, ready,
                   worker>>

----------------------------------------------------------------------------
(* The worker and the robot's connection.                                   *)

WorkerEnds ==
    /\ worker = "running"
    /\ \/ stopSet /\ worker' = "ended"
       \/ worker' = "failed"
    /\ ready' = FALSE
    /\ UNCHANGED <<callVars, recoveryVars, channelVars, lease, stopSet, recovered>>

Publish ==
    /\ server # "closed" /\ pubOpen /\ ~draining /\ ~current
    /\ current' = TRUE
    /\ UNCHANGED <<callVars, recoveryVars, server, pubOpen, draining, budgetVars>>

SessionEnds ==
    /\ current /\ current' = FALSE
    /\ UNCHANGED <<callVars, recoveryVars, server, pubOpen, draining, budgetVars>>

----------------------------------------------------------------------------
StartNext ==
    \/ StartCall \/ ServerStarts \/ Authenticated \/ SafetyAttemptFails \/ RecoveryAdvances
    \/ WorkerStarts \/ StartReturns \/ StartFails \/ StartIsCancelled \/ BudgetCleaned

StopNext == StopCall \/ CancelStart \/ StartObserved

CleanNext == \E c \in Caller : Drain(c) \/ MediaStopped(c) \/ ServerClosed(c) \/ BudgetStopped(c)

Next ==
    \/ StartNext \/ StopNext \/ CleanNext
    \/ StopAllEnds \/ WorkerEnds \/ Publish \/ SessionEnds

Spec == Init /\ [][Next]_vars

\* Every wait of start() and stop() is bounded by a timeout or by a task that ends: an
\* authentication and a stop_all attempt time out, a transaction ends, a cancelled
\* stop_all ends, the worker ends once its batch has seen _stop, a closed server ends
\* its session.
Fairness ==
    /\ WF_vars(ServerStarts) /\ WF_vars(StartFails)
    /\ WF_vars(SafetyAttemptFails \/ RecoveryAdvances)
    /\ WF_vars(WorkerStarts) /\ WF_vars(StartReturns) /\ WF_vars(StartIsCancelled)
    /\ WF_vars(BudgetCleaned) /\ WF_vars(CancelStart) /\ WF_vars(StartObserved)
    /\ \A c \in Caller : /\ WF_vars(Drain(c)) /\ WF_vars(MediaStopped(c))
                         /\ WF_vars(ServerClosed(c)) /\ WF_vars(BudgetStopped(c))
    /\ WF_vars(StopAllEnds) /\ WF_vars(stopSet /\ WorkerEnds)

FairSpec == Spec /\ Fairness

----------------------------------------------------------------------------

\* The process lease is given up only when nothing of this process can still touch the
\* database or the robot on behalf of a start: no worker, no stop_all of the recovery,
\* no start that is beyond its own cleanup (release_after_shutdown).
LeaseOutlivesWork ==
    ~lease => worker # "running" /\ ops = 0 /\ at["start"] \notin Working

\* The household reports ready only while the lease is held, no start is under way, no
\* stop has begun to drain the channel and, over a transport, the server is up.
ReadyIsOperational ==
    HouseholdReady =>
        /\ lease /\ at["start"] = "off" /\ at["stop"] \notin {"media", "close", "budget"}
        /\ transport => server # "closed"

\* A failed start gives up the lease before it closes the transport's server.  A
\* server that is up without the lease is always somebody's to close: a call is
\* still cleaning up, or _cleanup_pending keeps start() out until a stop succeeds.
UnleasedServerIsOwed ==
    ~lease /\ server # "closed" => pending \/ at # [c \in Caller |-> "off"]

\* A stop() that returns without an error leaves nothing behind: no start, no worker,
\* no session, no server, no lease.
CleanStopIsComplete ==
    [][at["stop"] # "off" /\ at'["stop"] = "off" /\ ~err'["stop"] /\ ~pending'
        /\ worker' # "failed"
       => /\ ~lease' /\ at'["start"] = "off" /\ worker' # "running"
          /\ server' = "closed" /\ ~current']_vars

\* Every start() and every stop() returns: neither the wait of stop for a start that
\* ignores its cancellation, nor the waits for the worker, for lingering stop_all
\* tasks and for the server can last for ever.
CallsReturn == \A c \in Caller : at[c] # "off" ~> at[c] = "off"

\* What a process owes the next one, however starts and stops overlap: the lease goes
\* last, readiness is real, a server without the lease is somebody's to close, and a
\* clean stop is complete.
ProcessIsOwned ==
    /\ [](LeaseOutlivesWork /\ ReadyIsOperational /\ UnleasedServerIsOwed)
    /\ CleanStopIsComplete

=============================================================================
