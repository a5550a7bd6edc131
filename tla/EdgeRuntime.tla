----------------------------- MODULE EdgeRuntime -----------------------------
(***************************************************************************)
(* The life of one push-to-talk session object on the Edge: run, which may *)
(* be called once, and stop, which anyone may call at any time and which   *)
(* answers with the safety receipt.  What the runtime tasks do between     *)
(* them is the matter of PushToTalk; here they run, ask for cleanup, end   *)
(* by themselves or are cancelled.                                         *)
(*                                                                         *)
(* Both calls take the lifecycle lock.  run starts its tasks under it with *)
(* no await in between; if a task cannot be created, the clock fails or    *)
(* the buffers do not clear, it rolls back before it lets go of the lock.  *)
(* The cleanup task is a coordinator that run created, or an observation   *)
(* that stop created because there was no run, or a receipt that is ready. *)
(* Both calls go on when they are cancelled, and raise at the end.         *)
(***************************************************************************)
EXTENDS Naturals, Sequences, FiniteSets

CONSTANTS Stopper   \* the callers of stop

VARIABLES lock,      \* who holds _lifecycle_lock
          claimed,   \* _run_claimed
          terminal,  \* _terminal
          latched,   \* _cleanup_started_at is set
          cleanup,   \* _cleanup_task: what it is
          tasks,     \* the runtime tasks that nobody has cancelled
          run,       \* where run is
          stop       \* [Stopper -> where its stop is, and the task it awaits]

runtimeVars == <<lock, claimed, terminal, latched, cleanup, tasks, run, stop>>

-----------------------------------------------------------------------------
\* In the order of their creation.  The turn is started later, by run.
StartupTasks == <<"writer", "playback", "reader", "stop_input", "heartbeat", "watchdog">>
First(n) == {StartupTasks[i] : i \in 1..n}

Ready(c) == c.kind = "receipt"

\* id counts the tasks that _cleanup_task was set to.
NewCleanup(kind) == cleanup' = [kind |-> kind, id |-> cleanup.id + 1]

RuntimeInit ==
    /\ lock = {}
    /\ claimed = FALSE
    /\ terminal = FALSE
    /\ latched = FALSE
    /\ cleanup = [kind |-> "none", id |-> 0]
    /\ tasks = {}
    /\ run = "idle"
    /\ stop = [s \in Stopper |-> [at |-> "idle", id |-> 0]]

\* _latch_cleanup_locked: the first request decides; it closes the session and
\* cancels what acts on the robot.
Latch ==
    /\ latched' = TRUE
    /\ terminal' = TRUE
    /\ tasks' = IF latched THEN tasks ELSE tasks \ {"turn", "playback"}

-----------------------------------------------------------------------------
(***************************************************************************)
(* run.                                                                    *)
(***************************************************************************)

RunCalls ==
    /\ run = "idle" /\ run' = "waiting"
    /\ UNCHANGED <<lock, claimed, terminal, latched, cleanup, tasks, stop>>

\* A cancellation before the lock is taken leaves nothing behind.
RunNeverEnters ==
    /\ run = "waiting" /\ run' = "idle"
    /\ UNCHANGED <<lock, claimed, terminal, latched, cleanup, tasks, stop>>

RunRefused ==
    /\ run = "waiting" /\ lock = {}
    /\ terminal \/ claimed
    /\ run' = "refused"
    /\ UNCHANGED <<lock, claimed, terminal, latched, cleanup, tasks, stop>>

\* A plausible bug: run does not ask whether a stop came first.
MayClaimUnclaimed == ~claimed

MayClaim == ~(terminal \/ claimed)

RunStarts ==
    /\ run = "waiting" /\ lock = {} /\ MayClaim
    /\ claimed' = TRUE
    /\ NewCleanup("coordinator")
    /\ tasks' = First(Len(StartupTasks))
    /\ run' = "running"
    /\ UNCHANGED <<lock, terminal, latched, stop>>

\* Startup fails: before there is a coordinator, or after n of the tasks.
RunStartFailsEarly ==
    /\ run = "waiting" /\ lock = {} /\ MayClaim
    /\ claimed' = TRUE
    /\ lock' = {"run"}
    /\ run' = "rollback"
    /\ UNCHANGED <<terminal, latched, cleanup, tasks, stop>>

RunStartFails(n) ==
    /\ run = "waiting" /\ lock = {} /\ MayClaim
    /\ claimed' = TRUE
    /\ lock' = {"run"}
    /\ NewCleanup("coordinator")
    /\ tasks' = First(n)
    /\ run' = "rollback"
    /\ UNCHANGED <<terminal, latched, stop>>

\* _rollback_runtime_startup: close the session and cancel all tasks, the
\* coordinator too ...
RollbackCancels ==
    /\ run = "rollback"
    /\ terminal' = TRUE
    /\ latched' = TRUE
    /\ tasks' = {}
    /\ run' = "observing"
    /\ UNCHANGED <<lock, claimed, cleanup, stop>>

\* ... observe, join, close, and leave a receipt in the place of the task.
RollbackEnds ==
    /\ run = "observing"
    /\ NewCleanup("receipt")
    /\ lock' = {}
    /\ run' = "done"
    /\ UNCHANGED <<claimed, terminal, latched, tasks, stop>>

\* SESSION_OPEN came: the turn starts unless cleanup has been asked for.
TurnStarts ==
    /\ run = "running" /\ ~latched
    /\ tasks' = tasks \cup {"turn"}
    /\ run' = "capturing"
    /\ UNCHANGED <<lock, claimed, terminal, latched, cleanup, stop>>

\* run times out, fails or is cancelled while it waits: it asks for cleanup.
RunLeaves ==
    /\ run \in {"running", "capturing"} /\ ~Ready(cleanup)
    /\ Latch
    /\ run' = "finishing"
    /\ UNCHANGED <<lock, claimed, cleanup, stop>>

RunEnds ==
    /\ run \in {"running", "capturing", "finishing"}
    /\ Ready(cleanup)
    /\ run' = "done"
    /\ UNCHANGED <<lock, claimed, terminal, latched, cleanup, tasks, stop>>

-----------------------------------------------------------------------------
(***************************************************************************)
(* The tasks.                                                              *)
(***************************************************************************)

\* A watchdog, the reader, the stop input ... asks for cleanup.
TaskLatches(t) ==
    /\ t \in tasks /\ ~latched
    /\ Latch
    /\ UNCHANGED <<lock, claimed, cleanup, run, stop>>

TaskEnds(t) ==
    /\ t \in tasks
    /\ tasks' = tasks \ {t}
    /\ UNCHANGED <<lock, claimed, terminal, latched, cleanup, run, stop>>

\* _cleanup_coordinator waits for the request and ends with the teardown,
\* which cancels every task.  Only the rollback cancels it.
CoordinatorEnds ==
    /\ cleanup.kind = "coordinator" /\ latched
    /\ run # "observing"
    /\ tasks' = {}
    /\ cleanup' = [cleanup EXCEPT !.kind = "receipt"]
    /\ UNCHANGED <<lock, claimed, terminal, latched, run, stop>>

ObservationEnds ==
    /\ cleanup.kind = "observation"
    /\ cleanup' = [cleanup EXCEPT !.kind = "receipt"]
    /\ UNCHANGED <<lock, claimed, terminal, latched, tasks, run, stop>>

-----------------------------------------------------------------------------
(***************************************************************************)
(* stop.                                                                   *)
(***************************************************************************)

StopCalls(s) ==
    /\ stop[s].at = "idle"
    /\ stop' = [stop EXCEPT ![s].at = "waiting"]
    /\ UNCHANGED <<lock, claimed, terminal, latched, cleanup, tasks, run>>

\* There is no cleanup task: this stop makes one, or a conservative receipt
\* if no task can be created at all, and no run can start any more.
StopBegins(s, kind) ==
    /\ stop[s].at = "waiting" /\ lock = {}
    /\ cleanup.kind = "none"
    /\ terminal' = TRUE
    /\ latched' = TRUE
    /\ NewCleanup(kind)
    /\ stop' = [stop EXCEPT ![s] = [at |-> "awaiting", id |-> cleanup.id + 1]]
    /\ UNCHANGED <<lock, claimed, tasks, run>>

\* A plausible bug: stop leaves it to the run to ask for cleanup.
NeverRuntime == FALSE

RuntimeCleanup == claimed /\ ~latched

\* There is one: it is awaited, after the latch if the run still goes on.
StopJoins(s) ==
    /\ stop[s].at = "waiting" /\ lock = {}
    /\ cleanup.kind # "none"
    /\ stop' = [stop EXCEPT ![s] =
                 [at |-> IF RuntimeCleanup THEN "latching" ELSE "awaiting", id |-> cleanup.id]]
    /\ UNCHANGED <<lock, claimed, terminal, latched, cleanup, tasks, run>>

StopLatches(s) ==
    /\ stop[s].at = "latching"
    /\ Latch
    /\ stop' = [stop EXCEPT ![s].at = "awaiting"]
    /\ UNCHANGED <<lock, claimed, cleanup, run>>

StopReturns(s) ==
    /\ stop[s].at = "awaiting"
    /\ Ready(cleanup) \/ cleanup.id # stop[s].id
    /\ stop' = [stop EXCEPT ![s].at = "returned"]
    /\ UNCHANGED <<lock, claimed, terminal, latched, cleanup, tasks, run>>

-----------------------------------------------------------------------------
RunNext ==
    \/ RunRefused \/ RunStarts \/ RunStartFailsEarly
    \/ \E n \in 0..(Len(StartupTasks) - 1) : RunStartFails(n)
    \/ RollbackCancels \/ RollbackEnds \/ RunEnds

StopperNext(s) ==
    \/ \E kind \in {"observation", "receipt"} : StopBegins(s, kind)
    \/ StopJoins(s) \/ StopLatches(s) \/ StopReturns(s)

RuntimeNext ==
    \/ RunCalls \/ RunNeverEnters \/ RunNext \/ TurnStarts \/ RunLeaves
    \/ CoordinatorEnds \/ ObservationEnds
    \/ \E t \in First(Len(StartupTasks)) \cup {"turn"} : TaskLatches(t) \/ TaskEnds(t)
    \/ \E s \in Stopper : StopCalls(s) \/ StopperNext(s)

RuntimeSpec == RuntimeInit /\ [][RuntimeNext]_runtimeVars

\* The event loop runs what is ready; cleanup is bounded by its own deadlines;
\* run holds the lock across an await only while it rolls back.
RuntimeFairness ==
    /\ WF_runtimeVars(RunNext)
    /\ WF_runtimeVars(CoordinatorEnds)
    /\ WF_runtimeVars(ObservationEnds)
    /\ \A s \in Stopper : WF_runtimeVars(StopperNext(s))

-----------------------------------------------------------------------------
(***************************************************************************)
(* Properties.                                                             *)
(***************************************************************************)

\* After run has ended, or any stop has returned, the cleanup has its receipt
\* and no runtime task goes on uncancelled; nothing starts again.  This is so
\* also when stop races the start, a start that fails half way, or another
\* stop.
StoppedIsQuiet ==
    (run = "done" \/ \E s \in Stopper : stop[s].at = "returned") =>
        tasks = {} /\ Ready(cleanup)

\* A stop awaits the cleanup task that counts: it is not replaced under it.
StopAwaitsTheCleanup ==
    \A s \in Stopper :
        stop[s].at \in {"latching", "awaiting", "returned"} => stop[s].id = cleanup.id

\* Every stop returns with a receipt, whatever state the session was in.
EveryStopReturns ==
    \A s \in Stopper : stop[s].at = "waiting" ~> stop[s].at = "returned"
=============================================================================
