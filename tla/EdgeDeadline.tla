---------------------------- MODULE EdgeDeadline ----------------------------
(***************************************************************************)
(* How the push-to-talk runtime of the Edge bounds an operation            *)
(* (_within_deadline), with a clock that may fail.  Every reading of the   *)
(* clock is checked; the first bad one (an exception, a value that is not  *)
(* a time, a step back, a sleeper that returns early) closes the clock for *)
(* good: ordinary operations are cancelled and none is admitted any more,  *)
(* and cleanup operations go on by the event loop's own time.              *)
(*                                                                         *)
(* Calls interleave.  All share one deadline, which is passed or not.      *)
(* The clock's fault generation changes with the first fault only, as far  *)
(* as an admitted ordinary operation can see, so it is the fault itself.   *)
(***************************************************************************)
EXTENDS Naturals

CONSTANTS Bounded,         \* the calls of _within_deadline
          MaxSpawnFault,   \* bound: task creations that fail
          MaxInterrupt     \* bound: cancellations of callers

VARIABLES passed,    \* the deadline lies behind, in real time
          faulted,   \* _clock_faulted
          last,      \* _last_clock_value is past the deadline
          call,      \* [Bounded -> the call's frame]
          op,        \* [Bounded -> the task of its operation]
          timer,     \* [Bounded -> the task that sleeps until the deadline]
          spawnFaults, interrupts

deadlineVars == <<passed, faulted, last, call, op, timer, spawnFaults, interrupts>>

-----------------------------------------------------------------------------
DeadlineInit ==
    /\ passed = FALSE
    /\ faulted = FALSE
    /\ last = FALSE
    /\ call = [c \in Bounded |-> [at |-> "idle"]]
    /\ op = [c \in Bounded |-> "none"]
    /\ timer = [c \in Bounded |-> "none"]
    /\ spawnFaults = 0
    /\ interrupts = 0

OpDone(c) == op[c] \in {"none", "value", "error", "cancelled"}
TimerDone(c) == timer[c] \in {"none", "fired", "raised", "cancelled"}
Ordinary(c) == ~call[c].cleanup

\* A task that runs and is cancelled ends some time later, as it likes.
Cancelled(state) == IF state = "running" THEN "cancelling" ELSE state

\* _fail_clock_closed: the operations of ordinary calls are cancelled.
FailClock(ops) ==
    /\ faulted' = TRUE
    /\ last' = last
    /\ op' = [d \in Bounded |->
                IF call[d].at # "idle" /\ Ordinary(d) THEN Cancelled(ops[d]) ELSE ops[d]]

\* _clock_now, in a step that changes the operations to ops: a good reading
\* is the time, a bad one closes the clock, and a closed clock stands still.
Read(ops) ==
    \/ faulted /\ op' = ops /\ UNCHANGED <<faulted, last>>
    \/ ~faulted /\ last' = passed /\ op' = ops /\ UNCHANGED faulted
    \/ ~faulted /\ FailClock(ops)

-----------------------------------------------------------------------------
(***************************************************************************)
(* The call.                                                               *)
(***************************************************************************)

CallEnded(c, end) == call' = [call EXCEPT ![c].at = "ended", ![c].end = end]

\* The frame is entered: the clock is read, and a closed clock or a passed
\* deadline refuse the operation before it starts.
Refused(frame) == (faulted' /\ ~frame.cleanup) \/ last'

EnterRefused(c, frame) ==
    /\ Read(op)
    /\ Refused(frame)
    /\ call' = [call EXCEPT ![c] = [frame EXCEPT !.at = "ended", !.end = "refused"]]
    /\ UNCHANGED <<passed, timer, spawnFaults, interrupts>>

EnterAdmitted(c, frame) ==
    /\ Read([op EXCEPT ![c] = "running"])
    /\ ~Refused(frame)
    /\ call' = [call EXCEPT ![c] = [frame EXCEPT !.at = "waiting"]]
    /\ timer' = [timer EXCEPT ![c] = "running"]
    /\ UNCHANGED <<passed, spawnFaults, interrupts>>

\* A task cannot be created: those before it are cancelled and joined, and with
\* a retry factory the whole call is made again, once.
EnterUnspawned(c, frame) ==
    /\ spawnFaults < MaxSpawnFault
    /\ Read(op)
    /\ ~Refused(frame)
    /\ spawnFaults' = spawnFaults + 1
    /\ call' = [call EXCEPT ![c] =
                  IF frame.retry THEN [frame EXCEPT !.at = "retry", !.retry = FALSE]
                  ELSE [frame EXCEPT !.at = "ended", !.end = "raised"]]
    /\ UNCHANGED <<passed, timer, interrupts>>

BeginCall(c, frame) ==
    /\ call[c].at = "idle"
    /\ EnterRefused(c, frame) \/ EnterAdmitted(c, frame) \/ EnterUnspawned(c, frame)

Retry(c) ==
    /\ call[c].at = "retry"
    /\ \/ EnterRefused(c, call[c])
       \/ EnterAdmitted(c, call[c])
       \/ EnterUnspawned(c, call[c])

Frame == [at : {"idle"}, cleanup : BOOLEAN, retry : BOOLEAN, end : {"none"}]

\* The wait ends: something is done, or the clock fault is seen.  A fault goes
\* before the deadline, the deadline before the result.
Awake(c) == OpDone(c) \/ TimerDone(c) \/ (Ordinary(c) /\ faulted)

\* The operation is cancelled and joined where it was cancelled.
Joining(c, end) == call' = [call EXCEPT ![c].at = "joining", ![c].end = end]

Unwinding(c, end) == call' = [call EXCEPT ![c].at = "unwinding", ![c].end = end]

\* _validate_clock_sleeper_completion, after the wake-up read the clock: the
\* sleeper must have slept until the deadline by the clock as it stands now.
SleeperTrusted(c) ==
    /\ timer[c] = "fired"
    /\ \/ ~Ordinary(c) /\ faulted'
       \/ last'

WakeByFault(c) ==
    /\ call[c].at = "waiting" /\ Awake(c)
    /\ Read([op EXCEPT ![c] = Cancelled(@)])
    /\ Ordinary(c) /\ faulted'
    /\ Joining(c, "fault")
    /\ UNCHANGED <<passed, timer, spawnFaults, interrupts>>

WakeByTimer(c) ==
    /\ call[c].at = "waiting" /\ TimerDone(c)
    /\ Read([op EXCEPT ![c] = Cancelled(@)])
    /\ ~(Ordinary(c) /\ faulted')
    /\ SleeperTrusted(c)
    /\ Joining(c, "timeout")
    /\ UNCHANGED <<passed, timer, spawnFaults, interrupts>>

\* The sleeper came back early or raised: that is a clock fault too.
WakeByBadTimer(c) ==
    /\ call[c].at = "waiting" /\ TimerDone(c)
    /\ timer[c] = "raised" \/ ~passed
    /\ ~faulted \/ ~Ordinary(c)
    /\ FailClock([op EXCEPT ![c] = Cancelled(@)])
    /\ Unwinding(c, "raised")
    /\ UNCHANGED <<passed, timer, spawnFaults, interrupts>>

WakeTooLate(c) ==
    /\ call[c].at = "waiting" /\ OpDone(c) /\ ~TimerDone(c)
    /\ Read([op EXCEPT ![c] = Cancelled(@)])
    /\ ~(Ordinary(c) /\ faulted')
    /\ last'
    /\ Joining(c, "timeout")
    /\ UNCHANGED <<passed, timer, spawnFaults, interrupts>>

WakeInTime(c) ==
    /\ call[c].at = "waiting" /\ OpDone(c) /\ ~TimerDone(c)
    /\ Read(op)
    /\ ~(Ordinary(c) /\ faulted')
    /\ ~last'
    /\ timer' = [timer EXCEPT ![c] = "cancelled"]
    /\ call' = [call EXCEPT ![c].at = "settling"]
    /\ UNCHANGED <<passed, spawnFaults, interrupts>>

\* The timer is joined; the clock may have failed meanwhile.
SettleCall(c) ==
    /\ call[c].at = "settling"
    /\ IF Ordinary(c) /\ faulted THEN Unwinding(c, "fault") ELSE CallEnded(c, op[c])
    /\ UNCHANGED <<passed, faulted, last, op, timer, spawnFaults, interrupts>>

Joined(c) ==
    /\ call[c].at = "joining" /\ OpDone(c)
    /\ call' = [call EXCEPT ![c].at = "unwinding"]
    /\ UNCHANGED <<passed, faulted, last, op, timer, spawnFaults, interrupts>>

\* A plausible bug: what still runs is cancelled and not joined.
UnwoundAtOnce(c) ==
    /\ call[c].at = "unwinding"
    /\ CallEnded(c, call[c].end)
    /\ timer' = [timer EXCEPT ![c] = "cancelled"]
    /\ op' = [op EXCEPT ![c] = Cancelled(@)]
    /\ UNCHANGED <<passed, faulted, last, spawnFaults, interrupts>>

\* The except clause cancels whatever still runs and joins it again.
Unwound(c) ==
    /\ call[c].at = "unwinding" /\ OpDone(c)
    /\ CallEnded(c, call[c].end)
    /\ timer' = [timer EXCEPT ![c] = "cancelled"]
    /\ UNCHANGED <<passed, faulted, last, op, spawnFaults, interrupts>>

\* The caller is cancelled.  In the except clause itself this ends the call.
Interrupt(c) ==
    /\ interrupts < MaxInterrupt
    /\ interrupts' = interrupts + 1
    /\ \/ /\ call[c].at \in {"waiting", "joining", "settling"}
          /\ Unwinding(c, "interrupted")
       \/ /\ call[c].at = "unwinding"
          /\ CallEnded(c, "escaped")
    /\ op' = [op EXCEPT ![c] = Cancelled(@)]
    /\ UNCHANGED <<passed, faulted, last, timer, spawnFaults>>

-----------------------------------------------------------------------------
(***************************************************************************)
(* The tasks and the time.                                                 *)
(***************************************************************************)

OperationEnds(c) ==
    /\ \/ op[c] = "running" /\ op' \in {[op EXCEPT ![c] = e] : e \in {"value", "error"}}
       \/ op[c] = "cancelling"
          /\ op' \in {[op EXCEPT ![c] = e] : e \in {"value", "error", "cancelled"}}
    /\ UNCHANGED <<passed, faulted, last, call, timer, spawnFaults, interrupts>>

\* _sleep_until_deadline: an ordinary call trusts the clock's sleeper, which may
\* come back early or fail; a cleanup call falls back to the loop's time.
TimerEnds(c) ==
    /\ timer[c] = "running" /\ call[c].at = "waiting"
    /\ \/ (passed \/ Ordinary(c)) /\ timer' = [timer EXCEPT ![c] = "fired"]
       \/ timer' = [timer EXCEPT ![c] = "raised"]
    /\ UNCHANGED <<passed, faulted, last, call, op, spawnFaults, interrupts>>

\* Another reader of the clock finds it broken.
ClockFails ==
    /\ ~faulted
    /\ FailClock(op)
    /\ UNCHANGED <<passed, call, timer, spawnFaults, interrupts>>

DeadlinePasses ==
    /\ ~passed /\ passed' = TRUE
    /\ UNCHANGED <<faulted, last, call, op, timer, spawnFaults, interrupts>>

DeadlineNext ==
    \/ ClockFails \/ DeadlinePasses
    \/ \E c \in Bounded :
          \/ \E frame \in Frame : BeginCall(c, frame)
          \/ Retry(c)
          \/ WakeByFault(c) \/ WakeByTimer(c) \/ WakeByBadTimer(c)
          \/ WakeTooLate(c) \/ WakeInTime(c) \/ SettleCall(c) \/ Joined(c) \/ Unwound(c)
          \/ Interrupt(c) \/ OperationEnds(c) \/ TimerEnds(c)

DeadlineSpec == DeadlineInit /\ [][DeadlineNext]_deadlineVars

-----------------------------------------------------------------------------
(***************************************************************************)
(* Properties.                                                             *)
(***************************************************************************)

\* No operation outlives its call, whichever of the result, the deadline, the
\* clock fault and a cancellation came first; only a caller that is cancelled
\* again while the call is already unwinding leaves it (cancelled) behind.
OperationIsJoined(c) == (call[c].at = "ended" /\ call[c].end # "escaped") => OpDone(c)

\* Once the clock has failed, no ordinary operation hands its caller a value:
\* not one that was ready when the fault was seen, nor one whose call was
\* already settling.
NoValueAfterFault ==
    [][\A c \in Bounded :
          (call[c].at # "ended" /\ call'[c].at = "ended" /\ ~call'[c].cleanup
           /\ call'[c].end = "value") => ~faulted]_deadlineVars

\* A bounded call ends with its operation, and with no value the clock cannot vouch for.
CallsAreBounded == [](\A c \in Bounded : OperationIsJoined(c)) /\ NoValueAfterFault

=============================================================================
