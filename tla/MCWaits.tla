------------------------------ MODULE MCWaits ------------------------------
(***************************************************************************)
(* Calls that wait for somebody else, and must not wait for ever: start    *)
(* and stop of the Core process, end_context_session, an exchange with the *)
(* robot, and stop of a push-to-talk session.  The four modules share no   *)
(* state; the first state chooses the one that moves, and fairness is      *)
(* asked of that one only.                                                 *)
(***************************************************************************)
EXTENDS CoreLifecycle, EdgeRuntime

CONSTANTS Ctx, MaxTurn, Impatient, MaxEndCut                          \* SessionManager
CONSTANTS Corr, StopAll, PendingLimit, Retention, MaxConn, MaxCrash   \* ReachyLink

VARIABLES active, cstate, last, mActive, context, bound, deferred, deferredFor, deferrals, op, note,
          result, ending, leases, known, endingCtx, ended, notified, ender, cuts, languages, workflow
VARIABLES coreTx, coreRx, coreRow, edgeTx, edgeRx, edgeRow, c2e, e2c, paired, slot, cs, cur, withdrawn,
          open, linkDrains, stale, ex, exSeq, pend, crecv, cerr, degraded, core, es, erecv, eerr, late,
          executed, conns, crashes
VARIABLE part

Session == INSTANCE SessionManager WITH MaxDeferred <- 0, Disconnects <- TRUE
Link == INSTANCE ReachyLink WITH draining <- linkDrains

sessionVars == <<active, cstate, last, mActive, context, bound, deferred, deferredFor, deferrals, op,
                 note, result, ending, leases, known, endingCtx, ended, notified, ender, cuts, languages,
                 workflow>>
linkVars == <<coreTx, coreRx, coreRow, edgeTx, edgeRx, edgeRow, c2e, e2c, paired, slot, cs, cur,
              withdrawn, open, linkDrains, stale, ex, exSeq, pend, crecv, cerr, degraded, core, es, erecv,
              eerr, late, executed, conns, crashes>>
waitVars == <<vars, sessionVars, linkVars, runtimeVars, part>>

WaitsInit ==
    /\ Init /\ Session!SMInit /\ Link!Init /\ RuntimeInit
    /\ part \in {"process", "session", "link", "push_to_talk"}
    /\ part # "process" => transport

InProcess(A) == part = "process" /\ A /\ UNCHANGED <<sessionVars, linkVars, runtimeVars, part>>
InSession(A) == part = "session" /\ A /\ UNCHANGED <<vars, linkVars, runtimeVars, part>>
InLink(A) == part = "link" /\ A /\ UNCHANGED <<vars, sessionVars, runtimeVars, part>>
InRuntime(A) == part = "push_to_talk" /\ A /\ UNCHANGED <<vars, sessionVars, linkVars, part>>

WaitsNext ==
    InProcess(Next) \/ InSession(Session!SMNext) \/ InLink(Link!Next) \/ InRuntime(RuntimeNext)

-----------------------------------------------------------------------------
\* Fairness, FairSMSpec, ExchangeFairness, HandlerFairness and RuntimeFairness of the
\* modules, for the part that moves.
ProcessFairness ==
    /\ WF_vars(InProcess(ServerStarts)) /\ WF_vars(InProcess(StartFails))
    /\ WF_vars(InProcess(SafetyAttemptFails \/ RecoveryAdvances))
    /\ WF_vars(InProcess(WorkerStarts)) /\ WF_vars(InProcess(StartReturns))
    /\ WF_vars(InProcess(StartIsCancelled)) /\ WF_vars(InProcess(BudgetCleaned))
    /\ WF_vars(InProcess(CancelStart)) /\ WF_vars(InProcess(StartObserved))
    /\ \A c \in Caller : /\ WF_vars(InProcess(Drain(c))) /\ WF_vars(InProcess(MediaStopped(c)))
                         /\ WF_vars(InProcess(ServerClosed(c))) /\ WF_vars(InProcess(BudgetStopped(c)))
    /\ WF_vars(InProcess(StopAllEnds)) /\ WF_vars(InProcess(stopSet /\ WorkerEnds))
SessionFairness ==
    /\ WF_sessionVars(InSession(Session!BarrierStep))
    /\ \A t \in Session!Turn : /\ WF_sessionVars(InSession(Session!WorkflowStep(t)))
                               /\ WF_sessionVars(InSession(Session!ReturnLease(t)))
    /\ \A t \in Session!Turn, k \in Session!Kind : WF_sessionVars(InSession(Session!OpStep(t, k)))
    /\ \A c \in Session!Context : WF_sessionVars(InSession(Session!EndStep(c)))
LinkFairness ==
    /\ \A c \in Corr : WF_linkVars(InLink(\/ Link!ReserveOutbound(c) \/ Link!SendRequest(c)
                                          \/ Link!ExchangeTimesOut(c) \/ Link!AbandonCorrelation(c)
                                          \/ Link!ExchangeReturns(c)))
    /\ WF_linkVars(InLink(Link!HandshakeFails \/ Link!Publish)) /\ WF_linkVars(InLink(Link!Serve))
    /\ WF_linkVars(InLink(Link!CoreConnectionLost)) /\ WF_linkVars(InLink(Link!PrepareDisconnect))
    /\ WF_linkVars(InLink(Link!TombstoneConnection)) /\ WF_linkVars(InLink(Link!ClearSession))
StopFairness ==
    /\ WF_runtimeVars(InRuntime(RunNext)) /\ WF_runtimeVars(InRuntime(CoordinatorEnds))
    /\ WF_runtimeVars(InRuntime(ObservationEnds))
    /\ \A s \in Stopper : WF_runtimeVars(InRuntime(StopperNext(s)))

WaitsSpec ==
    /\ WaitsInit /\ [][WaitsNext]_waitVars
    /\ ProcessFairness /\ SessionFairness /\ LinkFairness /\ StopFairness

\* The end of a context session does not sleep for ever.
EndReturns == Session!EndReturns
\* No exchange with the robot and no handler of a lost connection waits for ever.
LinkWaitsEnd == Link!LinkWaitsEnd
=============================================================================
