--------------------------- MODULE SessionManager ---------------------------
(***************************************************************************)
(* SessionManager: admission of household turns, the ends of turns and of  *)
(* context sessions, and the context leases under which a turn reads and   *)
(* extends the language prior of its context session.  The coordinator is  *)
(* HouseholdTurn, which TurnCoordinator implements.                        *)
(*                                                                         *)
(* A turn opened without a context session gets one of its own, named by   *)
(* the turn.  Every section under the manager's lock is one step (inside   *)
(* it the manager only awaits the coordinator's lock, which is never held  *)
(* across an await).  finish and cancel are operations of their own, so    *)
(* their caller's cancellation does not stop them.                         *)
(***************************************************************************)
EXTENDS HouseholdTurn, FiniteSets

CONSTANTS
    Ctx,         \* context sessions that callers name
    MaxDeferred, \* wakes that are deferred
    Disconnects, \* whether the transport may cancel the turn past the manager
    Impatient,   \* turns whose workflow may be cancelled while it waits for finish
    MaxEndCut    \* end_context_session calls that are cancelled while they wait

ASSUME SessionConstants ==
    /\ MaxDeferred \in Nat /\ MaxEndCut \in Nat /\ Disconnects \in BOOLEAN
    /\ Ctx \cap Turn = {} /\ Impatient \subseteq Turn

Context == Ctx \cup Turn
Kind == {"finish", "cancel"}

VARIABLES
    mActive,             \* _active: the admitted turn
    context,             \* the context session a turn was admitted or queued with
    bound,               \* turns in _turn_context_sessions
    deferred, deferredFor, deferrals,
    op,                  \* _operations: where the operation of a turn and kind is
    note,                \* whether it notifies the end of the turn's own context
    result,              \* what finish returned to the workflow
    ending,              \* _ending_turns
    leases,              \* _context_leases
    known,               \* _known_context_sessions
    endingCtx, ended,    \* _ending_context_sessions, _ended_context_sessions
    notified,            \* _notified_context_sessions
    ender,               \* end_context_session of a context: where it is
    cuts,
    languages,           \* SessionLanguageRegistry: contexts that have a prior
    workflow             \* ContractConversationWorkflow.run of a turn

turnState == <<mActive, context, bound, deferred, deferredFor, deferrals>>
opState == <<op, note, result, ending>>
ctxState == <<leases, known, endingCtx, ended, notified, ender, cuts, languages>>
smVars == <<turnVars, turnState, opState, ctxState, workflow>>

SMInit ==
    /\ CInit
    /\ mActive = NoTurn /\ context = [t \in Turn |-> t] /\ bound = {}
    /\ deferred = NoTurn /\ deferredFor = NoTurn /\ deferrals = 0
    /\ op = [t \in Turn |-> [k \in Kind |-> "none"]]
    /\ note = [t \in Turn |-> [k \in Kind |-> FALSE]]
    /\ result = [t \in Turn |-> "none"] /\ ending = {}
    /\ leases = [t \in Turn |-> 0] /\ known = {} /\ endingCtx = {} /\ ended = {}
    /\ notified = {} /\ ender = [c \in Context |-> "none"] /\ cuts = 0 /\ languages = {}
    /\ workflow = [t \in Turn |-> "none"]

----------------------------------------------------------------------------
(* Sections shared by the operations.                                       *)

\* _synchronize_release: what _active becomes, given the ending turns.
Synchronized(end) ==
    IF mActive # NoTurn /\ active # mActive /\ mActive \notin end /\ leases[mActive] = 0
    THEN NoTurn ELSE mActive

Closed(c) == c \in endingCtx \cup ended

\* The coordinator starts t in context c; b are the turns that stay bound.
Admit(t, c, b) ==
    /\ CStart(t)
    /\ mActive' = t /\ bound' = b \cup {t} /\ known' = known \cup {c}

\* Mutant: the waiting calls are not woken.
WokenNobody == ender

\* _lease_condition.notify_all
Woken == [c \in Context |-> IF ender[c] = "asleep" THEN "checking" ELSE ender[c]]

MayAdmitDeferred(m, t) ==
    m = NoTurn /\ deferred # NoTurn /\ deferredFor = t /\ cstate = "idle"

ForgetDeferred == deferred' = NoTurn /\ deferredFor' = NoTurn

\* A waiting wake is started, or dropped when its context was closed meanwhile.
AdmitDeferred(b) ==
    \/ ~Closed(context[deferred]) /\ Admit(deferred, context[deferred], b) /\ ForgetDeferred
    \/ /\ Closed(context[deferred]) /\ ForgetDeferred
       /\ mActive' = NoTurn /\ bound' = b /\ UNCHANGED <<active, cstate, known>>

----------------------------------------------------------------------------
(* open                                                                     *)

OpenRefused(c) == Closed(c) \/ endingCtx # {} \/ cstate = "blocked"

\* c is the context the caller names; without one the turn is its own context.
OpenContext(c) ==
    LET t == last + 1
        own == c = NoTurn
        ctx == IF own THEN t ELSE c
    IN /\ last < MaxTurn /\ ~OpenRefused(ctx)
       /\ ~MayAdmitDeferred(Synchronized(ending), deferredFor)
       /\ Synchronized(ending) = NoTurn
       /\ Admit(t, ctx, bound) /\ last' = t
       /\ context' = [context EXCEPT ![t] = ctx]
       /\ workflow' = [workflow EXCEPT ![t] = "running"]
       /\ UNCHANGED <<deferred, deferredFor, deferrals, opState,
                      leases, endingCtx, ended, notified, ender, cuts, languages>>

\* open of another turn, or admit_deferred_if_safe, finds a wake waiting; a rejected
\* open only synchronises, which every later step does by itself.
AdmitWaiting ==
    /\ deferred # NoTurn /\ MayAdmitDeferred(Synchronized(ending), deferredFor)
    /\ AdmitDeferred(bound)
    /\ UNCHANGED <<last, context, deferrals, opState, workflow,
                   leases, endingCtx, ended, notified, ender, cuts, languages>>

QueueDeferred ==
    /\ deferrals < MaxDeferred /\ last < MaxTurn
    /\ mActive # NoTurn /\ AcceptsResults(mActive) /\ deferred = NoTurn
    /\ ~Closed(context[mActive])
    /\ deferred' = last + 1 /\ deferredFor' = mActive /\ last' = last + 1
    /\ context' = [context EXCEPT ![last + 1] = context[mActive]]
    /\ deferrals' = deferrals + 1
    /\ UNCHANGED <<active, cstate, mActive, bound, opState, ctxState, workflow>>

\* The caller of a deferred wake runs its workflow once it is admitted.
RunDeferred(t) ==
    /\ mActive = t /\ workflow[t] = "none" /\ workflow' = [workflow EXCEPT ![t] = "running"]
    /\ UNCHANGED <<turnVars, turnState, opState, ctxState>>

----------------------------------------------------------------------------
(* active_context_lease and PersonalizedTurnContextProvider.prepare         *)

MayLease(t) ==
    mActive = t /\ t \notin ending /\ ~Closed(context[t]) /\ AcceptsResults(t)

TakeLease(t) ==
    /\ workflow[t] = "running" /\ leases[t] = 0 /\ MayLease(t)
    /\ leases' = [leases EXCEPT ![t] = @ + 1]
    /\ UNCHANGED <<turnVars, turnState, opState, workflow,
                   known, endingCtx, ended, notified, ender, cuts, languages>>

DetectLanguage(t) ==
    /\ leases[t] > 0 /\ context[t] \notin languages
    /\ languages' = languages \cup {context[t]}
    /\ UNCHANGED <<turnVars, turnState, opState, workflow,
                   leases, known, endingCtx, ended, notified, ender, cuts>>

ReturnLease(t) ==
    /\ leases[t] > 0 /\ leases' = [leases EXCEPT ![t] = @ - 1]
    /\ ender' = Woken
    /\ UNCHANGED <<turnVars, turnState, opState, workflow,
                   known, endingCtx, ended, notified, cuts, languages>>

----------------------------------------------------------------------------
(* finish and cancel                                                        *)

At(t, k, p) == op[t][k] = p
Goto(t, k, p) == op' = [op EXCEPT ![t][k] = p]

\* The lock section of finish and cancel: the turn is ending, an operation is made.
Spawn(t, k) ==
    IF Synchronized(ending) = t
    THEN /\ ending' = ending \cup {t} /\ Goto(t, k, "bind")
         /\ UNCHANGED <<mActive, note>>
    ELSE mActive' = Synchronized(ending) /\ UNCHANGED <<ending, op, note>>

\* The workflow's task has ended, so it holds no lease.  A running cancellation is
\* awaited instead, and finish returns False.
WorkflowFinish(t) ==
    /\ workflow[t] = "running" /\ leases[t] = 0
    /\ IF op[t]["cancel"] # "none"
       THEN workflow' = [workflow EXCEPT ![t] = "cancel"] /\ UNCHANGED <<mActive, opState>>
       ELSE /\ Spawn(t, "finish")
            /\ result' = [result EXCEPT
                    ![t] = IF Synchronized(ending) = t THEN "pending" ELSE "false"]
            /\ workflow' = [workflow EXCEPT ![t] = "finish"]
    /\ UNCHANGED <<turnVars, context, bound, deferred, deferredFor, deferrals, ctxState>>

\* finish returned False: the turn was cancelled by someone else, so the workflow
\* completes that cancellation.  After True or an error it is over.
WorkflowFinished(t) ==
    /\ workflow[t] = "finish" /\ result[t] # "pending" /\ At(t, "finish", "none")
    /\ workflow' = [workflow EXCEPT ![t] = IF result[t] = "false" THEN "cancel" ELSE "over"]
    /\ UNCHANGED <<turnVars, turnState, opState, ctxState>>

\* The run was cancelled or timed out, perhaps while it waited for finish: its cleanup
\* cancels the turn.
WorkflowGivesUp(t) ==
    /\ \/ workflow[t] = "running"
       \/ workflow[t] = "finish" /\ result[t] = "pending" /\ t \in Impatient
    /\ workflow' = [workflow EXCEPT ![t] = "cancel"]
    /\ UNCHANGED <<turnVars, turnState, opState, ctxState>>

WorkflowCancel(t) ==
    /\ workflow[t] = "cancel" /\ workflow' = [workflow EXCEPT ![t] = "over"]
    /\ IF op[t]["cancel"] # "none" THEN UNCHANGED <<mActive, op, note, ending>>
       ELSE Spawn(t, "cancel")
    /\ UNCHANGED <<turnVars, context, bound, deferred, deferredFor, deferrals, result, ctxState>>

\* cancel by another caller than the workflow
OtherCancel(t) ==
    /\ op[t]["cancel"] = "none" /\ Synchronized(ending) = t
    /\ cstate # "blocked"
    /\ Spawn(t, "cancel")
    /\ UNCHANGED <<turnVars, context, bound, deferred, deferredFor, deferrals,
                   result, ctxState, workflow>>

\* _turn_context_for_finalize
OpBind(t, k) ==
    /\ At(t, k, "bind") /\ Goto(t, k, "coordinator")
    /\ note' = [note EXCEPT ![t][k] = t \in bound /\ context[t] \in Turn]
    /\ UNCHANGED <<turnVars, turnState, result, ending, ctxState, workflow>>

Answer(t, k, r) == result' = IF k = "finish" THEN [result EXCEPT ![t] = r] ELSE result

\* The coordinator publishes the end of the turn, or cannot create the barrier.
Publishes(t, k) ==
    \/ CPublish /\ Goto(t, k, "barrier") /\ UNCHANGED result
    \/ CBlock /\ Goto(t, k, "no") /\ Answer(t, k, "raised")

\* TurnCoordinator.finish and cancel up to their barrier
OpCoordinator(t, k) ==
    /\ At(t, k, "coordinator")
    /\ \/ /\ AcceptsResults(t) /\ Publishes(t, k)
       \/ /\ k = "finish" /\ UNCHANGED <<active, cstate>> /\ Goto(t, k, "no")
          /\ \/ ~AcceptsResults(t) /\ Answer(t, k, "false")
             \/ AcceptsResults(t) /\ Answer(t, k, "raised")    \* unsettled attempts
       \/ /\ k = "cancel" /\ ~AcceptsResults(t) /\ UNCHANGED <<active, cstate, result>>
          /\ Goto(t, k, IF active # t THEN "leases"
                        ELSE IF cstate = "cancelling" THEN "barrier" ELSE "no")
    /\ UNCHANGED <<last, turnState, note, ending, ctxState, workflow>>

OpBarrier(t, k) ==
    /\ At(t, k, "barrier")
    /\ \/ active # t /\ Goto(t, k, "leases") /\ Answer(t, k, "true")
       \/ active = t /\ cstate = "blocked" /\ Goto(t, k, "no") /\ Answer(t, k, "raised")
    /\ UNCHANGED <<turnVars, turnState, note, ending, ctxState, workflow>>

OpLeases(t, k) ==
    /\ At(t, k, "leases") /\ leases[t] = 0
    /\ Goto(t, k, IF note[t][k] THEN "notify" ELSE "yes")
    /\ UNCHANGED <<turnVars, turnState, note, result, ending, ctxState, workflow>>

\* _notify_context_session_ended_once
OpNotify(t, k) ==
    /\ At(t, k, "notify")
    /\ notified' = notified \cup {context[t]}
    /\ Goto(t, k, IF context[t] \in notified THEN "yes" ELSE "handlers")
    /\ UNCHANGED <<turnVars, turnState, note, result, ending, workflow,
                   leases, known, endingCtx, ended, ender, cuts, languages>>

\* Every handler is called, also after one that fails.
OpHandlers(t, k) ==
    /\ At(t, k, "handlers") /\ languages' = languages \ {context[t]}
    /\ Goto(t, k, "yes")
    /\ UNCHANGED <<turnVars, turnState, note, result, ending, workflow,
                   leases, known, endingCtx, ended, notified, ender, cuts>>

\* The finally section; the operation leaves _operations.
OpFinal(t, k) ==
    LET released == At(t, k, "yes")
        m == Synchronized(ending \ {t})
        rest == IF released THEN bound \ {t} ELSE bound
    IN /\ op[t][k] \in {"yes", "no"} /\ Goto(t, k, "none")
       /\ note' = [note EXCEPT ![t][k] = FALSE]
       /\ ending' = ending \ {t} /\ ender' = Woken
       /\ IF released /\ MayAdmitDeferred(m, t)
          THEN AdmitDeferred(rest)
          ELSE /\ mActive' = m /\ bound' = rest
               /\ UNCHANGED <<active, cstate, known, deferred, deferredFor>>
       /\ UNCHANGED <<last, context, deferrals, result, workflow,
                      leases, endingCtx, ended, notified, cuts, languages>>

OpStep(t, k) ==
    \/ OpBind(t, k) \/ OpCoordinator(t, k) \/ OpBarrier(t, k) \/ OpLeases(t, k)
    \/ OpNotify(t, k) \/ OpHandlers(t, k) \/ OpFinal(t, k)

----------------------------------------------------------------------------
(* end_context_session                                                      *)

\* _context_session_has_live_turn_or_lease
LiveContext(c) ==
    \/ mActive # NoTurn /\ context[mActive] = c
    \/ \E t \in ending \cap bound : context[t] = c
    \/ \E t \in Turn : leases[t] > 0 /\ context[t] = c

EndBegins(c) ==
    /\ ender[c] = "none" /\ c \in known \ ended
    /\ endingCtx' = endingCtx \cup {c}
    /\ ender' = [Woken EXCEPT ![c] = "checking"]
    /\ UNCHANGED <<turnVars, turnState, opState, workflow,
                   leases, known, ended, notified, cuts, languages>>

\* Mutant: only the leases are waited for, not the admitted turn.
EndChecksLeases(c) ==
    /\ ender[c] = "checking"
    /\ ender' = [ender EXCEPT ![c] =
            IF \E t \in Turn : leases[t] > 0 /\ context[t] = c THEN "asleep" ELSE "notify"]
    /\ UNCHANGED <<turnVars, turnState, opState, workflow,
                   leases, known, endingCtx, ended, notified, cuts, languages>>

EndChecks(c) ==
    /\ ender[c] = "checking"
    /\ ender' = [ender EXCEPT ![c] = IF LiveContext(c) THEN "asleep" ELSE "notify"]
    /\ UNCHANGED <<turnVars, turnState, opState, workflow,
                   leases, known, endingCtx, ended, notified, cuts, languages>>

EndNotifies(c) ==
    /\ ender[c] = "notify"
    /\ notified' = notified \cup {c}
    /\ ender' = [ender EXCEPT ![c] = IF c \in notified THEN "mark" ELSE "handlers"]
    /\ UNCHANGED <<turnVars, turnState, opState, workflow,
                   leases, known, endingCtx, ended, cuts, languages>>

EndHandlers(c) ==
    /\ ender[c] = "handlers" /\ languages' = languages \ {c}
    /\ ender' = [ender EXCEPT ![c] = "mark"]
    /\ UNCHANGED <<turnVars, turnState, opState, workflow,
                   leases, known, endingCtx, ended, notified, cuts>>

\* The caller is cancelled while it waits: the finally section still runs.
EndCut(c) ==
    /\ ender[c] \in {"checking", "asleep"} /\ cuts < MaxEndCut
    /\ cuts' = cuts + 1 /\ ender' = [ender EXCEPT ![c] = "mark"]
    /\ UNCHANGED <<turnVars, turnState, opState, workflow,
                   leases, known, endingCtx, ended, notified, languages>>

EndMarks(c) ==
    /\ ender[c] = "mark"
    /\ endingCtx' = endingCtx \ {c} /\ ended' = ended \cup {c}
    /\ ender' = [Woken EXCEPT ![c] = "returned"]
    /\ UNCHANGED <<turnVars, turnState, opState, workflow,
                   leases, known, notified, cuts, languages>>

EndStep(c) == EndChecks(c) \/ EndNotifies(c) \/ EndHandlers(c) \/ EndMarks(c)

----------------------------------------------------------------------------
(* The coordinator's own steps.                                             *)

\* The workflow's cleanup is in the manager, or has been, or was never due.
CleanupEntered(t) ==
    workflow[t] \in {"none", "over"} \/ At(t, "finish", "barrier")

\* The barrier joins the turn's task and waits for the robot and the database; the
\* workflow, woken by the same task, needs a few rounds of the event loop only.
BarrierReleases ==
    /\ active # NoTurn /\ CleanupEntered(active)
    /\ CRelease /\ UNCHANGED <<last, turnState, opState, ctxState, workflow>>

BarrierBlocks ==
    /\ cstate = "cancelling" /\ CBlock
    /\ UNCHANGED <<last, turnState, opState, ctxState, workflow>>

\* CoreDisconnectSafetyFacade cancels at the coordinator, past the manager.
Disconnect ==
    /\ Disconnects /\ CPublish
    /\ UNCHANGED <<last, turnState, opState, ctxState, workflow>>

BarrierStep == BarrierReleases \/ BarrierBlocks

WorkflowStep(t) ==
    WorkflowFinish(t) \/ WorkflowFinished(t) \/ WorkflowGivesUp(t) \/ WorkflowCancel(t)

SMNext ==
    \/ \E c \in Ctx \cup {NoTurn} : OpenContext(c)
    \/ AdmitWaiting \/ QueueDeferred
    \/ \E t \in Turn : \/ RunDeferred(t) \/ WorkflowStep(t) \/ OtherCancel(t)
                       \/ TakeLease(t) \/ DetectLanguage(t) \/ ReturnLease(t)
    \/ \E t \in Turn, k \in Kind : OpStep(t, k)
    \/ \E c \in Context : EndBegins(c) \/ EndStep(c) \/ EndCut(c)
    \/ BarrierStep \/ Disconnect

SMSpec == SMInit /\ [][SMNext]_smVars

(* Operations and end_context_session are tasks that the event loop runs;   *)
(* a workflow ends, a lease is given back, a barrier ends (TurnCoordinator  *)
(* shows the last).  Nobody has to open, cancel, disconnect or defer.       *)
FairSMSpec ==
    /\ SMSpec /\ WF_smVars(BarrierStep)
    /\ \A t \in Turn : WF_smVars(WorkflowStep(t)) /\ WF_smVars(ReturnLease(t))
    /\ \A t \in Turn, k \in Kind : WF_smVars(OpStep(t, k))
    /\ \A c \in Context : WF_smVars(EndStep(c))

----------------------------------------------------------------------------
(* Properties *)

Live(c) == LiveContext(c) \/ (active # NoTurn /\ context[active] = c)

\* The end of c is being announced by the call or operation that notified it first.
HandlersRun(c) ==
    ender[c] = "handlers" \/ \E t \in Turn, k \in Kind : At(t, k, "handlers") /\ context[t] = c

\* A context session that was ended is over: no turn, ending turn or lease is in it, and
\* its language prior is gone or being cleared -- as long as the caller of
\* end_context_session was not cancelled while it waited, and no deferred wake had
\* inherited the context of a single turn.
EndedContextIsOver ==
    cuts = 0 => \A c \in ended :
        ~Live(c) /\ (c \in languages => HandlersRun(c) \/ (c \in Turn /\ deferrals > 0))

\* No turn is started in a context session that is being ended or was ended.
ClosedContextStaysClosed ==
    [][\A c \in Context : Closed(c) /\ active' # active /\ active' # NoTurn
                            => context'[active'] # c]_smVars

Quiet ==
    /\ active = NoTurn /\ mActive = NoTurn /\ deferred = NoTurn /\ ending = {}
    /\ \A t \in Turn, k \in Kind : At(t, k, "none")
    /\ \A c \in Context : ender[c] # "handlers"

\* When nothing is going on, the language prior of a single turn's own context is gone,
\* unless the turn's finish was refused for unsettled attempts and the transport
\* cancelled it later, or a deferred wake inherited the context.
PriorsAreCleared ==
    Quiet => \A c \in languages : c \in Ctx \/ deferrals > 0 \/ result[c] = "raised"

\* When nothing is going on, the language prior of a single turn's own context is gone:
\* the session-ended handler has cleared it.
PriorNeverOutlivesItsSession == Quiet => languages \subseteq Ctx

\* When the household is idle, end_context_session returns or a deferred wake starts: no
\* wake-up of the waiting call is lost -- unless a turn's finish was refused for unsettled
\* attempts and the transport cancelled that turn past the manager, which then never
\* learns that the turn is over.
EndReturns ==
    \A c \in Context :
        ender[c] = "asleep" /\ active = NoTurn
            ~> ender[c] # "asleep" \/ active # NoTurn \/ \E t \in Turn : result[t] = "raised"

\* Ending a context session is final and complete, in whatever order wakes, finishes,
\* cancellations and leases come: nothing of it goes on, starts again or is remembered.
ContextsEnd == [](EndedContextIsOver /\ PriorsAreCleared) /\ ClosedContextStaysClosed

=============================================================================
