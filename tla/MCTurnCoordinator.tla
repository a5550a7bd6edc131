------------------------- MODULE MCTurnCoordinator -------------------------
(***************************************************************************)
(* Two retried tasks of the Core, each with its own state: the             *)
(* cancellation barrier of a turn, and the workers that carry out          *)
(* committed revocations (one event, two workers, two of the four          *)
(* families, leases of two ticks).  The first state chooses which moves.   *)
(***************************************************************************)
EXTENDS TurnCoordinator, SubjectRevocation

VARIABLE part

InTurn(A) == part = "turn" /\ A /\ UNCHANGED <<outboxVars, part>>
InOutbox(A) == part = "outbox" /\ A /\ UNCHANGED <<vars, part>>

MCInit == Init /\ OutboxInit /\ part \in {"turn", "outbox"}
MCNext == InTurn(Next) \/ InOutbox(OutboxNext)

\* FairSpec and OutboxFairSpec, for the part that moves.
MCFairness ==
    /\ WF_vars(InTurn(SafetyStep)) /\ WF_vars(InTurn(JoinStep)) /\ WF_vars(InTurn(BarrierStep))
    /\ \A w \in Worker : /\ WF_outboxVars(InOutbox(WorkerStep(w)))
                         /\ WF_outboxVars(InOutbox(StartWorker(w)))
    /\ WF_outboxVars(InOutbox(Tick))

MCSpec == MCInit /\ [][MCNext]_<<vars, outboxVars, part>> /\ MCFairness

=============================================================================
