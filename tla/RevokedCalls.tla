---------------------------- MODULE RevokedCalls ----------------------------
(***************************************************************************)
(* The budget tables when a subject is revoked in the middle of cloud      *)
(* calls.  The post-commit handler for the family "provider_routes" closes *)
(* the subject's started calls with SQL of its own, beside BudgetGuard and *)
(* ProviderCallRepository (BudgetStore).  The handler runs at least once,  *)
(* so the action may repeat.                                               *)
(***************************************************************************)
EXTENDS BudgetStore

CONSTANT OfSubject  \* reservations whose route authorization names the revoked subject

ASSUME SubjectConstants == OfSubject \subseteq Reservation

VARIABLE closed     \* history: reservations whose call a revocation closed

revokedVars == <<vars, closed>>

----------------------------------------------------------------------------

StartedCalls == {r \in OfSubject : callOutcome[r] = "started"}

RevokedCharge(r) == reserved[r]

\* A settled row is accepted as it is only when it holds the full charge.
SettlementProven(r) == state[r] = "settled" /\ phase[r] = "finished" /\ charged[r] = reserved[r]

(* _close_and_settle_revoked_subject_provider_calls: a call that was only   *)
(* claimed is cancelled and its reservation is not touched; a call that may *)
(* be on the wire becomes ambiguous and its reservation is settled in full. *)
(* No cost_ledger row is written.  Without started calls nothing changes.   *)
RevokeSubject ==
    LET calls == StartedCalls
        onWire == {r \in calls : callPhase[r] # "claim_begun"}
        settles == {r \in onWire : state[r] \in {"reserved", "sent"}}
    IN /\ calls # {}
       /\ \A r \in onWire \ settles : SettlementProven(r)
       /\ callOutcome' = [r \in Reservation |->
                             IF r \in onWire THEN "ambiguous"
                             ELSE IF r \in calls THEN "cancelled" ELSE callOutcome[r]]
       /\ callPhase' = [r \in Reservation |-> IF r \in calls THEN "finished" ELSE callPhase[r]]
       /\ state' = [r \in Reservation |-> IF r \in settles THEN "settled" ELSE state[r]]
       /\ phase' = [r \in Reservation |-> IF r \in settles THEN "finished" ELSE phase[r]]
       /\ charged' = [r \in Reservation |->
                         IF r \in settles THEN RevokedCharge(r) ELSE charged[r]]
       /\ closed' = closed \cup calls
       /\ UNCHANGED <<outcome, month, reserved, receipt, ledger, settingVars, timeVars>>

RevokedInit == Init /\ closed = {}

RevokedNext == RevokeSubject \/ (Next /\ UNCHANGED closed)

RevokedSpec == RevokedInit /\ [][RevokedNext]_revokedVars

----------------------------------------------------------------------------
(* Properties *)

\* A call that a revocation closed stays closed: the gateway task that still holds it
\* can neither send it nor record its late answer and usage.
RevokedCallStaysClosed ==
    \A r \in closed :
        /\ callOutcome[r] \in {"cancelled", "ambiguous"} /\ receipt[r] = NULL
        /\ phase[r] \notin {"marked_sent", "network_invocation_starting"}

\* What the expiry reconciler relies on: an open row is proven unsent, in flight or
\* finished, so that it can be released or settled and never blocks its batch.
OpenRowsReconcile ==
    \A r \in Reservation : Open(r) => ProvenUnsent(r) \/ InFlight(r) \/ Finished(r)

=============================================================================
