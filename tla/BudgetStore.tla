---------------------------- MODULE BudgetStore ----------------------------
(***************************************************************************)
(* The durable side of cloud spending: the tables budget_reservations,     *)
(* provider_calls, cost_ledger and the budget keys of runtime_settings,    *)
(* and every transaction that writes them (BudgetGuard,                    *)
(* ProviderCallRepository, ExpiredBudgetReconciler).                       *)
(*                                                                         *)
(* One action is one transaction.  AsyncUnitOfWork holds one process-wide  *)
(* lock and opens BEGIN IMMEDIATE, so transactions are serialised; an      *)
(* exception rolls back, so a refused transaction is no step at all.       *)
(* A transaction reads the clock and queues on the (FIFO) lock without     *)
(* yielding, so clock readings are in transaction order and the reading is *)
(* part of the step.                                                       *)
(*                                                                         *)
(* This module lets any caller attempt any transaction at any time.  The   *)
(* callers' own control flow is in ProviderAttempt.                        *)
(***************************************************************************)
EXTENDS Integers, FiniteSets, FiniteSetsExt

CONSTANTS
    MaxReservation, \* rows ever inserted; a row's number is its place in (expires_at, id) order
    MaxMonth,       \* accounting months 1..MaxMonth
    Quotes,         \* what Pricing.quote may return for a usage ceiling
    Actuals,        \* what amount_from_snapshot may return for attested usage (or Unpriced)
    MaxCharge,      \* MAX_CHARGE_MICROS_SGD
    SoftLimit, HardLimit,
    BatchSize       \* rows one reconciliation transaction takes

NULL == -1      \* an SQL NULL in an integer or receipt column
Unpriced == -2  \* attested usage outside the snapshot's tier schedule: no price
NoQuote == 0    \* pricing or snapshot issue failed (a quote of zero is refused)

ASSUME BudgetConstants ==
    /\ MaxReservation \in Nat \ {0}
    /\ MaxMonth \in Nat \ {0}
    /\ MaxCharge \in Nat
    /\ Quotes \subseteq 1..MaxCharge
    /\ Actuals \subseteq Nat \cup {Unpriced}
    /\ SoftLimit \in Nat /\ HardLimit \in Nat
    /\ BatchSize \in Nat \ {0}

Reservation == 1..MaxReservation
Month == 1..MaxMonth

Allowed == {"allow", "allow_soft_warning"}
Denied == {"deny_cloud_egress_frozen", "deny_unknown_price", "deny_hard_limit"}
State == {"reserved", "sent", "settled", "released", "denied"}
Phase == {"not_claimed", "claim_begun", "marked_sent",
          "network_invocation_starting", "finished"}
Finish == {"succeeded", "failed", "cancelled", "ambiguous"}
OverrunReason == {"hard_cap_actual_exceeded", "estimate_overrun"}
QuarantineReason == {"provider_usage_missing_unknown_overage",
                     "budget_total_invalid_unknown_overage"}

VARIABLES
    outcome,     \* budget_reservations.outcome; "none" while the row does not exist
    state,       \* budget_reservations.state
    phase,       \* budget_reservations.transport_phase
    month,       \* budget_reservations.month_key
    reserved,    \* budget_reservations.reserved_micros_sgd
    charged,     \* budget_reservations.charged_micros_sgd
    callOutcome, \* provider_calls.outcome of the reservation's call; "none": no call row
    callPhase,   \* provider_calls.transport_phase
    receipt,     \* the amount the call's attested usage receipt prices to, or NULL
    ledger,      \* cost_ledger: the sum of charged_micros_sgd over the reservation's rows
    frozen,      \* months with a budget.cloud_egress_freeze key
    warned,      \* months with a budget.soft_warning key
    alert,       \* reason in budget.owner_alert.<month>.<reservation>, or "none"
    thisMonth,   \* singapore_month_key(now)
    clock        \* rows 1..clock have expires_at <= now

rowVars == <<outcome, state, phase, month, reserved, charged>>
callVars == <<callOutcome, callPhase, receipt>>
settingVars == <<frozen, warned, alert>>
timeVars == <<thisMonth, clock>>
dbVars == <<rowVars, callVars, ledger, settingVars>>
vars == <<dbVars, timeVars>>

----------------------------------------------------------------------------

Exists(r) == outcome[r] # "none"
Open(r) == Exists(r) /\ state[r] \in {"reserved", "sent"}
Counted(r) == Exists(r) /\ state[r] \in {"reserved", "sent", "settled"}

\* What a row adds to its month: its charge once settled, its reservation before.
Amount(r) == IF state[r] = "settled" THEN charged[r] ELSE reserved[r]

CountedIn(m) == {r \in Reservation : Counted(r) /\ month[r] = m}

MonthTotal(m) == MapThenSumSet(Amount, CountedIn(m))

\* The row that the next INSERT creates.
Fresh(r) == ~Exists(r) /\ \A x \in Reservation : x < r => Exists(x)

Init ==
    /\ outcome = [r \in Reservation |-> "none"]
    /\ state = [r \in Reservation |-> "denied"]
    /\ phase = [r \in Reservation |-> "not_claimed"]
    /\ month = [r \in Reservation |-> 1]
    /\ reserved = [r \in Reservation |-> 0]
    /\ charged = [r \in Reservation |-> NULL]
    /\ callOutcome = [r \in Reservation |-> "none"]
    /\ callPhase = [r \in Reservation |-> "not_claimed"]
    /\ receipt = [r \in Reservation |-> NULL]
    /\ ledger = [r \in Reservation |-> 0]
    /\ frozen = {} /\ warned = {}
    /\ alert = [r \in Reservation |-> "none"]
    /\ thisMonth = 1
    /\ clock = 0

----------------------------------------------------------------------------
(* BudgetGuard.reserve: decide and insert the reservation row, its turn     *)
(* binding and, the first time the soft limit is passed, the month's        *)
(* warning key.                                                             *)

Projected(quote) == MonthTotal(thisMonth) + quote

WarningDue(projected) == projected > SoftLimit /\ thisMonth \notin warned

\* Mutant: the freeze key is not read.
ReserveOutcomeUnfrozen(quote) ==
    IF quote = NoQuote THEN "deny_unknown_price"
    ELSE IF Projected(quote) > HardLimit THEN "deny_hard_limit"
    ELSE IF WarningDue(Projected(quote)) THEN "allow_soft_warning" ELSE "allow"

ReserveOutcome(quote) ==
    IF thisMonth \in frozen THEN "deny_cloud_egress_frozen"
    ELSE IF quote = NoQuote THEN "deny_unknown_price"
    ELSE IF Projected(quote) > HardLimit THEN "deny_hard_limit"
    ELSE IF WarningDue(Projected(quote)) THEN "allow_soft_warning" ELSE "allow"

Reserve(r, quote) ==
    LET verdict == ReserveOutcome(quote)
        allowed == verdict \in Allowed
    IN /\ Fresh(r)
       /\ outcome' = [outcome EXCEPT ![r] = verdict]
       /\ state' = [state EXCEPT ![r] = IF allowed THEN "reserved" ELSE "denied"]
       /\ reserved' = [reserved EXCEPT ![r] = IF allowed THEN quote ELSE 0]
       /\ month' = [month EXCEPT ![r] = thisMonth]
       /\ warned' = IF verdict = "allow_soft_warning"
                    THEN warned \cup {thisMonth} ELSE warned
       /\ UNCHANGED <<phase, charged, callVars, ledger, frozen, alert, timeVars>>

(* ProviderCallRepository.begin: claim the reservation and insert its call. *)
Begin(r) ==
    /\ Exists(r) /\ state[r] = "reserved" /\ phase[r] = "not_claimed" /\ r > clock
    /\ callOutcome[r] = "none"
    /\ phase' = [phase EXCEPT ![r] = "claim_begun"]
    /\ callOutcome' = [callOutcome EXCEPT ![r] = "started"]
    /\ callPhase' = [callPhase EXCEPT ![r] = "claim_begun"]
    /\ UNCHANGED <<outcome, state, month, reserved, charged, receipt,
                   ledger, settingVars, timeVars>>

\* Mutant: the call row is not looked at.
MarkSentByRow(r) ==
    /\ Exists(r) /\ month[r] \notin frozen
    /\ state[r] = "reserved" /\ phase[r] = "claim_begun" /\ r > clock
    /\ state' = [state EXCEPT ![r] = "sent"]
    /\ phase' = [phase EXCEPT ![r] = "marked_sent"]
    /\ callPhase' = [callPhase EXCEPT ![r] = "marked_sent"]
    /\ UNCHANGED <<outcome, month, reserved, charged, callOutcome, receipt,
                   ledger, settingVars, timeVars>>

(* BudgetGuard.mark_sent: from here the money counts as possibly spent. *)
MarkSent(r) ==
    /\ Exists(r) /\ month[r] \notin frozen
    /\ callOutcome[r] = "started" /\ callPhase[r] = "claim_begun" /\ receipt[r] = NULL
    /\ state[r] = "reserved" /\ phase[r] = "claim_begun" /\ r > clock
    /\ state' = [state EXCEPT ![r] = "sent"]
    /\ phase' = [phase EXCEPT ![r] = "marked_sent"]
    /\ callPhase' = [callPhase EXCEPT ![r] = "marked_sent"]
    /\ UNCHANGED <<outcome, month, reserved, charged, callOutcome, receipt,
                   ledger, settingVars, timeVars>>

(* ProviderCallRepository.mark_network_invocation_starting *)
MarkNetwork(r) ==
    /\ callOutcome[r] = "started" /\ callPhase[r] = "marked_sent" /\ receipt[r] = NULL
    /\ state[r] = "sent" /\ phase[r] = "marked_sent"
    /\ phase' = [phase EXCEPT ![r] = "network_invocation_starting"]
    /\ callPhase' = [callPhase EXCEPT ![r] = "network_invocation_starting"]
    /\ UNCHANGED <<outcome, state, month, reserved, charged, callOutcome, receipt,
                   ledger, settingVars, timeVars>>

(* ProviderCallRepository.finish of a started call.  Only a succeeded call  *)
(* carries a receipt.  Finishing a terminal call again writes nothing.      *)
FinishCall(r, end, usage) ==
    /\ end = "succeeded" \/ usage = NULL
    /\ callOutcome[r] = "started"
    /\ callPhase[r] \in {"marked_sent", "network_invocation_starting"}
    /\ receipt[r] = NULL
    /\ state[r] = "sent" /\ phase[r] = callPhase[r]
    /\ callOutcome' = [callOutcome EXCEPT ![r] = end]
    /\ callPhase' = [callPhase EXCEPT ![r] = "finished"]
    /\ receipt' = [receipt EXCEPT ![r] = usage]
    /\ phase' = [phase EXCEPT ![r] = "finished"]
    /\ UNCHANGED <<outcome, state, month, reserved, charged,
                   ledger, settingVars, timeVars>>

\* The repeat of finish that returns quietly instead of conflicting.
FinishRepeats(r, end, usage) ==
    /\ callOutcome[r] = end /\ callPhase[r] = "finished" /\ receipt[r] = usage
    /\ state[r] \in {"sent", "settled"} /\ phase[r] = "finished"

----------------------------------------------------------------------------
(* Closing a reservation: release when the rows prove that nothing was      *)
(* sent, otherwise settle, otherwise quarantine.                            *)

ProvenUnsent(r) ==
    /\ Exists(r) /\ state[r] = "reserved"
    /\ \/ phase[r] = "not_claimed" /\ callOutcome[r] = "none"
       \/ /\ phase[r] = "claim_begun" /\ receipt[r] = NULL
          /\ callOutcome[r] = "started" /\ callPhase[r] = "claim_begun"

\* _settle_locked on a call that is still running: it is closed as ambiguous.
InFlight(r) ==
    /\ callOutcome[r] = "started" /\ state[r] = "sent" /\ receipt[r] = NULL
    /\ callPhase[r] = phase[r]
    /\ phase[r] \in {"marked_sent", "network_invocation_starting"}

\* ... and on a call the gateway has finished.
Finished(r) ==
    /\ callOutcome[r] \in Finish
    /\ callPhase[r] = "finished" /\ phase[r] = "finished"
    /\ callOutcome[r] = "succeeded" \/ receipt[r] = NULL

UsageMissing(r) == callOutcome[r] = "succeeded" /\ receipt[r] = NULL
UsageOutOfRange(r) == callOutcome[r] = "succeeded" /\ receipt[r] > MaxCharge

\* BudgetEvidenceQuarantined (or OverflowError) instead of a charge.  Usage that
\* no tier prices raises a plain PermissionError instead: nothing is frozen.
EvidenceMissing(r) == Open(r) /\ Finished(r) /\ (UsageMissing(r) \/ UsageOutOfRange(r))

\* Mutant: a closed row may be settled again.
SettleableTwice(r) ==
    InFlight(r) \/ (Finished(r) /\ (callOutcome[r] = "succeeded" => receipt[r] \in 0..MaxCharge))

Settleable(r) ==
    /\ Open(r)
    /\ \/ InFlight(r)
       \/ Finished(r) /\ (callOutcome[r] = "succeeded" => receipt[r] \in 0..MaxCharge)

\* Exact usage when the call succeeded, the whole reservation otherwise.
Charge(r) == IF callOutcome[r] = "succeeded" THEN receipt[r] ELSE reserved[r]

FreezeReason(r, monthlyAfter) ==
    IF monthlyAfter > HardLimit THEN "hard_cap_actual_exceeded"
    ELSE IF Charge(r) > reserved[r] THEN "estimate_overrun" ELSE "none"

(* One transaction that closes every row of batch, in row order: rows       *)
(* proven unsent are released, the others are settled.  release_unsent and  *)
(* settle are the one-row batches; _reconcile_batch takes many.             *)

Unsent(batch) == {r \in batch : ProvenUnsent(r)}
Settling(batch) == {r \in batch : ~ProvenUnsent(r)}

\* What row x counts for when row r of the batch has just been settled.
AmountAt(batch, r, x) ==
    IF x \in Settling(batch) /\ x <= r THEN Charge(x)
    ELSE IF x \in Unsent(batch) /\ x < r THEN 0 ELSE Amount(x)

MonthlyAfter(batch, r) ==
    MapThenSumSet(LAMBDA x : AmountAt(batch, r, x), CountedIn(month[r]))

ReasonIn(batch, r) == FreezeReason(r, MonthlyAfter(batch, r))

Freezing(batch) == {r \in Settling(batch) : ReasonIn(batch, r) # "none"}

CloseRows(batch) ==
    /\ \A r \in Settling(batch) : Settleable(r)
    /\ \A r \in Freezing(batch) : alert[r] \in {"none", ReasonIn(batch, r)}
    /\ state' = [r \in Reservation |-> IF r \in Unsent(batch) THEN "released"
                     ELSE IF r \in Settling(batch) THEN "settled" ELSE state[r]]
    /\ phase' = [r \in Reservation |-> IF r \in batch THEN "finished" ELSE phase[r]]
    /\ charged' = [r \in Reservation |->
                      IF r \in Settling(batch) THEN Charge(r) ELSE charged[r]]
    /\ callOutcome' = [r \in Reservation |->
                          IF r \in batch /\ callOutcome[r] = "started"
                          THEN IF ProvenUnsent(r) THEN "cancelled" ELSE "ambiguous"
                          ELSE callOutcome[r]]
    /\ callPhase' = [r \in Reservation |->
                        IF r \in batch /\ callOutcome[r] = "started"
                        THEN "finished" ELSE callPhase[r]]
    /\ ledger' = [r \in Reservation |->
                     IF r \in Settling(batch) THEN ledger[r] + Charge(r) ELSE ledger[r]]
    /\ frozen' = frozen \cup {month[r] : r \in Freezing(batch)}
    /\ alert' = [r \in Reservation |->
                    IF r \in Freezing(batch) THEN ReasonIn(batch, r) ELSE alert[r]]
    /\ UNCHANGED <<outcome, month, reserved, receipt, warned, timeVars>>

ReleaseUnsent(r) == ProvenUnsent(r) /\ CloseRows({r})

Settle(r) == ~ProvenUnsent(r) /\ CloseRows({r})

\* _freeze_evidence_quarantine: the transaction that follows the rolled-back settlement.
FreezeQuarantine(r) ==
    LET reason == IF UsageMissing(r) THEN "provider_usage_missing_unknown_overage"
                  ELSE "budget_total_invalid_unknown_overage"
    IN /\ EvidenceMissing(r)
       /\ alert[r] \in {"none", reason}
       /\ frozen' = frozen \cup {month[r]}
       /\ alert' = [alert EXCEPT ![r] = reason]
       /\ UNCHANGED <<rowVars, callVars, ledger, warned, timeVars>>

\* Mutant: rows already sent are left to their task.
BatchReserved(boundary) ==
    LET due == {r \in Reservation : Open(r) /\ state[r] = "reserved" /\ r <= boundary}
    IN {r \in due : Cardinality({x \in due : x < r}) < BatchSize}

\* The rows one reconciliation takes: the first BatchSize open rows up to a boundary.
Batch(boundary) ==
    LET due == {r \in Reservation : Open(r) /\ r <= boundary}
    IN {r \in due : Cardinality({x \in due : x < r}) < BatchSize}

\* _reconcile_batch: all rows of the batch in one transaction, or none of them.
ReconcileBatch(boundary) ==
    /\ Batch(boundary) # {}
    /\ CloseRows(Batch(boundary))

----------------------------------------------------------------------------
(* Time: reservations expire in order; the month turns.                     *)

Expire ==
    /\ clock < MaxReservation /\ Exists(clock + 1)
    /\ clock' = clock + 1
    /\ UNCHANGED <<dbVars, thisMonth>>

MonthTurns ==
    /\ thisMonth < MaxMonth
    /\ thisMonth' = thisMonth + 1
    /\ UNCHANGED <<dbVars, clock>>

Next ==
    \/ \E r \in Reservation, quote \in Quotes \cup {NoQuote} : Reserve(r, quote)
    \/ \E r \in Reservation : Begin(r)
    \/ \E r \in Reservation : MarkSent(r)
    \/ \E r \in Reservation : MarkNetwork(r)
    \/ \E r \in Reservation, end \in Finish, usage \in Actuals \cup {NULL} :
            FinishCall(r, end, usage)
    \/ \E r \in Reservation : ReleaseUnsent(r)
    \/ \E r \in Reservation : Settle(r)
    \/ \E r \in Reservation : FreezeQuarantine(r)
    \/ ReconcileBatch(clock)
    \/ ReconcileBatch(MaxReservation)
    \/ Expire
    \/ MonthTurns

Spec == Init /\ [][Next]_vars

----------------------------------------------------------------------------
(* Properties *)

\* Type invariant, with the CHECK constraints of budget_reservations: a row has a
\* charge exactly when it is settled, a positive reservation exactly when allowed.
TypeOK ==
    /\ outcome \in [Reservation -> Allowed \cup Denied \cup {"none"}]
    /\ state \in [Reservation -> State]
    /\ phase \in [Reservation -> Phase]
    /\ month \in [Reservation -> Month]
    /\ reserved \in [Reservation -> 0..MaxCharge]
    /\ charged \in [Reservation -> 0..MaxCharge \cup {NULL}]
    /\ callOutcome \in [Reservation -> Finish \cup {"none", "started"}]
    /\ callPhase \in [Reservation -> Phase]
    /\ receipt \in [Reservation -> Nat \cup {NULL, Unpriced}]
    /\ ledger \in [Reservation -> Nat]
    /\ frozen \subseteq Month /\ warned \subseteq Month
    /\ alert \in [Reservation -> OverrunReason \cup QuarantineReason \cup {"none"}]
    /\ thisMonth \in Month
    /\ clock \in 0..MaxReservation
    /\ \A r \in Reservation :
          /\ charged[r] # NULL <=> Exists(r) /\ state[r] = "settled"
          /\ reserved[r] > 0 <=> outcome[r] \in Allowed
          /\ state[r] = "denied" <=> outcome[r] \notin Allowed

\* The reservation row and its call row always tell the same story, so that no
\* interleaving of gateway, turn reconciliation and expiry reconciliation reaches
\* the "budget_transport_proof_quarantined" errors: an open row is proven unsent,
\* in flight, or finished.
ProofPair(r) ==
    /\ receipt[r] # NULL => callOutcome[r] = "succeeded"
    /\ state[r] = "denied" => phase[r] = "not_claimed" /\ callOutcome[r] = "none"
    /\ state[r] = "reserved" => ProvenUnsent(r)
    /\ state[r] = "sent" => InFlight(r) \/ Finished(r)
    /\ state[r] = "settled" => Finished(r)
    /\ state[r] = "released" => /\ phase[r] = "finished"
                               /\ \/ callOutcome[r] = "none"
                                  \/ callOutcome[r] = "cancelled" /\ callPhase[r] = "finished"

TransportProofConsistent == \A r \in Reservation : ProofPair(r)

\* reserve() promises the monthly hard limit; only the actual usage of calls already
\* sent may exceed it, and then the month is frozen in the same transaction.
HardLimitOrFrozen == \A m \in Month : MonthTotal(m) <= HardLimit \/ m \in frozen

\* The owner's soft-limit warning is never skipped, whichever reservation crosses it, and
\* is given once: one reservation per warned month carries it.
Warnings(m) == {r \in Reservation : outcome[r] = "allow_soft_warning" /\ month[r] = m}
SoftLimitAnnounced ==
    \A m \in Month : /\ MonthTotal(m) > SoftLimit => m \in warned \cup frozen
                     /\ Cardinality(Warnings(m)) = IF m \in warned THEN 1 ELSE 0

\* cost_ledger holds exactly one row per settled reservation, for the charged amount,
\* whoever settled it: the attempt, the turn's reconciliation or the expiry batch.
LedgerAgrees ==
    \A r \in Reservation :
        ledger[r] = IF Exists(r) /\ state[r] = "settled" THEN charged[r] ELSE 0

\* Less (or more) than the reservation is charged only on the attested usage of a
\* succeeded call; anything uncertain costs the full reservation.
ChargeJustified ==
    \A r \in Reservation : state[r] = "settled" /\ charged[r] # reserved[r] =>
        callOutcome[r] = "succeeded" /\ receipt[r] = charged[r]

\* Settled, released and denied are final: no later transaction touches such a row,
\* its call, its ledger amount or its receipt.
RowKept(r) ==
    /\ <<outcome[r], state[r], phase[r], month[r], reserved[r], charged[r]>>'
          = <<outcome[r], state[r], phase[r], month[r], reserved[r], charged[r]>>
    /\ <<callOutcome[r], callPhase[r], receipt[r], ledger[r]>>'
          = <<callOutcome[r], callPhase[r], receipt[r], ledger[r]>>

TerminalIsFinal == [][\A r \in Reservation : Exists(r) /\ ~Open(r) => RowKept(r)]_vars

\* Per month, the open reservations and the ledger behave as BudgetPromise says.
CommittedIn(m) == MapThenSumSet(Amount, {r \in CountedIn(m) : Open(r)})
SpentIn(m) == MapThenSumSet(LAMBDA r : ledger[r], CountedIn(m))
Promise == INSTANCE BudgetPromise WITH committed <- [m \in Month |-> CommittedIn(m)],
                                       spent <- [m \in Month |-> SpentIn(m)]
\* Every transaction on the tables is a step BudgetPromise allows: what a month has
\* committed and spent passes the hard limit only in a frozen month.
ImplementsPromise == Promise!Spec

\* What an auditor of the month asks of the tables, all of it at once and after every
\* transaction: rows and calls agree, every charge is justified and in the ledger, the
\* limits hold or were announced, and nothing closed is opened again.
BooksAreRight ==
    /\ [](TransportProofConsistent /\ HardLimitOrFrozen /\ SoftLimitAnnounced)
    /\ [](LedgerAgrees /\ ChargeJustified)
    /\ TerminalIsFinal

=============================================================================
