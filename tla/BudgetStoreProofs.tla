------------------------- MODULE BudgetStoreProofs -------------------------
(***************************************************************************)
(* Proofs about BudgetStore and RevokedCalls, for any number of            *)
(* reservations and months and any prices, limits and batch size.          *)
(***************************************************************************)
EXTENDS RevokedCalls, TLAPS

\* Both rows of a reservation tell one story, the types and the ledger included:
\* none of the three is inductive alone, since a settlement is typed only when the
\* pair proves that the call is finished, and the ledger only adds up from zero.
IInv == TypeOK /\ TransportProofConsistent /\ LedgerAgrees

\* A new store satisfies the invariant.
LEMMA InitIInv == Init => IInv
BY BudgetConstants DEF Init, IInv, TypeOK, TransportProofConsistent, ProofPair, LedgerAgrees,
   Exists, State, Phase, Month, Reservation, Allowed, Denied, NULL, ProvenUnsent

\* A reservation keeps it.
LEMMA ReserveIInv ==
  ASSUME IInv, NEW r \in Reservation, NEW quote \in Quotes \cup {NoQuote}, Reserve(r, quote)
  PROVE  IInv'
<1>1. ReserveOutcome(quote) \in Allowed \cup Denied
  BY Zenon DEF ReserveOutcome, Allowed, Denied
<1>2. ReserveOutcome(quote) \in Allowed => quote \in 1..MaxCharge
  BY Zenon, BudgetConstants DEF ReserveOutcome, Allowed, NoQuote
<1>3. TypeOK'
  BY <1>1, <1>2, BudgetConstants DEF IInv, TypeOK, Reserve, Fresh, Exists, State, Allowed, Denied,
     callVars, timeVars, NULL
<1>4. TransportProofConsistent'
  BY <1>1 DEF IInv, TypeOK, TransportProofConsistent, ProofPair, Reserve, Fresh, Exists, State, Allowed, Denied,
     callVars, timeVars, NULL, ProvenUnsent, InFlight, Finished
<1>5. LedgerAgrees'
  BY Zenon, <1>1 DEF IInv, TypeOK, LedgerAgrees, Reserve, Fresh, Exists, State, Allowed, Denied, callVars, timeVars
<1>. QED BY <1>3, <1>4, <1>5 DEF IInv

\* The begin of a provider call keeps it.
LEMMA BeginIInv ==
  ASSUME IInv, NEW r \in Reservation, Begin(r)
  PROVE  IInv'
<1>1. receipt[r] = NULL /\ state' = state /\ outcome' = outcome
  BY Zenon DEF IInv, TypeOK, TransportProofConsistent, ProofPair, Begin
<1>2. TypeOK'
  BY Zenon DEF IInv, TypeOK, Begin, Exists, Phase, settingVars, timeVars
<1>3. TransportProofConsistent'
  BY <1>1 DEF IInv, TypeOK, TransportProofConsistent, ProofPair, Begin, Exists, 
     ProvenUnsent, InFlight, Finished, Finish
<1>4. LedgerAgrees'
  BY Zenon DEF IInv, LedgerAgrees, Begin, Exists
<1>. QED BY <1>2, <1>3, <1>4 DEF IInv

\* The proof that a call was sent keeps it.
LEMMA MarkSentIInv ==
  ASSUME IInv, NEW r \in Reservation, MarkSent(r)
  PROVE  IInv'
BY DEF IInv, TypeOK, TransportProofConsistent, ProofPair, LedgerAgrees, MarkSent, Exists, State, Phase,
   ProvenUnsent, InFlight, Finished, settingVars, timeVars, Finish

\* The proof that a call reached the network keeps it.
LEMMA MarkNetworkIInv ==
  ASSUME IInv, NEW r \in Reservation, MarkNetwork(r)
  PROVE  IInv'
BY DEF IInv, TypeOK, TransportProofConsistent, ProofPair, LedgerAgrees, MarkNetwork, Exists, Phase,
   ProvenUnsent, InFlight, Finished, settingVars, timeVars, Finish

\* The end of a call keeps it.
LEMMA FinishCallIInv ==
  ASSUME IInv, NEW r \in Reservation, NEW end \in Finish, NEW usage \in Actuals \cup {NULL},
         FinishCall(r, end, usage)
  PROVE  IInv'
BY BudgetConstants DEF IInv, TypeOK, TransportProofConsistent, ProofPair, LedgerAgrees, FinishCall,
   Exists, Phase, ProvenUnsent, InFlight, Finished, settingVars, timeVars, Finish, NULL

\* The freeze that follows a rolled-back settlement keeps it.
LEMMA FreezeQuarantineIInv ==
  ASSUME IInv, NEW r \in Reservation, FreezeQuarantine(r)
  PROVE  IInv'
BY DEF IInv, TypeOK, TransportProofConsistent, ProofPair, LedgerAgrees, FreezeQuarantine,
   Exists, ProvenUnsent, InFlight, Finished, rowVars, callVars, timeVars, QuarantineReason

\* Time that passes keeps it.
LEMMA TimeIInv ==
  ASSUME IInv, Expire \/ MonthTurns
  PROVE  IInv'
<1>1. UNCHANGED dbVars
  BY Zenon DEF Expire, MonthTurns
<1>2. thisMonth' \in Month /\ clock' \in 0..MaxReservation
  BY BudgetConstants DEF IInv, TypeOK, Expire, MonthTurns, Month
<1>. QED
  BY Zenon, <1>1, <1>2 DEF IInv, TypeOK, TransportProofConsistent, ProofPair, LedgerAgrees, Exists,
     ProvenUnsent, InFlight, Finished, rowVars, callVars, dbVars, settingVars

\* The step that closes rows, of whatever kind, keeps it.
LEMMA CloseRowsIInv ==
  ASSUME IInv, NEW batch \in SUBSET Reservation, CloseRows(batch)
  PROVE  IInv'
<1>1. \A r \in Settling(batch) : Charge(r) \in 0..MaxCharge
  BY Zenon DEF IInv, TypeOK, CloseRows, Settling, Settleable, Charge, InFlight, Finished, Finish
<1>2. \A r \in Freezing(batch) : ReasonIn(batch, r) \in OverrunReason
  BY Zenon DEF Freezing, ReasonIn, FreezeReason, OverrunReason
<1>3. Freezing(batch) \subseteq Reservation
  BY Zenon DEF Freezing, Settling
<1>4. TypeOK'
  <2>1. /\ state' \in [Reservation -> State]
        /\ phase' \in [Reservation -> Phase]
        /\ charged' \in [Reservation -> 0..MaxCharge \cup {NULL}]
    BY Zenon, <1>1 DEF IInv, TypeOK, CloseRows, State, Phase
  <2>2. /\ callOutcome' \in [Reservation -> Finish \cup {"none", "started"}]
        /\ callPhase' \in [Reservation -> Phase]
    BY Zenon DEF IInv, TypeOK, CloseRows, Phase, Finish
  <2>3. /\ ledger' \in [Reservation -> Nat]
        /\ frozen' \subseteq Month
        /\ alert' \in [Reservation -> OverrunReason \cup QuarantineReason \cup {"none"}]
    BY <1>1, <1>2, <1>3, BudgetConstants DEF IInv, TypeOK, CloseRows
  <2>4. ASSUME NEW r \in Reservation
        PROVE  /\ charged'[r] # NULL <=> outcome'[r] # "none" /\ state'[r] = "settled"
               /\ state'[r] = "denied" <=> outcome'[r] \notin Allowed
    BY <1>1, BudgetConstants DEF IInv, TypeOK, CloseRows, Settling, Unsent, Settleable, Exists, Open,
       NULL, ProvenUnsent
  <2>. QED
    BY Zenon, <2>1, <2>2, <2>3, <2>4 DEF IInv, TypeOK, CloseRows, Exists, timeVars
<1>5. TransportProofConsistent'
  <2>. SUFFICES ASSUME NEW r \in Reservation PROVE ProofPair(r)'
    BY Zenon DEF TransportProofConsistent
  <2>1. CASE r \notin batch
    BY Zenon, <2>1 DEF IInv, CloseRows, TransportProofConsistent, ProofPair, Settling, Unsent, Exists, ProvenUnsent, InFlight, Finished
  <2>2. CASE r \in batch /\ ProvenUnsent(r)
    BY Zenon, <2>2 DEF IInv, CloseRows, TransportProofConsistent, ProofPair, Settling, Unsent, ProvenUnsent, Exists
  <2>3. CASE r \in batch /\ ~ProvenUnsent(r)
    <3>1. r \in Settling(batch) /\ r \notin Unsent(batch) /\ Settleable(r)
      BY Zenon, <2>3 DEF Settling, Unsent, CloseRows
    <3>2. state'[r] = "settled" /\ phase'[r] = "finished" /\ receipt'[r] = receipt[r]
      BY Zenon, <3>1, <2>3 DEF CloseRows
    <3>3. \/ callOutcome[r] = "started" /\ callOutcome'[r] = "ambiguous" /\ callPhase'[r] = "finished"
          \/ Finished(r) /\ callOutcome'[r] = callOutcome[r] /\ callPhase'[r] = callPhase[r]
      BY Zenon, <3>1, <2>3 DEF CloseRows, Settleable, InFlight, Finished, Finish
    <3>. QED BY <3>2, <3>3 DEF IInv, TransportProofConsistent, ProofPair, Finished, Finish
  <2>. QED BY <2>1, <2>2, <2>3
<1>6. LedgerAgrees'
  <2>. SUFFICES ASSUME NEW r \in Reservation
                PROVE  ledger'[r] = IF outcome'[r] # "none" /\ state'[r] = "settled"
                                    THEN charged'[r] ELSE 0
    BY Zenon DEF LedgerAgrees, Exists
  <2>1. CASE r \in Settling(batch)
    BY <2>1, <1>1 DEF IInv, LedgerAgrees, CloseRows, Settling, Unsent, Settleable, Exists, Open
  <2>2. CASE r \notin Settling(batch)
    BY Zenon, <2>2 DEF IInv, LedgerAgrees, CloseRows, Unsent, ProvenUnsent, Exists
  <2>. QED BY <2>1, <2>2
<1>. QED BY <1>4, <1>5, <1>6 DEF IInv

\* Every step of the store keeps the invariant.
LEMMA StepIInv == IInv /\ [Next]_vars => IInv'
<1>. SUFFICES ASSUME IInv, [Next]_vars PROVE IInv'
  BY Zenon
<1>1. CASE UNCHANGED vars
  BY Zenon, <1>1 DEF vars, dbVars, rowVars, callVars, settingVars, timeVars, IInv, TypeOK,
     TransportProofConsistent, ProofPair, LedgerAgrees, Exists, ProvenUnsent, InFlight, Finished
<1>2. ASSUME NEW r \in Reservation, ReleaseUnsent(r) \/ Settle(r)
      PROVE  IInv'
  BY Zenon, <1>2, CloseRowsIInv DEF ReleaseUnsent, Settle
<1>3. ASSUME NEW boundary, ReconcileBatch(boundary)
      PROVE  IInv'
  <2>1. Batch(boundary) \in SUBSET Reservation
    BY Zenon DEF Batch
  <2>. QED BY <1>3, <2>1, CloseRowsIInv DEF ReconcileBatch
<1>. QED
  BY Zenon, <1>1, <1>2, <1>3, ReserveIInv, BeginIInv, MarkSentIInv, MarkNetworkIInv, FinishCallIInv,
     FreezeQuarantineIInv, TimeIInv DEF Next

\* Types and schema constraints, the agreement of the two rows of every reservation
\* and the agreement of the ledger hold in every reachable state.
THEOREM IInvAlways == Spec => []IInv
BY InitIInv, StepIInv, PTL DEF Spec

\* No transaction ever leaves a reservation row and its call row contradicting each
\* other: no open reservation is stranded by "budget_transport_proof_quarantined".
THEOREM ProofPairsAlways == Spec => []TransportProofConsistent
BY IInvAlways, PTL DEF IInv

\* Every settled reservation is in the ledger once, for its charge, and nothing else is.
THEOREM LedgerAlways == Spec => []LedgerAgrees
BY IInvAlways, PTL DEF IInv

\* No step changes what a closed reservation left behind.
LEMMA StepFinal ==
  ASSUME IInv, [Next]_vars, NEW x \in Reservation, Exists(x) /\ ~Open(x)
  PROVE  RowKept(x)
<1>. USE DEF RowKept
<1>1. CASE UNCHANGED <<rowVars, callVars, ledger>>
  BY Zenon, <1>1 DEF rowVars, callVars
<1>2. ASSUME NEW r \in Reservation, NEW quote, Reserve(r, quote)
      PROVE  RowKept(x)
  BY Zenon, <1>2 DEF IInv, TypeOK, Reserve, Fresh, Exists, callVars
<1>3. ASSUME NEW r \in Reservation, Begin(r)
      PROVE  RowKept(x)
  BY Zenon, <1>3 DEF IInv, TypeOK, Begin, Open, Exists
<1>4. ASSUME NEW r \in Reservation, MarkSent(r)
      PROVE  RowKept(x)
  BY Zenon, <1>4 DEF IInv, TypeOK, MarkSent, Open, Exists
<1>5. ASSUME NEW r \in Reservation, MarkNetwork(r)
      PROVE  RowKept(x)
  BY Zenon, <1>5 DEF IInv, TypeOK, MarkNetwork, Open, Exists
<1>6. ASSUME NEW r \in Reservation, NEW end, NEW usage, FinishCall(r, end, usage)
      PROVE  RowKept(x)
  BY Zenon, <1>6 DEF IInv, TypeOK, FinishCall, Open, Exists
<1>7. ASSUME NEW batch \in SUBSET Reservation, CloseRows(batch)
      PROVE  RowKept(x)
  <2>1. x \notin batch
    BY Zenon, <1>7 DEF CloseRows, Settling, Settleable, ProvenUnsent, Open
  <2>. QED BY <1>7, <2>1 DEF CloseRows, Settling, Unsent
<1>8. ASSUME NEW r \in Reservation, ReleaseUnsent(r) \/ Settle(r)
      PROVE  RowKept(x)
  BY Zenon, <1>8, <1>7 DEF ReleaseUnsent, Settle
<1>9. ASSUME NEW boundary, ReconcileBatch(boundary)
      PROVE  RowKept(x)
  <2>1. Batch(boundary) \in SUBSET Reservation
    BY Zenon DEF Batch
  <2>. QED BY <1>9, <2>1, <1>7 DEF ReconcileBatch
<1>10. CASE (\E r \in Reservation : FreezeQuarantine(r)) \/ Expire \/ MonthTurns \/ UNCHANGED vars
  BY Zenon, <1>10, <1>1 DEF FreezeQuarantine, Expire, MonthTurns, vars, dbVars
<1>. QED
  BY Zenon, <1>2, <1>3, <1>4, <1>5, <1>6, <1>8, <1>9, <1>10 DEF Next

\* Once a reservation is settled, released or denied, no transaction of any actor
\* changes its row, its call, its receipt or its ledger amount.
THEOREM FinalAlways == Spec => TerminalIsFinal
<1>1. IInv /\ [Next]_vars =>
        [\A r \in Reservation : Exists(r) /\ ~Open(r) => RowKept(r)]_vars
  BY StepFinal
<1>. QED BY <1>1, IInvAlways, PTL DEF Spec, TerminalIsFinal

\* Less or more than the reservation is charged only on attested usage, whoever settles.
THEOREM ChargesAlways == Spec => []ChargeJustified
<1>1. Init => ChargeJustified
  BY Zenon DEF Init, ChargeJustified
<1>2. IInv /\ ChargeJustified /\ [Next]_vars => ChargeJustified'
  <2> SUFFICES ASSUME IInv, ChargeJustified, [Next]_vars, NEW x \in Reservation,
                      state'[x] = "settled", charged'[x] # reserved'[x]
               PROVE  callOutcome'[x] = "succeeded" /\ receipt'[x] = charged'[x]
    BY Zenon DEF ChargeJustified
  <2>1. CASE Exists(x) /\ ~Open(x)
    BY Zenon, <2>1, StepFinal DEF RowKept, ChargeJustified
  <2>2. CASE ~Exists(x) \/ Open(x)
    <3>0. state[x] # "settled"
      BY Zenon, <2>2 DEF IInv, TypeOK, Exists, Open, Allowed, Denied
    <3>1. ASSUME NEW batch \in SUBSET Reservation, CloseRows(batch)
          PROVE  callOutcome'[x] = "succeeded" /\ receipt'[x] = charged'[x]
      <4>1. x \in Settling(batch) /\ x \in batch /\ ~ProvenUnsent(x)
        BY Zenon, <3>0, <3>1 DEF CloseRows, Settling, Unsent
      <4>2. charged'[x] = Charge(x) /\ reserved' = reserved /\ receipt' = receipt
        BY Zenon, <3>1, <4>1 DEF CloseRows
      <4>3. callOutcome[x] = "succeeded" /\ charged'[x] = receipt[x]
        BY Zenon, <4>2 DEF Charge
      <4> QED
        BY Zenon, <3>1, <4>2, <4>3 DEF CloseRows
    <3>2. ASSUME NEW r \in Reservation, ReleaseUnsent(r) \/ Settle(r)
          PROVE  callOutcome'[x] = "succeeded" /\ receipt'[x] = charged'[x]
      BY Zenon, <3>1, <3>2 DEF ReleaseUnsent, Settle
    <3>3. ASSUME NEW boundary, ReconcileBatch(boundary)
          PROVE  callOutcome'[x] = "succeeded" /\ receipt'[x] = charged'[x]
      <4>1. Batch(boundary) \in SUBSET Reservation
        BY Zenon DEF Batch
      <4> QED
        BY Zenon, <3>1, <3>3, <4>1 DEF ReconcileBatch
    <3>4. ASSUME NEW r \in Reservation, NEW quote, Reserve(r, quote) PROVE FALSE
      BY Zenon, <3>0, <3>4 DEF Reserve, IInv, TypeOK
    <3>5. ASSUME NEW r \in Reservation, Begin(r) \/ MarkSent(r) \/ MarkNetwork(r) \/ FreezeQuarantine(r) PROVE FALSE
      BY Zenon, <3>0, <3>5 DEF Begin, MarkSent, MarkNetwork, FreezeQuarantine, rowVars, IInv, TypeOK
    <3>6. ASSUME NEW r \in Reservation, NEW end, NEW usage, FinishCall(r, end, usage) PROVE FALSE
      BY Zenon, <3>0, <3>6 DEF FinishCall
    <3>7. CASE Expire \/ MonthTurns \/ UNCHANGED vars
      BY Zenon, <3>0, <3>7 DEF Expire, MonthTurns, vars, dbVars, rowVars
    <3> QED
      BY Zenon, <3>2, <3>3, <3>4, <3>5, <3>6, <3>7 DEF Next
  <2> QED
    BY Zenon, <2>1, <2>2
<1> QED
  BY <1>1, <1>2, IInvAlways, PTL DEF Spec

-----------------------------------------------------------------------------
(***************************************************************************)
(* The calls of a revoked subject.  IInv does not survive a revocation,    *)
(* which settles without a ledger row and cancels a call beside an open    *)
(* reservation; what follows needs only how far a started call has come.   *)
(***************************************************************************)

\* A started call is as far as its reservation, and only a succeeded one has a receipt.
CallInv(r) ==
    /\ callOutcome[r] = "started" => callPhase[r] = phase[r]
    /\ receipt[r] # NULL => callOutcome[r] = "succeeded"

ClosedInv ==
    /\ phase \in [Reservation -> Phase] /\ callPhase \in [Reservation -> Phase]
    /\ callOutcome \in [Reservation -> Finish \cup {"none", "started"}]
    /\ receipt \in [Reservation -> Actuals \cup {NULL}]
    /\ closed \subseteq Reservation
    /\ \A r \in Reservation : CallInv(r)
    /\ RevokedCallStaysClosed

\* Every step of the store leaves what a revocation closed closed.
LEMMA StoreKeepsClosed ==
  ASSUME ClosedInv, Next, closed' = closed
  PROVE  ClosedInv'
<1> USE DEF ClosedInv, CallInv, RevokedCallStaysClosed
<1>1. ASSUME NEW r \in Reservation, NEW quote, Reserve(r, quote) PROVE ClosedInv'
  BY Zenon, <1>1 DEF Reserve, callVars
<1>2. ASSUME NEW r \in Reservation, Begin(r) PROVE ClosedInv'
  BY Zenon, <1>2 DEF Begin, Phase
<1>3. ASSUME NEW r \in Reservation, MarkSent(r) PROVE ClosedInv'
  BY Zenon, <1>3 DEF MarkSent, Phase
<1>4. ASSUME NEW r \in Reservation, MarkNetwork(r) PROVE ClosedInv'
  BY Zenon, <1>4 DEF MarkNetwork, Phase
<1>5. ASSUME NEW r \in Reservation, NEW end \in Finish, NEW usage \in Actuals \cup {NULL},
             FinishCall(r, end, usage)
      PROVE  ClosedInv'
  BY Zenon, <1>5 DEF FinishCall, Phase, Finish
<1>6. ASSUME NEW batch \in SUBSET Reservation, CloseRows(batch) PROVE ClosedInv'
  <2>1. /\ phase' \in [Reservation -> Phase] /\ callPhase' \in [Reservation -> Phase]
        /\ callOutcome' \in [Reservation -> Finish \cup {"none", "started"}]
        /\ receipt' = receipt
    BY Zenon, <1>6 DEF CloseRows, Phase, Finish
  <2>2. \A r \in Reservation : \/ phase'[r] = "finished" /\ callOutcome'[r] # "started"
                               \/ /\ phase'[r] = phase[r] /\ callPhase'[r] = callPhase[r]
                                  /\ callOutcome'[r] = callOutcome[r]
    BY Zenon, <1>6 DEF CloseRows
  <2>3. \A r \in Reservation : callOutcome[r] # "started" => callOutcome'[r] = callOutcome[r]
    BY Zenon, <1>6 DEF CloseRows
  <2> QED
    BY Zenon, <2>1, <2>2, <2>3
<1>7. ASSUME NEW r \in Reservation, ReleaseUnsent(r) \/ Settle(r) PROVE ClosedInv'
  BY Zenon, <1>6, <1>7 DEF ReleaseUnsent, Settle
<1>8. ASSUME NEW boundary, ReconcileBatch(boundary) PROVE ClosedInv'
  <2>1. Batch(boundary) \in SUBSET Reservation
    BY Zenon DEF Batch
  <2> QED
    BY Zenon, <1>6, <1>8, <2>1 DEF ReconcileBatch
<1>9. CASE (\E r \in Reservation : FreezeQuarantine(r)) \/ Expire \/ MonthTurns
  BY Zenon, <1>9 DEF FreezeQuarantine, Expire, MonthTurns, dbVars, rowVars, callVars
<1> QED
  BY Zenon, <1>1, <1>2, <1>3, <1>4, <1>5, <1>7, <1>8, <1>9 DEF Next

\* So does the revocation itself, also when it is repeated.
LEMMA RevocationKeepsClosed ==
  ASSUME ClosedInv, RevokeSubject
  PROVE  ClosedInv'
<1> USE DEF ClosedInv, CallInv
<1>1. StartedCalls \subseteq Reservation
  BY Zenon, SubjectConstants DEF StartedCalls
<1>2. /\ phase' \in [Reservation -> Phase] /\ callPhase' \in [Reservation -> Phase]
      /\ callOutcome' \in [Reservation -> Finish \cup {"none", "started"}]
      /\ receipt' = receipt /\ closed' = closed \cup StartedCalls
  BY Zenon DEF RevokeSubject, Phase, Finish
<1>3. ASSUME NEW r \in StartedCalls
      PROVE  /\ callOutcome'[r] \in {"cancelled", "ambiguous"} /\ receipt[r] = NULL
             /\ phase'[r] \notin {"marked_sent", "network_invocation_starting"}
  <2>1. r \in Reservation /\ callOutcome[r] = "started" /\ receipt[r] = NULL /\ callPhase[r] = phase[r]
    BY Zenon, <1>1 DEF StartedCalls
  <2>2. callOutcome'[r] \in {"cancelled", "ambiguous"}
    BY Zenon, <2>1 DEF RevokeSubject
  <2>3. CASE callPhase[r] = "claim_begun"
    BY Zenon, <2>1, <2>3 DEF RevokeSubject
  <2>4. CASE callPhase[r] # "claim_begun" /\ state[r] \in {"reserved", "sent"}
    BY Zenon, <2>1, <2>4 DEF RevokeSubject
  <2>5. CASE callPhase[r] # "claim_begun" /\ state[r] \notin {"reserved", "sent"}
    BY Zenon, <2>1, <2>5 DEF RevokeSubject, SettlementProven
  <2> QED
    BY Zenon, <2>1, <2>2, <2>3, <2>4, <2>5
<1>4. ASSUME NEW r \in Reservation \ StartedCalls
      PROVE  /\ callOutcome'[r] = callOutcome[r] /\ phase'[r] = phase[r] /\ callPhase'[r] = callPhase[r]
  BY Zenon DEF RevokeSubject
<1>5. RevokedCallStaysClosed'
  BY Zenon, <1>2, <1>3, <1>4 DEF RevokedCallStaysClosed
<1>6. \A r \in Reservation : CallInv(r)'
  BY Zenon, <1>2, <1>3, <1>4
<1> QED
  BY Zenon, <1>1, <1>2, <1>5, <1>6

\* Whatever the gateway, the reconcilers and repeated revocations do afterwards, in any
\* order: a call that a revocation closed is neither sent nor answered any more.
THEOREM RevokedAlwaysClosed == RevokedSpec => []RevokedCallStaysClosed
<1>1. RevokedInit => ClosedInv
  BY DEF RevokedInit, Init, ClosedInv, CallInv, RevokedCallStaysClosed, Phase
<1>2. ClosedInv /\ [RevokedNext]_revokedVars => ClosedInv'
  <2>1. ASSUME ClosedInv, UNCHANGED revokedVars PROVE ClosedInv'
    BY Zenon, <2>1 DEF revokedVars, vars, dbVars, rowVars, callVars, ClosedInv, CallInv, RevokedCallStaysClosed
  <2> QED
    BY Zenon, <2>1, StoreKeepsClosed, RevocationKeepsClosed DEF RevokedNext
<1>3. ClosedInv => RevokedCallStaysClosed
  BY Zenon DEF ClosedInv
<1> QED
  BY <1>1, <1>2, <1>3, PTL DEF RevokedSpec

=============================================================================
