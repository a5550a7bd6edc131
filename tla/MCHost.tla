------------------------------- MODULE MCHost -------------------------------
(***************************************************************************)
(* What the host's storage and its bounded calls promise when something    *)
(* fails or is cancelled: model installation, transactions over the        *)
(* encrypted database, its migration, the audit chain, the receipts of     *)
(* spoken answers, and the two guards that put a deadline on a call.  They *)
(* share no state here; the first state chooses the part that moves.       *)
(***************************************************************************)
EXTENDS ModelInstall, Transactions, Migration, DeadlineGuard, ResponseReceipts, EdgeDeadline, TLC

CONSTANTS Body, HmacKey, MaxOrdinal, MaxSegment, MaxDamage         \* AuditChain

VARIABLES receipts, segments, key, written, sealed, damage
VARIABLE part

Audit == INSTANCE AuditChain

auditVars == <<receipts, segments, key, written, sealed, damage>>
allVars == <<installVars, txVars, migVars, auditVars, receiptVars, guardVars, deadlineVars, part>>

HostInit ==
    /\ InstallInit /\ TxInit /\ MigInit /\ Audit!AuditInit /\ ReceiptInit
    /\ GuardInit /\ DeadlineInit
    /\ part \in {"install", "tx", "upgrade", "audit", "receipt", "guard", "edge"}
    /\ part # "upgrade" => db.file = "absent"
    /\ part # "audit" => key = CHOOSE k \in HmacKey : TRUE
    /\ part # "receipt" => keyId = CHOOSE k \in ReceiptKey : TRUE

Only(p, others) == part = p /\ UNCHANGED <<part, others>>

HostNext ==
    \/ /\ Only("install", <<txVars, migVars, auditVars, receiptVars, guardVars, deadlineVars>>)
       /\ InstallNext
    \/ /\ Only("tx", <<installVars, migVars, auditVars, receiptVars, guardVars, deadlineVars>>)
       /\ TxNext
    \/ /\ Only("upgrade", <<installVars, txVars, auditVars, receiptVars, guardVars, deadlineVars>>)
       /\ MigNext
    \/ /\ Only("audit", <<installVars, txVars, migVars, receiptVars, guardVars, deadlineVars>>)
       /\ Audit!AuditNext
    \/ /\ Only("receipt", <<installVars, txVars, migVars, auditVars, guardVars, deadlineVars>>)
       /\ ReceiptNext
    \/ /\ Only("guard", <<installVars, txVars, migVars, auditVars, receiptVars, deadlineVars>>)
       /\ GuardNext
    \/ /\ Only("edge", <<installVars, txVars, migVars, auditVars, receiptVars, guardVars>>)
       /\ DeadlineNext

HostSpec == HostInit /\ [][HostNext]_allVars

\* The calls of the Edge are interchangeable names.
EdgeCalls == Permutations(Bounded)

\* The audit verifier accepts every undamaged chain and no chain that was not written.
VerifierIsRight == Audit!VerifierIsRight

=============================================================================
