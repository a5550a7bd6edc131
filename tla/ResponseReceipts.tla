-------------------------- MODULE ResponseReceipts --------------------------
(***************************************************************************)
(* The receipt of a provider's answer.  The output pipeline lets an answer *)
(* be spoken only after the receipt service has, in one transaction, bound *)
(* the answer's commitment to the succeeded provider call, stored a        *)
(* receipt for the call's authorization and appended it to the audit       *)
(* ledger, and has then, in a second transaction, read all of it back.     *)
(*                                                                         *)
(* Tasks (validate and synthesize of one provider response) interleave;    *)
(* the same authorization may be validated by several of them, with the    *)
(* same answer or with another one.  The unit of work admits one           *)
(* transaction at a time (owner); its writes stay inside until it commits. *)
(* A commitment is keyed: it names the key it was made with and the answer.*)
(***************************************************************************)
EXTENDS Naturals, Sequences, FiniteSets

CONSTANTS Validation,   \* the tasks
          Authorization,  \* route authorizations of cloud_reasoning calls
          AnswerText,   \* assistant turns
          ReceiptKey,   \* ids of the commitment key
          Segments,     \* bound: sentences an answer is split into
          MaxRaise,     \* bound: transactions that fail
          MaxRestart    \* bound: process restarts

VARIABLES tables,     \* the committed tables
          inTransaction,  \* the tables as the open transaction sees them
          owner,      \* the task whose transaction is open
          answering,  \* [Validation -> its request and where it is]
          keyId,      \* ProviderResponseReceiptService._key_id
          granted,    \* the session's consent to cloud_tts
          raises, restarts

receiptVars == <<tables, inTransaction, owner, answering, keyId, granted, raises, restarts>>

-----------------------------------------------------------------------------
UsageIds == 1..2
NoUsage == 0

Commitment(answer) == [key |-> keyId, answer |-> answer]

\* usage: the usage receipt a succeeded, finished call is evidence for.
\* bound: the commitment columns of the call.  rows: provider_response_receipts
\* (authorization_id is UNIQUE).  audits: the ledger's drafts.
ReceiptInit ==
    /\ tables = [usage  |-> [a \in Authorization |-> NoUsage],
                 bound  |-> [a \in Authorization |-> {}],
                 rows   |-> [a \in Authorization |-> {}],
                 audits |-> [a \in Authorization |-> <<>>]]
    /\ inTransaction = tables
    /\ owner = {}
    /\ answering = [p \in Validation |-> [at |-> "idle"]]
    /\ keyId \in ReceiptKey
    /\ granted = TRUE
    /\ raises = 0
    /\ restarts = 0

Of(p) == answering[p]
Auth(p) == answering[p].auth
AnswerTo(p, place) == answering' = [answering EXCEPT ![p].at = place]

\* The call succeeds, or its usage evidence is quarantined afterwards.
UsageChanges(a) ==
    /\ owner = {}
    /\ \/ tables.usage[a] = NoUsage /\ tables.rows[a] = {} /\ tables' = [tables EXCEPT !.usage[a] = 1]
       \/ tables.usage[a] # NoUsage /\ tables' = [tables EXCEPT !.usage[a] = NoUsage]
    /\ inTransaction' = tables'
    /\ UNCHANGED <<owner, answering, keyId, granted, raises, restarts>>

\* The session's consent to cloud speech is withdrawn.
Withdraw ==
    /\ granted /\ granted' = FALSE
    /\ UNCHANGED <<tables, inTransaction, owner, answering, keyId, raises, restarts>>

\* validate is called with a response: record begins.
Validate(p, a, answer, usage) ==
    /\ answering[p].at = "idle"
    /\ answering' = [answering EXCEPT ![p] = [at |-> "record", auth |-> a, answer |-> answer,
                                    usage |-> usage, said |-> 0]]
    /\ UNCHANGED <<tables, inTransaction, owner, keyId, granted, raises, restarts>>

-----------------------------------------------------------------------------
(***************************************************************************)
(* What both transactions check.                                           *)
(***************************************************************************)

\* A plausible bug: the commitment is not compared.
ReceiptScopeOnly(p, row) == row.key = keyId

\* The receipt's own HMAC is made with the current key and its scope and its
\* commitment are those of the answer at hand.
RequireReceiptExact(p, row) ==
    /\ row.key = keyId
    /\ row.commit = Commitment(Of(p).answer)

RequireExactSucceededUsage(p, seen) ==
    /\ seen.usage[Auth(p)] # NoUsage
    /\ seen.usage[Auth(p)] = Of(p).usage

-----------------------------------------------------------------------------
(***************************************************************************)
(* record.                                                                 *)
(***************************************************************************)

Open(p) ==
    /\ answering[p].at = "record"
    /\ owner = {}
    /\ owner' = {p}
    /\ inTransaction' = tables
    /\ AnswerTo(p, "load")
    /\ UNCHANGED <<tables, keyId, granted, raises, restarts>>

RecordRollsBack(p, place) ==
    /\ owner' = {}
    /\ inTransaction' = tables
    /\ AnswerTo(p, place)
    /\ UNCHANGED tables

\* A receipt exists already: it is compared and returned, and nothing changes.
RecordAgain(p) ==
    /\ answering[p].at = "load"
    /\ inTransaction.rows[Auth(p)] # {}
    /\ RecordRollsBack(p, IF /\ \A row \in inTransaction.rows[Auth(p)] : RequireReceiptExact(p, row)
                             /\ RequireExactSucceededUsage(p, inTransaction)
                          THEN "recorded" ELSE "refused")
    /\ UNCHANGED <<keyId, granted, raises, restarts>>

RecordUnverified(p) ==
    /\ answering[p].at = "load"
    /\ inTransaction.rows[Auth(p)] = {}
    /\ ~RequireExactSucceededUsage(p, inTransaction)
    /\ RecordRollsBack(p, "refused")
    /\ UNCHANGED <<keyId, granted, raises, restarts>>

\* The UPDATE takes a call that is not bound; of one that is, the receipt has
\* to hold the same commitment.
RecordBinds(p) ==
    /\ answering[p].at = "load"
    /\ inTransaction.rows[Auth(p)] = {}
    /\ RequireExactSucceededUsage(p, inTransaction)
    /\ IF inTransaction.bound[Auth(p)] = {}
       THEN /\ inTransaction' = [inTransaction EXCEPT !.bound[Auth(p)] = {Commitment(Of(p).answer)}]
            /\ AnswerTo(p, "insert")
            /\ UNCHANGED <<tables, owner>>
       ELSE RecordRollsBack(p, "refused")
    /\ UNCHANGED <<keyId, granted, raises, restarts>>

RecordInserts(p) ==
    /\ answering[p].at = "insert"
    /\ inTransaction' = [inTransaction EXCEPT !.rows[Auth(p)] =
                    {[commit |-> Commitment(Of(p).answer), key |-> keyId]}]
    /\ AnswerTo(p, "audit")
    /\ UNCHANGED <<tables, owner, keyId, granted, raises, restarts>>

RecordAudits(p) ==
    /\ answering[p].at = "audit"
    /\ inTransaction' = [inTransaction EXCEPT !.audits[Auth(p)] = Append(@, Commitment(Of(p).answer))]
    /\ AnswerTo(p, "commit")
    /\ UNCHANGED <<tables, owner, keyId, granted, raises, restarts>>

\* The commit may raise although it took effect.
RecordCommits(p) ==
    /\ answering[p].at = "commit"
    /\ tables' = inTransaction
    /\ owner' = {}
    /\ \/ AnswerTo(p, "recorded") /\ UNCHANGED raises
       \/ raises < MaxRaise /\ raises' = raises + 1 /\ AnswerTo(p, "refused")
    /\ UNCHANGED <<inTransaction, keyId, granted, restarts>>

\* A statement, the ledger or a cancellation raises: the transaction rolls back.
RecordRaises(p) ==
    /\ owner = {p}
    /\ raises < MaxRaise
    /\ raises' = raises + 1
    /\ RecordRollsBack(p, "refused")
    /\ UNCHANGED <<keyId, granted, restarts>>

-----------------------------------------------------------------------------
\* require_exact, on a transaction of its own, and validate's return.
RequireExact(p) ==
    /\ answering[p].at = "recorded"
    /\ owner = {}
    /\ AnswerTo(p, IF /\ \E row \in tables.rows[Auth(p)] : RequireReceiptExact(p, row)
                      /\ RequireExactSucceededUsage(p, tables)
                   THEN "verified" ELSE "refused")
    /\ UNCHANGED <<tables, inTransaction, owner, keyId, granted, raises, restarts>>

\* synthesize: the consent is asked for before each sentence.
Speak(p) ==
    /\ answering[p].at = "verified"
    /\ IF granted /\ Of(p).said < Segments
       THEN answering' = [answering EXCEPT ![p].said = @ + 1]
       ELSE AnswerTo(p, "done")
    /\ UNCHANGED <<tables, inTransaction, owner, keyId, granted, raises, restarts>>

\* A refused or finished request may be made again, with another answer.
Again(p) ==
    /\ answering[p].at = "refused"
    /\ answering' = [answering EXCEPT ![p] = [at |-> "idle"]]
    /\ UNCHANGED <<tables, inTransaction, owner, keyId, granted, raises, restarts>>

\* The process dies and starts again; the vault may hold a newer key.
Restart ==
    /\ restarts < MaxRestart
    /\ restarts' = restarts + 1
    /\ inTransaction' = tables
    /\ owner' = {}
    /\ answering' = [p \in Validation |->
                    IF answering[p].at \in {"verified", "done"}
                    THEN [answering[p] EXCEPT !.at = "done"] ELSE [at |-> "idle"]]
    /\ keyId' \in ReceiptKey
    /\ UNCHANGED <<tables, granted, raises>>

ReceiptNext ==
    \/ \E a \in Authorization : UsageChanges(a)
    \/ Withdraw
    \/ Restart
    \/ \E p \in Validation :
          \/ \E a \in Authorization, t \in AnswerText, u \in UsageIds : Validate(p, a, t, u)
          \/ Open(p) \/ RecordAgain(p) \/ RecordUnverified(p) \/ RecordBinds(p)
          \/ RecordInserts(p) \/ RecordAudits(p) \/ RecordCommits(p) \/ RecordRaises(p)
          \/ RequireExact(p) \/ Speak(p) \/ Again(p)

ReceiptSpec == ReceiptInit /\ [][ReceiptNext]_receiptVars

-----------------------------------------------------------------------------
(***************************************************************************)
(* Properties.                                                             *)
(***************************************************************************)

\* The call, the receipt and the ledger agree about every authorization, also
\* when a transaction fails between its writes or its commit raises: an answer
\* is bound to the call exactly when a receipt holds it and the ledger has it
\* exactly once.
RecordedTogether ==
    \A a \in Authorization :
        \/ tables.bound[a] = {} /\ tables.rows[a] = {} /\ tables.audits[a] = <<>>
        \/ \E c \in tables.bound[a] :
              /\ tables.bound[a] = {c}
              /\ {row.commit : row \in tables.rows[a]} = {c}
              /\ tables.audits[a] = <<c>>

\* Whatever is spoken for an authorization is the one answer its receipt
\* holds, however many tasks validated answers for it and across restarts
\* with other keys.
OneAnswerIsSpoken ==
    \A p \in Validation :
        (answering[p].at \in {"verified", "done"} /\ answering[p].said > 0) =>
            \E row \in tables.rows[Auth(p)] : row.commit.answer = Of(p).answer

\* An answer is recorded in all three places or in none, and only it is spoken.
AnswersAreRecorded == RecordedTogether /\ OneAnswerIsSpoken

=============================================================================
