----------------------------- MODULE AuditChain -----------------------------
(***************************************************************************)
(* The audit ledger of the core: every privileged service appends a draft  *)
(* to audit_receipts in its own transaction, ranges of it are sealed as    *)
(* segments, and the verifier reads both tables back.                      *)
(*                                                                         *)
(* A transaction is serialized by the unit of work, so an append or a seal *)
(* that commits is one step; one that rolls back leaves nothing behind.    *)
(* The ledger holds one HMAC key for the life of the process and gets its  *)
(* key again at the next start (Restart).  SHA-256 and HMAC are modelled   *)
(* by what they are used for: a public hash is the sequence of the bodies  *)
(* it covers, and a MAC names the key and the hash it was made with, so    *)
(* that different inputs have different values.                            *)
(*                                                                         *)
(* The schema refuses UPDATE and DELETE of a receipt, so rows change only  *)
(* below SQL: Damage is a row of the file that is lost, or one column of   *)
(* it that is replaced by a value found elsewhere in the table.            *)
(***************************************************************************)
EXTENDS Naturals, Sequences, SequencesExt, FiniteSets

CONSTANTS Body,         \* the drafts a service may append
          HmacKey,      \* the ids of the audit chain keys
          MaxOrdinal,   \* bound: MAX_AUDIT_ORDINAL
          MaxSegment,   \* bound: segments that are sealed
          MaxDamage     \* bound: rows that are damaged

VARIABLES receipts,   \* audit_receipts, in the order of their ordinals
          segments,   \* audit_segments
          key,        \* AuditLedger.key_id
          written,    \* history: every row an append wrote
          sealed,     \* history: for every seal, the segment and its rows
          damage      \* how many rows were damaged

auditVars == <<receipts, segments, key, written, sealed, damage>>

-----------------------------------------------------------------------------
(***************************************************************************)
(* The values of the chain.                                                *)
(***************************************************************************)

\* The link of the first receipt: previous_public_hash_hex is NULL.
Null == <<>>

\* The public hash covers the previous hash and the body, the MAC the public
\* hash and the body.  occurred_at is a part of the body that is stored again.
compute_chain_values(previous, draft, key_id) ==
    [pub  |-> Append(previous, draft),
     mac  |-> [key |-> key_id, pub |-> Append(previous, draft), body |-> draft],
     body |-> draft]

Row(ordinal, previous, values, key_id) ==
    [ordinal |-> ordinal, previous |-> previous, pub |-> values.pub, key |-> key_id,
     mac |-> values.mac, body |-> values.body, occurred |-> values.body]

-----------------------------------------------------------------------------
AuditInit ==
    /\ receipts = <<>>
    /\ segments = {}
    /\ key \in HmacKey
    /\ written = {}
    /\ sealed = {}
    /\ damage = 0

\* The row with the highest ordinal is the end of the chain, whatever became
\* of the rows before it.
append(draft) ==
    LET empty    == receipts = <<>>
        ordinal  == IF empty THEN 1 ELSE Last(receipts).ordinal + 1
        previous == IF empty THEN Null ELSE Last(receipts).pub
        row      == Row(ordinal, previous, compute_chain_values(previous, draft, key), key)
    IN  /\ ordinal <= MaxOrdinal
        /\ receipts' = Append(receipts, row)
        /\ written' = written \cup {row}
        /\ UNCHANGED <<segments, key, sealed, damage>>

InRange(first, last) == SelectSeq(receipts, LAMBDA r : r.ordinal \in first..last)

\* The rows first..last are all there, one for each ordinal.
Contiguous(rows, first, last) ==
    /\ Len(rows) = last - first + 1
    /\ \A i \in 1..Len(rows) : rows[i].ordinal = first + i - 1

\* A plausible bug: the segment names the ledger's own key.
SegmentLedgerKey(first, last, rows) ==
    [first |-> first, last |-> last, count |-> Len(rows),
     pub |-> Last(rows).pub, mac |-> Last(rows).mac, key |-> key]

\* A segment copies the hash, the MAC and the key id of its last receipt.
Segment(first, last, rows) ==
    [first |-> first, last |-> last, count |-> Len(rows),
     pub |-> Last(rows).pub, mac |-> Last(rows).mac, key |-> Last(rows).key]

seal(first, last) ==
    /\ first <= last
    /\ Cardinality(sealed) < MaxSegment
    /\ LET rows == InRange(first, last)
       IN  /\ Contiguous(rows, first, last)
           /\ segments' = segments \cup {Segment(first, last, rows)}
           /\ sealed' = sealed \cup {[segment |-> Segment(first, last, rows), rows |-> rows]}
    /\ UNCHANGED <<receipts, key, written, damage>>

\* The process starts again, with the key its vault then holds.
Restart ==
    /\ key' \in HmacKey \ {key}
    /\ UNCHANGED <<receipts, segments, written, sealed, damage>>

\* The file loses a row, or a column of one gets the value of another row.
Damage ==
    /\ damage < MaxDamage
    /\ damage' = damage + 1
    /\ \E i \in DOMAIN receipts :
          \/ receipts' = RemoveAt(receipts, i)
          \/ \E j \in DOMAIN receipts, c \in {"previous", "pub", "key", "mac", "body"} :
                receipts' = [receipts EXCEPT ![i][c] = receipts[j][c]]
          \/ \E b \in Body : receipts' = [receipts EXCEPT ![i].body = b, ![i].occurred = b]
    /\ receipts' # receipts
    /\ UNCHANGED <<segments, key, written, sealed>>

AuditNext ==
    \/ \E b \in Body : append(b)
    \/ \E f, l \in 1..MaxOrdinal : seal(f, l)
    \/ Restart
    \/ Damage

-----------------------------------------------------------------------------
(***************************************************************************)
(* AuditVerifier.verify, on one snapshot of the two tables.  keys is the   *)
(* set of the key ids it was given.                                        *)
(***************************************************************************)

\* The verdict on the receipts: every row is where it should be, is linked to
\* the row before it, and has the hash and the MAC its body gives.
RowVerdict(n, keys) ==
    LET row      == receipts[n]
        previous == IF n = 1 THEN Null ELSE receipts[n - 1].pub
        values   == compute_chain_values(previous, row.body, row.key)
    IN  IF row.ordinal # n \/ row.previous # previous THEN "ordinal-or-link-mismatch"
        ELSE IF row.key \notin keys THEN "missing-hmac-key"
        ELSE IF row.occurred # row.body THEN "occurred-at-mismatch"
        ELSE IF values.pub # row.pub \/ values.mac # row.mac THEN "hash-or-hmac-mismatch"
        ELSE "ok"

\* The verdict on a segment, once the receipts are found to be in order.
SegmentVerdict(s, keys) ==
    IF \/ s.last > Len(receipts)
       \/ s.count # s.last - s.first + 1
       \/ ~Contiguous(InRange(s.first, s.last), s.first, s.last)
    THEN "invalid-segment-range"
    ELSE IF s.key \notin keys THEN "missing-hmac-key"
    ELSE LET terminal == receipts[s.last]
         IN  IF <<terminal.pub, terminal.mac, terminal.key>> # <<s.pub, s.mac, s.key>>
             THEN "segment-terminal-mismatch"
             ELSE "ok"

verify(keys) ==
    /\ \A n \in DOMAIN receipts : RowVerdict(n, keys) = "ok"
    /\ \A s \in segments : SegmentVerdict(s, keys) = "ok"

-----------------------------------------------------------------------------
(***************************************************************************)
(* Properties.                                                             *)
(***************************************************************************)

Bodies(rows) == [i \in DOMAIN rows |-> rows[i].body]

\* What the verifier calls valid, with whichever of the keys it has, is what
\* the ledger wrote: each receipt is one that an append wrote at that ordinal,
\* and under every segment that was sealed over such receipts lie exactly
\* the bodies it was sealed over, even if the file lost or mixed up rows and the ledger went on
\* appending behind them.  (Of the rows no segment covers, a lost tail goes unnoticed.)
ValidMeansWritten ==
    \A keys \in SUBSET HmacKey :
        verify(keys) =>
            /\ \A n \in DOMAIN receipts : receipts[n] \in written
            /\ \A e \in sealed : ToSet(e.rows) \subseteq written =>
                   Bodies(InRange(e.segment.first, e.segment.last)) = Bodies(e.rows)

\* No sequence of appends, seals and restarts with other keys makes a chain
\* that the verifier, given the keys that were used, does not find valid.
UndamagedIsValid ==
    damage = 0 => verify({w.key : w \in written})

\* The verifier's word is worth its name in both directions.
VerifierIsRight == ValidMeansWritten /\ UndamagedIsValid

=============================================================================
