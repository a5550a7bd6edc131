----------------------------- MODULE SecureTime -----------------------------
(***************************************************************************)
(* How the robot gets a trustworthy clock before it opens the strict TLS   *)
(* channel: SecureTimeBootLifecycle over SecureTimeGate and the durable    *)
(* SecureTimeStateRepository, with Core's CoreTimeProofIssuer answering.   *)
(*                                                                         *)
(*   state   the secure-time record as the process reads it                *)
(*   disk    the records a power loss may leave behind: a rename is not    *)
(*           durable before the directory has been synced                  *)
(*   clock   the robot's system clock; without a qualified real-time clock *)
(*           a power loss sets it back to zero                             *)
(*   boot    the start in progress                                         *)
(*   rtc     the capability report names a qualified hardware clock        *)
(***************************************************************************)
EXTENDS Naturals

CONSTANTS MaxUtc,      \* Core's clock runs to this value
          ForwardStep, \* the largest accepted step of signed time
          MaxStart, MaxTimeFault, MaxLoss

ASSUME TimeConstants == ForwardStep \in Nat

VARIABLES rtc, state, disk, clock, boot, ready, coreUtc, coreSeq, authority, endpoint,
          restored, latest, starts, timeFaults, losses

timeVars == <<rtc, state, disk, clock, boot, ready, coreUtc, coreSeq, authority, endpoint,
              restored, latest, starts, timeFaults, losses>>
durable == <<state, disk>>
coreSide == <<rtc, coreUtc, coreSeq, authority, endpoint>>

NoRecord == [status |-> "absent", seq |-> 0, utc |-> 0, auth |-> 0, gen |-> 0, restore |-> 0]
NotBooting == [at |-> "idle", prev |-> NoRecord, proof |-> NoRecord, result |-> NoRecord]

TimeInit ==
  /\ rtc \in BOOLEAN /\ state = NoRecord /\ disk = {NoRecord} /\ clock = 0
  /\ boot = NotBooting /\ ready = FALSE
  /\ coreUtc = 1 /\ coreSeq = 0 /\ authority = 1 /\ endpoint = 1
  /\ restored = {} /\ latest = 0 /\ starts = 0 /\ timeFaults = 0 /\ losses = 0

-----------------------------------------------------------------------------
(* A publication answers, raises before the rename, or raises after it with
   the directory not yet synced. *)
Publishes == {"ok", "raised", "late"}

(* _exclusive_lock: the comparison and the publication are one step for every
   other writer.  A lock that is not free before the deadline, or a directory
   that is no longer the one opened, raises before anything is written. *)
UnderExclusiveLock(r) ==
  IF r = "ok" THEN UNCHANGED timeFaults
  ELSE timeFaults < MaxTimeFault /\ timeFaults' = timeFaults + 1

(* _read_owner_file: the bytes last renamed into place, whole.  A file that is
   replaced, truncated or extended under the read raises instead. *)
ReadOwnerFile == state

(* _write_current_canonical_atomic: compare with the record the caller read,
   then write, sync, rename, sync. *)
WriteCurrent(r, expected, new) ==
  /\ UnderExclusiveLock(r)
  /\ ReadOwnerFile = expected
  /\ state' = IF r = "raised" THEN state ELSE new
  /\ disk' = IF r = "raised" THEN disk ELSE IF r = "ok" THEN {new} ELSE disk \cup {new}

Go(stage) == boot' = [boot EXCEPT !.at = stage]
Failed == boot' = NotBooting

Pending == state.status = "pending_strict_mtls"

StartBeforeReachyTransport ==
  /\ boot = NotBooting /\ starts < MaxStart /\ starts' = starts + 1
  /\ ready' = FALSE /\ boot' = [NotBooting EXCEPT !.at = "gate", !.prev = ReadOwnerFile]
  /\ UNCHANGED <<durable, clock, coreSide, restored, latest, timeFaults, losses>>

(* Any deadline, verification or connection along the way may fail.  Nothing
   is written on the way out, at the probe because a mark under the expired
   deadline fails too and that failure is suppressed. *)
StartFails ==
  /\ boot.at \in {"gate", "restore", "request", "proof", "setSigned", "commit", "probe"}
  /\ Failed
  /\ UNCHANGED <<durable, clock, ready, coreSide, restored, latest, starts, timeFaults, losses>>

AcceptQualifiedRtc ==
  /\ boot.at = "gate" /\ rtc /\ clock >= ReadOwnerFile.utc
  /\ boot' = [boot EXCEPT !.at = "probe", !.result = IF Pending THEN boot.prev ELSE NoRecord]
  /\ UNCHANGED <<durable, clock, ready, coreSide, restored, latest, starts, timeFaults, losses>>

\* A plausible bug: the use of the proof is recorded but not its status.
MarkRestoreUsed(r) ==
  /\ boot.at = "gate" /\ ~rtc /\ boot.prev.status = "pending_strict_mtls"
  /\ LET consumed == [boot.prev EXCEPT !.restore = starts] IN
     /\ WriteCurrent(r, boot.prev, consumed)
     /\ boot' = IF r = "ok" THEN [boot EXCEPT !.at = "restore", !.result = consumed] ELSE NotBooting
  /\ UNCHANGED <<clock, ready, coreSide, restored, latest, starts, losses>>

(* The committed proof may be restored once: the record says so before the
   clock is touched. *)
MarkRestoreConsumed(r) ==
  /\ boot.at = "gate" /\ ~rtc /\ boot.prev.status = "pending_strict_mtls"
  /\ LET consumed == [boot.prev EXCEPT !.status = "restore_consumed", !.restore = starts] IN
     /\ WriteCurrent(r, boot.prev, consumed)
     /\ boot' = IF r = "ok" THEN [boot EXCEPT !.at = "restore", !.result = consumed] ELSE NotBooting
  /\ UNCHANGED <<clock, ready, coreSide, restored, latest, starts, losses>>

RestoreCommittedSignedTime ==
  /\ boot.at = "restore" /\ boot.prev.gen = endpoint /\ boot.prev.auth = endpoint
  /\ clock' = boot.prev.utc
  /\ restored' = restored \cup {<<boot.prev.seq, starts>>}
  /\ Go("probe")
  /\ UNCHANGED <<durable, ready, coreSide, latest, starts, timeFaults, losses>>

OpenTimeChannel ==
  /\ boot.at = "gate" /\ ~rtc /\ boot.prev.status # "pending_strict_mtls"
  /\ Go("request")
  /\ UNCHANGED <<durable, clock, ready, coreSide, restored, latest, starts, timeFaults, losses>>

(* CoreTimeProofIssuer.issue: synchronized authority, a sequence that is never
   reused, Core's clock, the caller's nonce. *)
Issue ==
  /\ boot.at = "request" /\ coreSeq' = coreSeq + 1
  /\ boot' = [boot EXCEPT !.at = "proof",
                 !.proof = [status |-> "signed", seq |-> coreSeq', utc |-> coreUtc,
                            auth |-> authority, gen |-> endpoint, restore |-> 0]]
  /\ UNCHANGED <<durable, clock, ready, rtc, coreUtc, authority, endpoint, restored, latest, starts,
                 timeFaults, losses>>

(* _require_endpoint_binding and _require_proof_freshness. *)
Fresh(proof, prev) ==
  prev # NoRecord =>
    /\ proof.gen >= prev.gen /\ proof.auth \in prev.auth .. prev.auth + 1
    /\ proof.seq > prev.seq
    /\ proof.utc \in prev.utc .. prev.utc + ForwardStep

VerifySignedProof ==
  /\ boot.at = "proof" /\ boot.proof.gen = endpoint /\ boot.proof.auth = endpoint
  /\ Fresh(boot.proof, boot.prev) /\ Go("setSigned")
  /\ UNCHANGED <<durable, clock, ready, coreSide, restored, latest, starts, timeFaults, losses>>

SetSignedTime ==
  /\ boot.at = "setSigned" /\ clock' = boot.proof.utc /\ Go("commit")
  /\ UNCHANGED <<durable, ready, coreSide, restored, latest, starts, timeFaults, losses>>

(* replace_atomic: the record that holds a proof waits for the strict channel,
   and no restore of it has been tried. *)
RecordOf(proof) ==
  [status |-> "pending_strict_mtls", seq |-> proof.seq, utc |-> proof.utc,
   auth |-> proof.auth, gen |-> proof.gen, restore |-> 0]

CommitSignedTime(r) ==
  /\ boot.at = "commit" /\ WriteCurrent(r, boot.prev, RecordOf(boot.proof))
  /\ latest' = IF r = "ok" THEN boot.proof.utc ELSE latest
  /\ boot' = IF r = "ok" THEN [boot EXCEPT !.at = "probe", !.result = RecordOf(boot.proof)] ELSE NotBooting
  /\ UNCHANGED <<clock, ready, coreSide, restored, starts, losses>>

(* The strict TLS probe succeeds or not; a record that waits for it is marked
   either way.  A failed mark after a failed probe is suppressed. *)
MarkStrictMtlsReady(r) ==
  /\ boot.at = "probe" /\ Failed
  /\ IF boot.result = NoRecord THEN r = "ok" /\ UNCHANGED <<durable, timeFaults>>
     ELSE WriteCurrent(r, boot.result, [boot.result EXCEPT !.status = "strict_mtls_ready", !.restore = 0])
  /\ ready' = (r = "ok")
  /\ UNCHANGED <<clock, coreSide, restored, latest, starts, losses>>

MarkStrictMtlsFailed(r) ==
  /\ boot.at = "probe" /\ Failed
  /\ IF boot.result = NoRecord THEN r = "ok" /\ UNCHANGED <<durable, timeFaults>>
     ELSE WriteCurrent(r, boot.result, [boot.result EXCEPT !.status = "strict_mtls_failed", !.restore = 0])
  /\ UNCHANGED <<clock, ready, coreSide, restored, latest, starts, losses>>

-----------------------------------------------------------------------------
(* External: Core's clock moves on, its authority and the commissioning are
   renewed, the robot loses power. *)
CoreTicks ==
  /\ coreUtc < MaxUtc /\ coreUtc' = coreUtc + 1
  /\ UNCHANGED <<durable, clock, boot, ready, rtc, coreSeq, authority, endpoint, restored, latest, starts,
                 timeFaults, losses>>

Recommissioned ==
  /\ endpoint = 1 /\ boot = NotBooting /\ endpoint' = 2 /\ authority' = 2
  /\ UNCHANGED <<durable, clock, boot, ready, rtc, coreUtc, coreSeq, restored, latest, starts, timeFaults, losses>>

LosePower ==
  /\ losses < MaxLoss /\ losses' = losses + 1
  /\ \E left \in disk : state' = left /\ disk' = {left}
  /\ clock' \in IF rtc THEN 0 .. coreUtc ELSE {0}
  /\ boot' = NotBooting /\ ready' = FALSE
  /\ UNCHANGED <<coreSide, restored, latest, starts, timeFaults>>

TimeNext ==
  \/ StartBeforeReachyTransport \/ StartFails \/ AcceptQualifiedRtc \/ RestoreCommittedSignedTime
  \/ OpenTimeChannel \/ Issue \/ VerifySignedProof \/ SetSignedTime
  \/ \E r \in Publishes : \/ MarkRestoreConsumed(r) \/ CommitSignedTime(r)
                          \/ MarkStrictMtlsReady(r) \/ MarkStrictMtlsFailed(r)
  \/ CoreTicks \/ Recommissioned \/ LosePower

TimeSpec == TimeInit /\ [][TimeNext]_timeVars

-----------------------------------------------------------------------------
(* A committed proof sets the clock again at most once: its time is old by
   then, and a second restore would freeze the robot in the past. *)
RestoredOnce == \A a, b \in restored : a[1] = b[1] => a = b

(* A robot that calls itself ready has a clock that is not behind any signed
   time it ever committed, through failed writes, restarts and power losses. *)
ReadyIsNotInThePast == ready => clock >= latest

(* The clock of a robot that lost power never lies behind what it proved. *)
TimeIsKept == RestoredOnce /\ ReadyIsNotInThePast

=============================================================================
