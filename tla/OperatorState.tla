--------------------------- MODULE OperatorState ---------------------------
(* The operator's commissioning record of a robot                          *)
(* (adapters/reachy/commissioning.py): one private directory with a state  *)
(* file, replaced by compare-and-swap under an exclusive file lock through *)
(* a named temporary, an atomic rename and directory syncs; the revoked    *)
(* tombstone, the recovery of an expired record, the reconciliation of an  *)
(* uncertain commit and the lease under which ssh is started.              *)
(*                                                                         *)
(* `root` is the directory the processes see and `disk` the set of         *)
(* directories a power loss may leave: every one since the last successful *)
(* sync of the directory.  The lock admits one operation at a time, so the *)
(* other actors are the clock, the person removing key files, failing      *)
(* system calls, killed processes and power losses.                        *)
EXTENDS Naturals, FiniteSets

CONSTANTS
  Variant,       \* the contents two candidates of one generation differ in
  MaxGeneration, \* bound on state_generation
  MaxTime,       \* bound on the clock
  Life,          \* ticks a record is fresh, the 24 hours of the schema
  MaxFault,      \* bound on failing system calls
  MaxCrash       \* bound on killed processes and power losses

VARIABLES root, disk, op, caller, lease, artifacts, now, promised, denied, doubted, faults, crashes

vars == <<root, disk, op, caller, lease, artifacts, now, promised, denied, doubted, faults, crashes>>

Absent == [status |-> "absent"]
Torn == [status |-> "torn"]
Live == {"commissioned", "staged", "active", "removed"}
Record == [gen : 1..MaxGeneration, status : Live \cup {"revoked"},
           issued : 0..MaxTime, v : Variant]
NoOp == [kind |-> "none"]
NoCaller == [outcome |-> "none"]

Init ==
  /\ root = [state |-> Absent, temp |-> Absent, snap |-> "none"]
  /\ disk = {root}
  /\ op = NoOp /\ caller = NoCaller /\ lease = Absent
  /\ artifacts = TRUE /\ now = 0
  /\ promised = Absent /\ denied = {} /\ doubted = {}
  /\ faults = 0 /\ crashes = 0

---------------------------------------------------------------------------
(* What the checks of the repository accept. *)

Fresh(s) == s.issued <= now /\ now < s.issued + Life

Expired(s) == now >= s.issued + Life

RecentRevocation(s) == s.issued <= now /\ now <= s.issued + Life

Bound(s) == s # Absent /\ s.status # "revoked"

(* The key files must match a bound record and be gone before a tombstone. *)
ArtifactsFit(s) == artifacts = Bound(s)

CandidateIsTimely(s) == IF Bound(s) THEN Fresh(s) ELSE RecentRevocation(s)

Successor == [commissioned |-> "staged", staged |-> "active", active |-> "removed",
              removed |-> "revoked"]

(* Between staged and active the content address is transferred exactly. *)
OrdinaryTransition(current, s) ==
  IF current = Absent
  THEN s.gen = 1 /\ s.status = "commissioned"
  ELSE /\ Bound(current)
       /\ s.status = Successor[current.status]
       /\ s.gen = current.gen + 1
       /\ s.issued >= current.issued
       /\ current.status = "staged" => s.v = current.v

TerminalTransition(current, s) ==
  /\ Bound(current)
  /\ s.status = "revoked" \/ (s.status = "removed" /\ current.status # "removed")
  /\ s.gen = current.gen + 1
  /\ s.issued >= current.issued

(* Both the check on entry and the one repeated before the rename. *)
IsExpected(expected) == root.state = expected

MayPublish(kind, s, expected) ==
  /\ IsExpected(expected)
  /\ CandidateIsTimely(s)
  /\ ArtifactsFit(s)
  /\ CASE kind = "replace" -> /\ Bound(s) /\ OrdinaryTransition(expected, s)
                              /\ expected # Absent => Fresh(expected)
       [] kind = "revoke" -> /\ s.status = "revoked" /\ OrdinaryTransition(expected, s)
                             /\ Fresh(expected)
       [] kind = "recover" -> TerminalTransition(expected, s) /\ Expired(expected)

---------------------------------------------------------------------------
(* The directory: a change is visible at once and durable when synced. *)

Change(r) == root' = r /\ disk' = disk \cup {r}
Synced == root' = root /\ disk' = {root}
Untouched == UNCHANGED <<root, disk>>

Fails == faults < MaxFault /\ faults' = faults + 1
Idle == op = NoOp /\ lease = Absent

(* What a caller holds once an operation is over, and what it was promised. *)
Answer(outcome) ==
  /\ op' = NoOp
  /\ caller' = [outcome |-> outcome, cand |-> op.cand, exp |-> op.exp]
  /\ promised' = IF outcome \in {"ok", "postcommit"} THEN op.cand ELSE promised
  /\ denied' = IF outcome = "error" /\ op.cand \notin doubted
               THEN denied \cup {op.cand} ELSE denied
  /\ doubted' = IF outcome = "unknown" THEN doubted \cup {op.cand} ELSE doubted

---------------------------------------------------------------------------
(* replace_atomic, publish_revoked_tombstone and recover_stale_terminal    *)
(* share the guarded entry: no reserved temporary, except the same initial *)
(* candidate's.                                                            *)

BeginOperation(kind, s, expected) ==
  /\ Idle
  /\ \/ root.temp = Absent
     \/ /\ root.temp # Absent /\ kind = "replace" /\ expected = Absent
        /\ root.temp.name = s
  /\ MayPublish(kind, s, expected)
  /\ op' = [kind |-> kind, cand |-> s, exp |-> expected, stage |-> "begun",
            created |-> FALSE, mutated |-> FALSE]
  /\ denied' = denied \ {s}
  /\ caller' = NoCaller
  /\ UNCHANGED <<root, disk, lease, artifacts, now, promised, doubted, faults, crashes>>

ReplaceAtomic ==
  \E v \in Variant :
    LET s == [gen |-> IF root.state = Absent THEN 1 ELSE root.state.gen + 1,
              status |-> IF root.state = Absent THEN "commissioned"
                         ELSE IF root.state.status \in Live
                              THEN Successor[root.state.status] ELSE "revoked",
              issued |-> now, v |-> v]
    IN s.gen <= MaxGeneration /\ BeginOperation("replace", s, root.state)

PublishRevokedTombstone ==
  /\ Bound(root.state)
  /\ LET s == [gen |-> root.state.gen + 1, status |-> "revoked", issued |-> now,
               v |-> root.state.v]
     IN s.gen <= MaxGeneration /\ BeginOperation("revoke", s, root.state)

RecoverStaleTerminal ==
  /\ Bound(root.state)
  /\ \E status \in {"removed", "revoked"} :
       LET s == [gen |-> root.state.gen + 1, status |-> status, issued |-> now,
                 v |-> root.state.v]
       IN s.gen <= MaxGeneration /\ BeginOperation("recover", s, root.state)

At(stage) == op # NoOp /\ op.stage = stage
To(stage) == op' = [op EXCEPT !.stage = stage]
Steps == UNCHANGED <<caller, lease, artifacts, now, promised, denied, doubted, faults, crashes>>

(* A new temporary is torn until written; an existing one must be exact.   *)
CreateCandidate ==
  /\ At("begun") /\ Steps
  /\ \/ /\ root.temp = Absent
        /\ Change([root EXCEPT !.temp = [name |-> op.cand, file |-> Torn]])
        /\ op' = [op EXCEPT !.stage = "created", !.created = TRUE]
     \/ /\ root.temp # Absent /\ root.temp.file = op.cand
        /\ To("written") /\ Untouched

WriteCandidate ==
  /\ At("created") /\ Steps /\ To("written")
  /\ Change([root EXCEPT !.temp.file = op.cand])

(* fsync of the file: a directory that names it now names its bytes. *)
SyncCandidate ==
  /\ At("written") /\ Steps /\ To("synced")
  /\ root' = root
  /\ disk' = {IF d.temp = Absent \/ d.temp.file # Torn THEN d
            ELSE [d EXCEPT !.temp.file = op.cand] : d \in disk}

(* The second validation, against the clock and the files of this moment, *)
(* and the sync of the directory before the rename.                       *)
RevalidateCandidate ==
  /\ At("synced") /\ Steps /\ To("validated")
  /\ MayPublish(op.kind, op.cand, op.exp)
  /\ Synced

RenameCandidate ==
  /\ At("validated") /\ Steps
  /\ op' = [op EXCEPT !.stage = "renamed", !.mutated = TRUE]
  /\ Change([root EXCEPT
       !.state = op.cand,
       !.temp = IF op.exp = Absent THEN Absent ELSE [name |-> op.cand, file |-> op.exp]])

(* The exchange is read back; when that fails it is undone and synced. *)
VerifyExchange ==
  /\ At("renamed") /\ Steps /\ To("verified") /\ Untouched

UndoExchange ==
  /\ At("renamed") /\ op.exp # Absent /\ Fails
  /\ Change([root EXCEPT !.state = op.exp, !.temp.file = op.cand])
  /\ To("undone")
  /\ UNCHANGED <<caller, lease, artifacts, now, promised, denied, doubted, crashes>>

SyncUndo ==
  /\ At("undone") /\ Steps
  /\ Synced
  /\ op' = [op EXCEPT !.stage = "refused", !.mutated = FALSE]

\* A plausible bug: the commit is proved from the root as it is read.
ProveCommitUnsynced == At("verified") /\ Steps /\ To("proved") /\ UNCHANGED <<root, disk>>

(* The sync after which the candidate is proved committed. *)
ProveCommit ==
  /\ At("verified") /\ Steps /\ To("proved") /\ Synced

RemovePredecessor ==
  /\ At("proved") /\ Steps /\ To("removed")
  /\ IF op.exp = Absent THEN Untouched ELSE Change([root EXCEPT !.temp = Absent])

FinishOperation ==
  /\ At("removed")
  /\ Synced
  /\ Answer("ok")
  /\ UNCHANGED <<lease, artifacts, now, faults, crashes>>

(* Any failing call or check ends the operation.  Before the namespace was *)
(* changed the created temporary is unlinked, which may fail unnoticed and *)
(* is not synced; after it the answer is unknown, after the proof a        *)
(* post-commit error.                                                      *)
OperationFails ==
  /\ op # NoOp
  /\ \/ Fails
     \/ /\ faults' = faults
        /\ At("refused") \/ (At("synced") /\ ~MayPublish(op.kind, op.cand, op.exp))
                         \/ (At("begun") /\ root.temp # Absent /\ root.temp.file # op.cand)
  /\ IF op.stage \in {"proved", "removed"}
     THEN Answer("postcommit") /\ Untouched
     ELSE IF op.mutated
     THEN Answer("unknown") /\ Untouched
     ELSE /\ Answer("error")
          /\ \/ op.created /\ Change([root EXCEPT !.temp = Absent])
             \/ (op.created => faults' > faults) /\ Untouched
  /\ UNCHANGED <<lease, artifacts, now, crashes>>

---------------------------------------------------------------------------
(* Reconciliation of an uncertain or interrupted operation. *)

Verdict(verdict) ==
  /\ caller' = NoCaller
  /\ promised' = IF verdict = "committed" THEN caller.cand ELSE promised
  /\ denied' = IF verdict = "not_committed" THEN denied \cup {caller.cand} ELSE denied
  /\ doubted' = doubted \ {caller.cand}

Indeterminate == UNCHANGED <<caller, promised, denied, doubted>>

(* Unlink the temporary and sync; a failure leaves the verdict open. *)
RemoveEvidence(verdict) ==
  \/ /\ root' = [root EXCEPT !.temp = Absent] /\ disk' = {root'}
     /\ Verdict(verdict) /\ faults' = faults
  \/ /\ Change([root EXCEPT !.temp = Absent]) /\ Indeterminate /\ Fails

(* _reconcile_exact_candidate; only the temporary of the candidate, with   *)
(* the expected content, is ever removed.                                  *)
ReconcileExactCandidate(temporaryRequired) ==
  /\ Idle /\ caller # NoCaller
  /\ \/ /\ root.state = caller.cand /\ ~temporaryRequired
        /\ \/ /\ root.temp = Absent
              /\ Synced /\ Verdict("committed") /\ faults' = faults
           \/ /\ root.temp # Absent /\ caller.exp # Absent
              /\ root.temp = [name |-> caller.cand, file |-> caller.exp]
              /\ RemoveEvidence("committed")
     \/ /\ root.state = caller.exp /\ caller.exp # Absent
        /\ \/ /\ root.temp = Absent
              /\ IF temporaryRequired THEN Synced ELSE Untouched
              /\ Verdict("not_committed") /\ faults' = faults
           \/ /\ root.temp = [name |-> caller.cand, file |-> caller.cand]
              /\ RemoveEvidence("not_committed")
  /\ UNCHANGED <<op, lease, artifacts, now, crashes>>

ReconcileCommitUnknown ==
  caller.outcome \in {"unknown", "postcommit"} /\ ReconcileExactCandidate(FALSE)

RecoverExactCandidateUpdateTemp ==
  caller.outcome # "none" /\ caller.exp # Absent /\ ReconcileExactCandidate(TRUE)

RecoverExactCandidateInitialTemp ==
  /\ Idle /\ caller # NoCaller /\ caller.exp = Absent /\ root.state = Absent
  /\ \/ root.temp = Absent /\ Synced /\ Verdict("not_committed") /\ faults' = faults
     \/ /\ root.temp = [name |-> caller.cand, file |-> caller.cand]
        /\ RemoveEvidence("not_committed")
  /\ UNCHANGED <<op, lease, artifacts, now, crashes>>

---------------------------------------------------------------------------
(* The ssh spawn lease: it keeps the lock, so no operation runs beside it. *)

RequireLeasable ==
  root.temp = Absent /\ Bound(root.state) /\ Fresh(root.state) /\ ArtifactsFit(root.state)

SnapshotGone == root' = [root EXCEPT !.snap = "none"] /\ disk' = {root'}

(* Both files, the directory, and the sync.  A file that would not go is   *)
(* tried once more; the error is reported even when the second try worked. *)
RemoveSpawnSnapshot ==
  \/ SnapshotGone /\ faults' = faults
  \/ Fails /\ (Untouched \/ SnapshotGone \/ \E left \in {"partial", "none"} :
                                               Change([root EXCEPT !.snap = left]))

(* A removal that failed is tried a second time: what the two leave is     *)
(* something one attempt could have left.                                  *)
CloseSnapshot == RemoveSpawnSnapshot

(* A snapshot that could not be finished is removed again, or left.        *)
AbandonSnapshot ==
  \E left \in {"none", "partial", "full"} : Change([root EXCEPT !.snap = left])

(* Leftover snapshots are removed before the state is read. *)
ReconcileSpawnSnapshots ==
  /\ Idle /\ root.temp = Absent /\ root.snap # "none"
  /\ RemoveSpawnSnapshot
  /\ UNCHANGED <<op, caller, lease, artifacts, now, promised, denied, doubted, crashes>>

(* mkdir, the two copies, the sync of the snapshot and of the directory. *)
CreateSpawnSnapshot ==
  /\ Idle /\ root.snap = "none" /\ RequireLeasable
  /\ \/ /\ root' = [root EXCEPT !.snap = "full"] /\ disk' = {root'}
        /\ lease' = root.state /\ faults' = faults
     \/ Fails /\ lease' = lease /\ AbandonSnapshot
  /\ UNCHANGED <<op, caller, artifacts, now, promised, denied, doubted, crashes>>

(* The lease ends with its snapshot removed, or left behind. *)
CloseLease ==
  /\ lease # Absent
  /\ lease' = Absent
  /\ CloseSnapshot
  /\ UNCHANGED <<op, caller, artifacts, now, promised, denied, doubted, crashes>>

---------------------------------------------------------------------------
(* The environment. *)

Tick ==
  /\ now < MaxTime /\ now' = now + 1
  /\ UNCHANGED <<root, disk, op, caller, lease, artifacts, promised, denied, doubted, faults, crashes>>

(* The attended remover deletes the key files; a new ceremony restores them. *)
ChangeArtifacts ==
  /\ artifacts' = ~artifacts
  /\ UNCHANGED <<root, disk, op, caller, lease, now, promised, denied, doubted, faults, crashes>>

Interrupted ==
  /\ crashes < MaxCrash /\ crashes' = crashes + 1
  /\ op' = NoOp /\ lease' = Absent
  /\ caller' = IF op = NoOp THEN caller
               ELSE [outcome |-> "lost", cand |-> op.cand, exp |-> op.exp]
  /\ doubted' = IF op = NoOp THEN doubted ELSE doubted \cup {op.cand}
  /\ UNCHANGED <<artifacts, now, promised, denied, faults>>

Killed == (op # NoOp \/ lease # Absent) /\ Interrupted /\ Untouched

PowerLoss == Interrupted /\ root' \in disk /\ disk' = {root'}

Next ==
  \/ ReplaceAtomic \/ PublishRevokedTombstone \/ RecoverStaleTerminal
  \/ CreateCandidate \/ WriteCandidate \/ SyncCandidate \/ RevalidateCandidate
  \/ RenameCandidate \/ VerifyExchange \/ UndoExchange \/ SyncUndo \/ ProveCommit
  \/ RemovePredecessor \/ FinishOperation \/ OperationFails
  \/ ReconcileCommitUnknown \/ RecoverExactCandidateUpdateTemp
  \/ RecoverExactCandidateInitialTemp
  \/ ReconcileSpawnSnapshots \/ CreateSpawnSnapshot \/ CloseLease
  \/ Tick \/ ChangeArtifacts \/ Killed \/ PowerLoss

Spec == Init /\ [][Next]_vars

---------------------------------------------------------------------------

Anywhere == disk \cup {root}

(* A caller told that its record is committed, at once, as a post-commit   *)
(* error or by reconciliation, finds it or a later one after any crash.    *)
CommittedSurvives ==
  promised # Absent =>
    \A d \in Anywhere : /\ d.state # Absent
                        /\ d.state.gen >= promised.gen
                        /\ d.state.gen = promised.gen => d.state = promised

(* A candidate the caller was told was refused or not committed is not the *)
(* record, and no crash makes it the record.                               *)
DeniedNeverReturns == \A d \in Anywhere : d.state \notin denied

(* ssh is started under a record that no power loss takes back, with no    *)
(* uncertain candidate beside it.                                          *)
LeaseIsDurable ==
  lease # Absent => \A d \in Anywhere : d.state = lease /\ d.temp = Absent

(* What the repository answered holds, after any fault, kill or power loss. *)
AnswersHold == CommittedSurvives /\ DeniedNeverReturns /\ LeaseIsDurable

===========================================================================
