------------------------------ MODULE Migration ------------------------------
(***************************************************************************)
(* upgrade_encrypted of Core's storage: classify the database file, take   *)
(* an encrypted backup of an existing one, lock it, upgrade it; while      *)
(* another connection may commit, calls fail, and the process may die.     *)
(* SQLite is external: its commit is atomic and durable, its backup copies *)
(* one committed state, its data_version counts other connections' commits.*)
(***************************************************************************)
EXTENDS Naturals, FiniteSets

CONSTANTS Destination, Write, MaxMigFault, MaxDeath

VARIABLES db, version, backup, run, upgraded, migFaults, deaths

migVars == <<db, version, backup, run, upgraded, migFaults, deaths>>

NoDestination == "no destination"
NoRun == [stage |-> "idle", fresh |-> FALSE, version |-> 0, locked |-> FALSE,
          to |-> NoDestination]
NoBackup == [state |-> "absent", data |-> {}, disk |-> FALSE]
NotUpgraded == [to |-> "none", data |-> {}]
MigInit ==
  /\ db \in [file : {"absent", "empty", "old"}, data : {{}}]
  /\ version = 0 /\ backup = [d \in Destination |-> NoBackup] /\ run = NoRun
  /\ upgraded = NotUpgraded /\ migFaults = 0 /\ deaths = 0

-----------------------------------------------------------------------------
Stage(s) == run.stage = s
Proceeds(s) == run' = [run EXCEPT !.stage = s]
MigFault == migFaults < MaxMigFault /\ migFaults' = migFaults + 1
RunEnds == run' = NoRun

(* upgrade_encrypted: a missing file is created exclusively, an empty one is
   the owner's to repair, and an existing one needs a backup destination. *)
UpgradeEncrypted(d) ==
  /\ Stage("idle")
  /\ \/ /\ db.file = "absent" /\ db' = [db EXCEPT !.file = "empty"]
        /\ run' = [NoRun EXCEPT !.stage = "lock", !.fresh = TRUE]
     \/ /\ db.file \in {"old", "new"} /\ UNCHANGED db
        /\ run' = [NoRun EXCEPT !.stage = "reserve", !.version = version, !.to = d]
  /\ UNCHANGED <<version, backup, upgraded, migFaults, deaths>>

(* _ReservedDestination.create: exclusive, synced before it is used. *)
ReserveDestination ==
  /\ Stage("reserve") /\ backup[run.to].state = "absent"
  /\ backup' = [backup EXCEPT ![run.to] = [state |-> "partial", data |-> {}, disk |-> FALSE]]
  /\ Proceeds("copy") /\ UNCHANGED <<db, version, upgraded, migFaults, deaths>>

DestinationExists ==
  /\ Stage("reserve") /\ backup[run.to].state # "absent"
  /\ RunEnds /\ UNCHANGED <<db, version, backup, upgraded, migFaults, deaths>>

CopyEncryptedPages ==
  /\ Stage("copy")
  /\ backup' = [backup EXCEPT ![run.to] = [state |-> "full", data |-> db.data, disk |-> FALSE]]
  /\ Proceeds("sync") /\ UNCHANGED <<db, version, upgraded, migFaults, deaths>>

(* _ReservedDestination: bound to its file, checked to be still that file, and
   synced with its directory. *)
SyncDestination == backup' = [backup EXCEPT ![run.to].disk = TRUE]

SyncBackup ==
  /\ Stage("sync") /\ SyncDestination
  /\ Proceeds("lock") /\ UNCHANGED <<db, version, upgraded, migFaults, deaths>>

(* A failed backup is removed, or kept when its connection did not close. *)
BackupFails(removed) ==
  /\ run.stage \in {"copy", "sync"} /\ MigFault /\ RunEnds
  /\ backup' = IF removed THEN [backup EXCEPT ![run.to] = NoBackup] ELSE backup
  /\ UNCHANGED <<db, version, upgraded, deaths>>

-----------------------------------------------------------------------------
\* A plausible bug: the version is not read again under the lock.
UnchangedAssumed == TRUE

(* BEGIN IMMEDIATE, then the version again: a commit by another connection
   since the backup began refuses the upgrade. *)
Unchanged == run.fresh \/ run.version = version

BeginImmediate ==
  /\ Stage("lock") /\ Unchanged
  /\ run' = [run EXCEPT !.stage = "upgrade", !.locked = TRUE]
  /\ UNCHANGED <<db, version, backup, upgraded, migFaults, deaths>>

ChangedDuringBackup ==
  /\ Stage("lock") /\ ~Unchanged /\ RunEnds
  /\ UNCHANGED <<db, version, backup, upgraded, migFaults, deaths>>

CommitUpgrade ==
  /\ Stage("upgrade") /\ db' = [db EXCEPT !.file = "new"]
  /\ upgraded' = [to |-> run.to, data |-> db.data]
  /\ run' = [run EXCEPT !.stage = "checkpoint", !.locked = FALSE]
  /\ UNCHANGED <<version, backup, migFaults, deaths>>

(* The checkpoint, the close and the sync of a fresh database. *)
FinishUpgrade ==
  /\ Stage("checkpoint") /\ RunEnds
  /\ UNCHANGED <<db, version, backup, upgraded, migFaults, deaths>>

(* Any failure rolls back and closes; a fresh database is removed again unless
   its connection did not close. *)
UpgradeFails(removed) ==
  /\ run.stage \in {"lock", "upgrade", "checkpoint"} /\ MigFault /\ RunEnds
  /\ IF run.fresh /\ removed
     THEN db' = [file |-> "absent", data |-> {}] /\ upgraded' = NotUpgraded
     ELSE UNCHANGED <<db, upgraded>>
  /\ UNCHANGED <<version, backup, deaths>>

-----------------------------------------------------------------------------
(* External: another connection commits; the process dies, or power fails. *)
OtherConnectionCommits(w) ==
  /\ db.file \in {"old", "new"} /\ ~run.locked /\ w \notin db.data
  /\ db' = [db EXCEPT !.data = @ \cup {w}] /\ version' = version + 1
  /\ UNCHANGED <<backup, run, upgraded, migFaults, deaths>>

Dies(power) ==
  /\ deaths < MaxDeath /\ deaths' = deaths + 1 /\ (power \/ ~Stage("idle")) /\ RunEnds
  /\ backup' = IF ~power THEN backup
               ELSE [d \in Destination |->
                      IF backup[d].state = "full" /\ ~backup[d].disk
                      THEN [backup[d] EXCEPT !.state = "partial", !.data = {}] ELSE backup[d]]
  /\ UNCHANGED <<db, version, upgraded, migFaults>>

MigNext ==
  \/ \E d \in Destination : UpgradeEncrypted(d)
  \/ ReserveDestination \/ DestinationExists \/ CopyEncryptedPages \/ SyncBackup
  \/ BeginImmediate \/ ChangedDuringBackup \/ CommitUpgrade \/ FinishUpgrade
  \/ \E b \in BOOLEAN : BackupFails(b) \/ UpgradeFails(b) \/ Dies(b)
  \/ \E w \in Write : OtherConnectionCommits(w)

MigSpec == MigInit /\ [][MigNext]_migVars

-----------------------------------------------------------------------------
(* An existing database that has been upgraded has a complete backup on disk,
   and that backup holds exactly what the database held when the upgrade
   committed: no commit of another connection falls between the two. *)
UpgradedHasBackup ==
  upgraded.to \in Destination =>
    LET b == backup[upgraded.to] IN b.state = "full" /\ b.disk /\ b.data = upgraded.data

=============================================================================
