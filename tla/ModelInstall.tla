---------------------------- MODULE ModelInstall ----------------------------
(***************************************************************************)
(* Publication of one governed model revision: ModelInstaller.install and  *)
(* ModelRegistry.activate on the directory they share, by processes that   *)
(* may fail, be killed, or lose power at every step.                       *)
(*                                                                         *)
(*   model   the model directory: the names it holds                       *)
(*   tree    the revision's own directory: its mode and its files          *)
(*   marker  the mode of the recovery marker's file                        *)
(*                                                                         *)
(* Each is a pair: what the processes see and the set of values a power    *)
(* loss may leave, which a sync collapses to the visible one.              *)
(***************************************************************************)
EXTENDS Naturals, FiniteSets

CONSTANTS Process, MaxInstallFault, MaxPowerLoss

VARIABLES model, tree, marker, lock, pc, leased, sealing, ifaults, plosses

installVars == <<model, tree, marker, lock, pc, leased, sealing, ifaults, plosses>>
fs == <<model, tree, marker>>

NoNames == [stage |-> FALSE, rev |-> FALSE, pending |-> FALSE, commit |-> FALSE]
NoTree == [sealed |-> FALSE, files |-> FALSE]
Inode(v) == [now |-> v, disk |-> {v}]

InstallInit ==
  /\ model = Inode(NoNames) /\ tree = Inode(NoTree) /\ marker = Inode("rw")
  /\ lock = {} /\ pc = [p \in Process |-> "idle"] /\ leased = {}
  /\ sealing = [p \in Process |-> FALSE] /\ ifaults = 0 /\ plosses = 0

-----------------------------------------------------------------------------
Names == model.now
Set(inode, v) == [now |-> v, disk |-> inode.disk \cup {v}]
Sync(inode) == [inode EXCEPT !.disk = {inode.now}]
Keep == UNCHANGED fs

To(p, stage) == pc' = [pc EXCEPT ![p] = stage]
Leave(p) == lock' = lock \ {p} /\ To(p, "idle")
Stay == UNCHANGED <<lock, leased, sealing, ifaults, plosses>>

(* OwnedDirectory.lock: an exclusive flock that dies with its holder. *)
Install(p) ==
  /\ pc[p] = "idle" /\ p \notin leased /\ lock = {}
  /\ lock' = {p} /\ To(p, "clean") /\ sealing' = [sealing EXCEPT ![p] = FALSE]
  /\ UNCHANGED <<fs, leased, ifaults, plosses>>

RemovePrivateStages(p) ==
  /\ pc[p] = "clean" /\ To(p, "look") /\ Stay
  /\ model' = Sync(Set(model, [Names EXCEPT !.stage = FALSE]))
  /\ tree' = IF Names.rev THEN tree ELSE Inode(NoTree)
  /\ UNCHANGED marker

(* _reuse_or_recover_revision, up to the choice it makes: it refuses a
   directory that is Stuck. *)
Committed == Names.commit /\ ~Names.pending /\ tree.now.sealed
Stuck == \/ ~Names.rev /\ (Names.pending \/ Names.commit)
         \/ Committed /\ marker.now # "ro"
         \/ Names.rev /\ ~tree.now.files

ReuseRevision(p) ==
  /\ pc[p] = "look" /\ Names.rev /\ Committed /\ ~Stuck
  /\ Leave(p) /\ leased' = leased \cup {p} /\ Keep /\ UNCHANGED <<sealing, ifaults, plosses>>

RecoverRevision(p) ==
  /\ pc[p] = "look" /\ Names.rev /\ ~Committed /\ ~Stuck
  /\ To(p, IF Names.pending THEN "decommit" ELSE "mark") /\ Keep
  /\ sealing' = [sealing EXCEPT ![p] = tree.now.sealed]
  /\ UNCHANGED <<lock, leased, ifaults, plosses>>

CreateStage(p) ==
  /\ pc[p] = "look" /\ ~Names.rev /\ ~Stuck /\ To(p, "download") /\ Stay
  /\ model' = Set(model, [Names EXCEPT !.stage = TRUE]) /\ tree' = Inode(NoTree) /\ UNCHANGED marker

(* Every file is written, synced and hashed through its own descriptor; the
   names become durable with the directory that holds them. *)
Download(p) ==
  /\ pc[p] = "download" /\ To(p, "syncStage") /\ Stay
  /\ tree' = Set(tree, [tree.now EXCEPT !.files = TRUE]) /\ UNCHANGED <<model, marker>>

\* A plausible bug: the staged files are published without a sync.
SyncStageSkipped(p) ==
  /\ pc[p] = "syncStage" /\ To(p, "publish") /\ Stay /\ UNCHANGED <<tree, model, marker>>

SyncStage(p) ==
  /\ pc[p] = "syncStage" /\ To(p, "publish") /\ Stay
  /\ tree' = Sync(tree) /\ UNCHANGED <<model, marker>>

PublishRevision(p) ==
  /\ pc[p] = "publish" /\ ~Names.rev /\ To(p, "mark") /\ Stay
  /\ model' = Set(model, [Names EXCEPT !.stage = FALSE, !.rev = TRUE]) /\ UNCHANGED <<tree, marker>>

(* _acquire_recovery_marker: created, then it and the directory are synced. *)
CreateMarker(p) ==
  /\ pc[p] = "mark" /\ ~Names.pending /\ To(p, "syncMarker") /\ Stay
  /\ model' = Set(model, [Names EXCEPT !.pending = TRUE]) /\ marker' = Inode("rw") /\ UNCHANGED tree

SyncMarker(p) ==
  /\ pc[p] = "syncMarker" /\ To(p, "decommit") /\ Stay
  /\ model' = Sync(model) /\ UNCHANGED <<tree, marker>>

RemovePublicationCommit(p) ==
  /\ pc[p] = "decommit" /\ To(p, "seal") /\ Stay
  /\ model' = IF Names.commit THEN Sync(Set(model, [Names EXCEPT !.commit = FALSE])) ELSE model
  /\ UNCHANGED <<tree, marker>>

Seal(p) ==
  /\ pc[p] = "seal" /\ To(p, "syncSeal")
  /\ tree' = Set(tree, [tree.now EXCEPT !.sealed = TRUE]) /\ sealing' = [sealing EXCEPT ![p] = TRUE]
  /\ UNCHANGED <<model, marker, lock, leased, ifaults, plosses>>

SyncSeal(p) ==
  /\ pc[p] = "syncSeal" /\ To(p, "prepare") /\ Stay
  /\ tree' = Sync(tree) /\ model' = Sync(model) /\ UNCHANGED marker

(* _prepare_recovery_marker_as_publication. *)
PrepareMarker(p) ==
  /\ pc[p] = "prepare" /\ To(p, "syncPrepared") /\ Stay
  /\ marker' = Set(marker, "ro") /\ UNCHANGED <<model, tree>>

SyncPrepared(p) ==
  /\ pc[p] = "syncPrepared" /\ To(p, "commit") /\ Stay
  /\ marker' = Sync(marker) /\ model' = Sync(model) /\ UNCHANGED tree

(* The rename of the marker is the commit; it is not synced. *)
PublishMarker(p) ==
  /\ pc[p] = "commit" /\ Names.pending /\ Leave(p) /\ leased' = leased \cup {p}
  /\ model' = Set(model, [Names EXCEPT !.pending = FALSE, !.commit = TRUE])
  /\ UNCHANGED <<tree, marker, sealing, ifaults, plosses>>

-----------------------------------------------------------------------------
(* A step fails.  The handler removes an unpublished stage; a sealed revision
   whose marker still has the pending name is opened again for recovery, and
   that may fail as well. *)
Working == {"clean", "look", "download", "syncStage", "publish", "mark", "syncMarker", "decommit",
            "seal", "syncSeal", "prepare", "syncPrepared", "commit"}
PreCommit(p) == sealing[p] /\ Names.pending

(* The handler of the exception: a revision that was sealed and is definitely not
   committed is made writable again and synced, as far as that succeeds. *)
RolledBack(p) ==
  IF ~PreCommit(p) THEN {tree}
  ELSE LET open == Set(tree, [tree.now EXCEPT !.sealed = FALSE]) IN {tree, open, Sync(open)}

InstallFails(p) ==
  /\ pc[p] \in Working /\ ifaults < MaxInstallFault /\ ifaults' = ifaults + 1
  /\ Leave(p) /\ UNCHANGED <<marker, leased, sealing, plosses>>
  /\ IF pc[p] \in {"download", "syncStage", "publish"}
     THEN /\ \E gone \in BOOLEAN :
               model' = IF gone THEN Sync(Set(model, [Names EXCEPT !.stage = FALSE])) ELSE model
          /\ tree' = Inode(NoTree)
     ELSE UNCHANGED model /\ tree' \in RolledBack(p)

(* The interrupt comes after the commit rename: nothing is rolled back. *)
InterruptedAfterCommit(p) ==
  /\ pc[p] = "commit" /\ ifaults < MaxInstallFault /\ ifaults' = ifaults + 1 /\ Leave(p)
  /\ model' = Set(model, [Names EXCEPT !.pending = FALSE, !.commit = TRUE])
  /\ UNCHANGED <<tree, marker, leased, sealing, plosses>>

Killed(p) ==
  /\ pc[p] \in Working /\ ifaults < MaxInstallFault /\ ifaults' = ifaults + 1
  /\ Leave(p) /\ Keep /\ UNCHANGED <<leased, sealing, plosses>>

(* OwnedDirectory.child: the revision's directory opens under its name, with the
   files the manifest lists. *)
RevisionOpens == Names.rev /\ tree.now.files

(* ModelRegistry.activate under the shared lock, and the end of a lease. *)
Activate(p) ==
  /\ pc[p] = "idle" /\ p \notin leased /\ lock = {}
  /\ RevisionOpens /\ Committed /\ marker.now = "ro"
  /\ leased' = leased \cup {p} /\ Keep /\ UNCHANGED <<lock, pc, sealing, ifaults, plosses>>

CloseModel(p) ==
  /\ p \in leased /\ leased' = leased \ {p} /\ Keep
  /\ UNCHANGED <<lock, pc, sealing, ifaults, plosses>>

LosePowerHere ==
  /\ plosses < MaxPowerLoss /\ plosses' = plosses + 1
  /\ \E m \in model.disk, t \in tree.disk, k \in marker.disk :
       model' = Inode(m) /\ tree' = Inode(t) /\ marker' = Inode(k)
  /\ lock' = {} /\ leased' = {} /\ pc' = [p \in Process |-> "idle"]
  /\ sealing' = [p \in Process |-> FALSE] /\ UNCHANGED ifaults

InstallNext ==
  \/ \E p \in Process :
       \/ Install(p) \/ RemovePrivateStages(p) \/ ReuseRevision(p) \/ RecoverRevision(p)
       \/ CreateStage(p) \/ Download(p) \/ SyncStage(p) \/ PublishRevision(p)
       \/ CreateMarker(p) \/ SyncMarker(p) \/ RemovePublicationCommit(p) \/ Seal(p) \/ SyncSeal(p)
       \/ PrepareMarker(p) \/ SyncPrepared(p) \/ PublishMarker(p) \/ InstallFails(p)
       \/ InterruptedAfterCommit(p) \/ Killed(p) \/ Activate(p) \/ CloseModel(p)
  \/ LosePowerHere

InstallSpec == InstallInit /\ [][InstallNext]_installVars

-----------------------------------------------------------------------------
(* No fault, kill or power loss leaves the directory in a state the installer
   refuses for good: the next undisturbed install can always finish. *)
InstallIsPossible == lock = {} => ~Stuck

(* A model that is in use stays committed, sealed and complete; no other
   installer's recovery or rollback touches it. *)
LeaseIsUndisturbed == leased # {} => Committed /\ Names.rev /\ tree.now.files

(* Installation can always be finished, and never disturbs a model in use. *)
ModelsAreKept == InstallIsPossible /\ LeaseIsUndisturbed

=============================================================================
