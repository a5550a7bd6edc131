------------------------- MODULE ProvisioningProofs -------------------------
(***************************************************************************)
(* Proofs about what must be in place before the household is served: the  *)
(* installed models, the upgraded database, and the robot's signed clock   *)
(* and firewall receipt, for any number of processes, destinations,        *)
(* starts, faults, kills and power losses; and about the calls the robot's *)
(* session bounds by a deadline. The modules share no state; each part has *)
(* an inductive invariant of its own.                                      *)
(***************************************************************************)
EXTENDS ModelInstall, Migration, SecureTime, FirewallBoot, EdgeDeadline, TLAPS

-----------------------------------------------------------------------------
(***************************************************************************)
(* ModelInstall. A name of the store counts as present only when every     *)
(* view of the disk that a power loss may leave agrees; what a stage of    *)
(* the installer has made sure of is a claim about all of these views, and *)
(* at most one process is past the lock.                                   *)
(***************************************************************************)

NamesType == [stage : BOOLEAN, rev : BOOLEAN, pending : BOOLEAN, commit : BOOLEAN]
TreeType == [sealed : BOOLEAN, files : BOOLEAN]

IsInode(i, Values) == i \in [now : Values, disk : SUBSET Values] /\ i.now \in i.disk

InstallTypes ==
    /\ IsInode(model, NamesType) /\ IsInode(tree, TreeType) /\ IsInode(marker, {"rw", "ro"})
    /\ pc \in [Process -> Working \cup {"idle"}] /\ lock \subseteq Process

OneInstaller ==
    /\ \A p \in Process : p \in lock <=> pc[p] # "idle"
    /\ \A p, q \in lock : p = q

(* Whatever a power loss leaves of the three inodes fits together. *)
DiskFits ==
    \A m \in model.disk :
        /\ m.rev => Names.rev /\ \A t \in tree.disk : t.files
        /\ m.pending => m.rev
        /\ m.commit => /\ m.rev /\ ~m.pending /\ Names.commit
                       /\ marker.disk = {"ro"} /\ \A t \in tree.disk : t.sealed

(* What the installer has established when it is about to take a stage. *)
Staging == {"download", "syncStage", "publish"}
Marked == {"syncMarker", "decommit", "seal", "syncSeal", "prepare", "syncPrepared", "commit"}
Sealed == {"prepare", "syncPrepared", "commit"}
Reached(s) ==
    /\ s \in Staging => ~Names.rev
    /\ s = "syncStage" => tree.now.files
    /\ s = "publish" => \A t \in tree.disk : t.files
    /\ s \in Marked \cup {"mark"} => Names.rev /\ ~Names.commit
    /\ s \in Marked => Names.pending
    /\ s = "syncSeal" => tree.now.sealed
    /\ s \in Sealed => \A t \in tree.disk : t.sealed
    /\ s = "syncPrepared" => marker.now = "ro"
    /\ s = "commit" => marker.disk = {"ro"}
StagesReached == \A p \in Process : Reached(pc[p])

LeasedIsCommitted == leased # {} => Names.commit

InstallInv == InstallTypes /\ OneInstaller /\ DiskFits /\ StagesReached /\ LeasedIsCommitted

(* What is done to an inode leaves an inode. *)
LEMMA InodeSet == ASSUME NEW S, NEW i, NEW v \in S, IsInode(i, S) PROVE IsInode(Set(i, v), S)
  BY Zenon DEF IsInode, Set

LEMMA InodeSync == ASSUME NEW S, NEW i, IsInode(i, S) PROVE IsInode(Sync(i), S)
  BY Zenon DEF IsInode, Sync

LEMMA InodeNew == ASSUME NEW S, NEW v \in S PROVE IsInode(Inode(v), S)
  BY Zenon DEF IsInode, Inode

(* The names and the modes that the steps write. *)
LEMMA NamesWritten ==
  ASSUME IsInode(model, NamesType)
  PROVE  /\ [Names EXCEPT !.stage = FALSE] \in NamesType /\ [Names EXCEPT !.stage = TRUE] \in NamesType
         /\ [Names EXCEPT !.stage = FALSE, !.rev = TRUE] \in NamesType
         /\ [Names EXCEPT !.pending = TRUE] \in NamesType /\ [Names EXCEPT !.commit = FALSE] \in NamesType
         /\ [Names EXCEPT !.pending = FALSE, !.commit = TRUE] \in NamesType
  BY Zenon DEF IsInode, Names, NamesType

LEMMA TreesWritten ==
  ASSUME IsInode(tree, TreeType)
  PROVE  /\ [tree.now EXCEPT !.files = TRUE] \in TreeType /\ NoTree \in TreeType
         /\ [tree.now EXCEPT !.sealed = TRUE] \in TreeType /\ [tree.now EXCEPT !.sealed = FALSE] \in TreeType
  BY Zenon DEF IsInode, TreeType, NoTree

LEMMA InstallInvInit == InstallInit => InstallInv
  BY DEF InstallInit, InstallInv, InstallTypes, IsInode, OneInstaller, DiskFits, StagesReached, LeasedIsCommitted,
     Reached, Staging, Marked, Sealed, NamesType, TreeType, Inode, NoNames, NoTree, Names, Working

LEMMA InstallInvKept == InstallInv => ModelsAreKept
  BY Zenon DEF InstallInv, InstallTypes, IsInode, DiskFits, LeasedIsCommitted, ModelsAreKept, InstallIsPossible,
     LeaseIsUndisturbed, Stuck, Committed, Names, NamesType, TreeType

(* A step of the installer: it held the lock alone, and after it every process
   is idle or is that one. *)
LEMMA Alone ==
  ASSUME InstallInv, NEW p \in Process, pc[p] # "idle"
  PROVE  lock = {p} /\ \A q \in Process \ {p} : pc[q] = "idle"
  BY Zenon DEF InstallInv, InstallTypes, OneInstaller

LEMMA StepOn ==
  ASSUME InstallInv, NEW p \in Process, pc[p] # "idle", NEW s \in Working, To(p, s), UNCHANGED lock
  PROVE  /\ pc' \in [Process -> Working \cup {"idle"}] /\ lock' \subseteq Process /\ OneInstaller'
         /\ Reached(s)' => StagesReached'
<1>1. pc' = [pc EXCEPT ![p] = s] /\ s # "idle" /\ lock = {p}
  BY Zenon, Alone DEF To, Working
<1>2. \A q \in Process \ {p} : pc'[q] = "idle"
  BY Zenon, <1>1, Alone DEF InstallInv, InstallTypes
<1>3. pc'[p] = s
  BY Zenon, <1>1 DEF InstallInv, InstallTypes
<1>4. pc' \in [Process -> Working \cup {"idle"}] /\ lock' \subseteq Process
  BY Zenon, <1>1 DEF InstallInv, InstallTypes
<1>5. OneInstaller'
  BY Zenon, <1>1, <1>2, <1>3 DEF OneInstaller
<1>6. ASSUME Reached(s)' PROVE StagesReached'
  <2>1. \A q \in Process \ {p} : Reached(pc[q])'
    BY Zenon, <1>2 DEF Reached, Staging, Marked, Sealed
  <2>2. Reached(pc[p])'
    BY Zenon, <1>3, <1>6 DEF Reached, Staging, Marked, Sealed
  <2>3. QED
    BY Zenon, <2>1, <2>2 DEF StagesReached
<1>7. QED
  BY Zenon, <1>4, <1>5, <1>6

LEMMA AllLeave ==
  ASSUME InstallInv, NEW p \in Process, pc[p] # "idle", Leave(p)
  PROVE  /\ pc' \in [Process -> Working \cup {"idle"}] /\ lock' \subseteq Process /\ OneInstaller'
         /\ StagesReached'
<1>1. pc' = [pc EXCEPT ![p] = "idle"] /\ lock' = {}
  BY Zenon, Alone DEF Leave, To
<1>2. \A q \in Process : pc'[q] = "idle"
  BY Zenon, <1>1, Alone DEF InstallInv, InstallTypes
<1>3. QED
  BY Zenon, <1>1, <1>2 DEF InstallInv, InstallTypes, OneInstaller, StagesReached, Reached, Staging, Marked, Sealed

(* Every step of a process, every fault and every power loss preserves it. *)
LEMMA InstallInvStep == InstallInv /\ [InstallNext]_installVars => InstallInv'
<1> SUFFICES ASSUME InstallInv, [InstallNext]_installVars PROVE InstallInv'
  BY Zenon
<1> USE DEF Stay, Keep, fs
<1>1. CASE UNCHANGED installVars
  BY Zenon, <1>1 DEF installVars, InstallInv, InstallTypes, OneInstaller, DiskFits, StagesReached, Reached,
     LeasedIsCommitted, Names
<1>2. ASSUME NEW p \in Process, RemovePrivateStages(p) PROVE InstallInv'
  <2>1. pc[p] # "idle" /\ To(p, "look") /\ UNCHANGED lock /\ "look" \in Working
    BY Zenon, <1>2 DEF RemovePrivateStages, Working
  <2>2. InstallTypes'
    BY Zenon, <1>2, <2>1, StepOn, InodeSet, InodeSync, InodeNew, NamesWritten, TreesWritten
       DEF RemovePrivateStages, InstallInv, InstallTypes
  <2>3. DiskFits' /\ Reached("look")' /\ LeasedIsCommitted'
    BY <1>2 DEF Names, Set, Sync, Inode, IsInode, NoTree, RemovePrivateStages, InstallInv, InstallTypes, DiskFits, LeasedIsCommitted, NamesType, TreeType,
       StagesReached, Reached, Staging, Marked, Sealed
  <2>4. QED
    BY Zenon, <2>1, <2>2, <2>3, StepOn DEF InstallInv
<1>3. ASSUME NEW p \in Process, CreateStage(p) PROVE InstallInv'
  <2>1. pc[p] # "idle" /\ To(p, "download") /\ UNCHANGED lock /\ "download" \in Working
    BY Zenon, <1>3 DEF CreateStage, Working
  <2>2. InstallTypes'
    BY Zenon, <1>3, <2>1, StepOn, InodeSet, InodeSync, InodeNew, NamesWritten, TreesWritten
       DEF CreateStage, InstallInv, InstallTypes
  <2>3. DiskFits' /\ Reached("download")' /\ LeasedIsCommitted'
    BY ZenonT(40), <1>3 DEF Names, Set, Sync, Inode, IsInode, NoTree, CreateStage, InstallInv, InstallTypes, DiskFits, LeasedIsCommitted, NamesType, TreeType,
       StagesReached, Reached, Staging, Marked, Sealed
  <2>4. QED
    BY Zenon, <2>1, <2>2, <2>3, StepOn DEF InstallInv
<1>4. ASSUME NEW p \in Process, Download(p) PROVE InstallInv'
  <2>1. pc[p] # "idle" /\ To(p, "syncStage") /\ UNCHANGED lock /\ "syncStage" \in Working
    BY Zenon, <1>4 DEF Download, Working
  <2>2. InstallTypes'
    BY Zenon, <1>4, <2>1, StepOn, InodeSet, InodeSync, InodeNew, NamesWritten, TreesWritten
       DEF Download, InstallInv, InstallTypes
  <2>3. DiskFits' /\ Reached("syncStage")' /\ LeasedIsCommitted'
    BY Zenon, <1>4 DEF Names, Set, Sync, Inode, IsInode, Download, InstallInv, InstallTypes, DiskFits, LeasedIsCommitted, NamesType, TreeType,
       StagesReached, Reached, Staging, Marked, Sealed
  <2>4. QED
    BY Zenon, <2>1, <2>2, <2>3, StepOn DEF InstallInv
<1>5. ASSUME NEW p \in Process, SyncStage(p) PROVE InstallInv'
  <2>1. pc[p] # "idle" /\ To(p, "publish") /\ UNCHANGED lock /\ "publish" \in Working
    BY Zenon, <1>5 DEF SyncStage, Working
  <2>2. InstallTypes'
    BY Zenon, <1>5, <2>1, StepOn, InodeSet, InodeSync, InodeNew, NamesWritten, TreesWritten
       DEF SyncStage, InstallInv, InstallTypes
  <2>3. DiskFits' /\ Reached("publish")' /\ LeasedIsCommitted'
    BY Zenon, <1>5 DEF Names, Set, Sync, Inode, IsInode, SyncStage, InstallInv, InstallTypes, DiskFits, LeasedIsCommitted, NamesType, TreeType,
       StagesReached, Reached, Staging, Marked, Sealed
  <2>4. QED
    BY Zenon, <2>1, <2>2, <2>3, StepOn DEF InstallInv
<1>6. ASSUME NEW p \in Process, PublishRevision(p) PROVE InstallInv'
  <2>1. pc[p] # "idle" /\ To(p, "mark") /\ UNCHANGED lock /\ "mark" \in Working
    BY Zenon, <1>6 DEF PublishRevision, Working
  <2>2. InstallTypes'
    BY Zenon, <1>6, <2>1, StepOn, InodeSet, InodeSync, InodeNew, NamesWritten, TreesWritten
       DEF PublishRevision, InstallInv, InstallTypes
  <2>3. DiskFits' /\ Reached("mark")' /\ LeasedIsCommitted'
    BY Zenon, <1>6 DEF Names, Set, Sync, Inode, IsInode, PublishRevision, InstallInv, InstallTypes, DiskFits, LeasedIsCommitted, NamesType, TreeType,
       StagesReached, Reached, Staging, Marked, Sealed
  <2>4. QED
    BY Zenon, <2>1, <2>2, <2>3, StepOn DEF InstallInv
<1>7. ASSUME NEW p \in Process, CreateMarker(p) PROVE InstallInv'
  <2>1. pc[p] # "idle" /\ To(p, "syncMarker") /\ UNCHANGED lock /\ "syncMarker" \in Working
    BY Zenon, <1>7 DEF CreateMarker, Working
  <2>2. InstallTypes'
    BY Zenon, <1>7, <2>1, StepOn, InodeSet, InodeSync, InodeNew, NamesWritten, TreesWritten
       DEF CreateMarker, InstallInv, InstallTypes
  <2>3. DiskFits' /\ Reached("syncMarker")' /\ LeasedIsCommitted'
    BY Zenon, <1>7 DEF Names, Set, Sync, Inode, IsInode, CreateMarker, InstallInv, InstallTypes, DiskFits, LeasedIsCommitted, NamesType, TreeType,
       StagesReached, Reached, Staging, Marked, Sealed
  <2>4. QED
    BY Zenon, <2>1, <2>2, <2>3, StepOn DEF InstallInv
<1>8. ASSUME NEW p \in Process, SyncMarker(p) PROVE InstallInv'
  <2>1. pc[p] # "idle" /\ To(p, "decommit") /\ UNCHANGED lock /\ "decommit" \in Working
    BY Zenon, <1>8 DEF SyncMarker, Working
  <2>2. InstallTypes'
    BY Zenon, <1>8, <2>1, StepOn, InodeSet, InodeSync, InodeNew, NamesWritten, TreesWritten
       DEF SyncMarker, InstallInv, InstallTypes
  <2>3. DiskFits' /\ Reached("decommit")' /\ LeasedIsCommitted'
    BY Zenon, <1>8 DEF Names, Set, Sync, Inode, IsInode, SyncMarker, InstallInv, InstallTypes, DiskFits, LeasedIsCommitted, NamesType, TreeType,
       StagesReached, Reached, Staging, Marked, Sealed
  <2>4. QED
    BY Zenon, <2>1, <2>2, <2>3, StepOn DEF InstallInv
<1>9. ASSUME NEW p \in Process, RemovePublicationCommit(p) PROVE InstallInv'
  <2>1. pc[p] # "idle" /\ To(p, "seal") /\ UNCHANGED lock /\ "seal" \in Working
    BY Zenon, <1>9 DEF RemovePublicationCommit, Working
  <2>2. InstallTypes'
    BY Zenon, <1>9, <2>1, StepOn, InodeSet, InodeSync, InodeNew, NamesWritten, TreesWritten
       DEF RemovePublicationCommit, InstallInv, InstallTypes
  <2>3. DiskFits' /\ Reached("seal")' /\ LeasedIsCommitted'
    BY Zenon, <1>9 DEF Names, Set, Sync, Inode, IsInode, RemovePublicationCommit, InstallInv, InstallTypes, DiskFits, LeasedIsCommitted, NamesType, TreeType,
       StagesReached, Reached, Staging, Marked, Sealed
  <2>4. QED
    BY Zenon, <2>1, <2>2, <2>3, StepOn DEF InstallInv
<1>10. ASSUME NEW p \in Process, Seal(p) PROVE InstallInv'
  <2>1. pc[p] # "idle" /\ To(p, "syncSeal") /\ UNCHANGED lock /\ "syncSeal" \in Working
    BY Zenon, <1>10 DEF Seal, Working
  <2>2. InstallTypes'
    BY Zenon, <1>10, <2>1, StepOn, InodeSet, InodeSync, InodeNew, NamesWritten, TreesWritten
       DEF Seal, InstallInv, InstallTypes
  <2>3. DiskFits' /\ Reached("syncSeal")' /\ LeasedIsCommitted'
    BY Zenon, <1>10 DEF Names, Set, Sync, Inode, IsInode, Seal, InstallInv, InstallTypes, DiskFits, LeasedIsCommitted, NamesType, TreeType,
       StagesReached, Reached, Staging, Marked, Sealed
  <2>4. QED
    BY Zenon, <2>1, <2>2, <2>3, StepOn DEF InstallInv
<1>11. ASSUME NEW p \in Process, SyncSeal(p) PROVE InstallInv'
  <2>1. pc[p] # "idle" /\ To(p, "prepare") /\ UNCHANGED lock /\ "prepare" \in Working
    BY Zenon, <1>11 DEF SyncSeal, Working
  <2>2. InstallTypes'
    BY Zenon, <1>11, <2>1, StepOn, InodeSet, InodeSync, InodeNew, NamesWritten, TreesWritten
       DEF SyncSeal, InstallInv, InstallTypes
  <2>3. DiskFits' /\ Reached("prepare")' /\ LeasedIsCommitted'
    BY Zenon, <1>11 DEF Names, Set, Sync, Inode, IsInode, SyncSeal, InstallInv, InstallTypes, DiskFits, LeasedIsCommitted, NamesType, TreeType,
       StagesReached, Reached, Staging, Marked, Sealed
  <2>4. QED
    BY Zenon, <2>1, <2>2, <2>3, StepOn DEF InstallInv
<1>12. ASSUME NEW p \in Process, PrepareMarker(p) PROVE InstallInv'
  <2>1. pc[p] # "idle" /\ To(p, "syncPrepared") /\ UNCHANGED lock /\ "syncPrepared" \in Working
    BY Zenon, <1>12 DEF PrepareMarker, Working
  <2>2. InstallTypes'
    BY Zenon, <1>12, <2>1, StepOn, InodeSet, InodeSync, InodeNew, NamesWritten, TreesWritten
       DEF PrepareMarker, InstallInv, InstallTypes
  <2>3. DiskFits' /\ Reached("syncPrepared")' /\ LeasedIsCommitted'
    BY Zenon, <1>12 DEF Names, Set, Sync, Inode, IsInode, PrepareMarker, InstallInv, InstallTypes, DiskFits, LeasedIsCommitted, NamesType, TreeType,
       StagesReached, Reached, Staging, Marked, Sealed
  <2>4. QED
    BY Zenon, <2>1, <2>2, <2>3, StepOn DEF InstallInv
<1>13. ASSUME NEW p \in Process, SyncPrepared(p) PROVE InstallInv'
  <2>1. pc[p] # "idle" /\ To(p, "commit") /\ UNCHANGED lock /\ "commit" \in Working
    BY Zenon, <1>13 DEF SyncPrepared, Working
  <2>2. InstallTypes'
    BY Zenon, <1>13, <2>1, StepOn, InodeSet, InodeSync, InodeNew, NamesWritten, TreesWritten
       DEF SyncPrepared, InstallInv, InstallTypes
  <2>3. DiskFits' /\ Reached("commit")' /\ LeasedIsCommitted'
    BY Zenon, <1>13 DEF Names, Set, Sync, Inode, IsInode, SyncPrepared, InstallInv, InstallTypes, DiskFits, LeasedIsCommitted, NamesType, TreeType,
       StagesReached, Reached, Staging, Marked, Sealed
  <2>4. QED
    BY Zenon, <2>1, <2>2, <2>3, StepOn DEF InstallInv
<1>14. ASSUME NEW p \in Process, ReuseRevision(p) PROVE InstallInv'
  <2>1. pc[p] # "idle" /\ Leave(p)
    BY Zenon, <1>14 DEF ReuseRevision, Working
  <2>2. InstallTypes'
    BY Zenon, <1>14, <2>1, AllLeave, InodeSet, InodeSync, InodeNew, NamesWritten, TreesWritten
       DEF ReuseRevision, InstallInv, InstallTypes
  <2>3. DiskFits' /\ LeasedIsCommitted'
    BY Zenon, <1>14 DEF Names, Set, Sync, Inode, IsInode, ReuseRevision, InstallInv, InstallTypes, DiskFits, LeasedIsCommitted, NamesType, TreeType,
       StagesReached, Reached, Staging, Marked, Sealed, Committed
  <2>4. QED
    BY Zenon, <2>1, <2>2, <2>3, AllLeave DEF InstallInv
<1>15. ASSUME NEW p \in Process, PublishMarker(p) PROVE InstallInv'
  <2>1. pc[p] # "idle" /\ Leave(p)
    BY Zenon, <1>15 DEF PublishMarker, Working
  <2>2. InstallTypes'
    BY Zenon, <1>15, <2>1, AllLeave, InodeSet, InodeSync, InodeNew, NamesWritten, TreesWritten
       DEF PublishMarker, InstallInv, InstallTypes
  <2>3. DiskFits' /\ LeasedIsCommitted'
    BY Zenon, <1>15 DEF Names, Set, Sync, Inode, IsInode, PublishMarker, InstallInv, InstallTypes, DiskFits, LeasedIsCommitted, NamesType, TreeType,
       StagesReached, Reached, Staging, Marked, Sealed
  <2>4. QED
    BY Zenon, <2>1, <2>2, <2>3, AllLeave DEF InstallInv
<1>16. ASSUME NEW p \in Process, InstallFails(p) PROVE InstallInv'
  <2>1. pc[p] # "idle" /\ Leave(p)
    BY Zenon, <1>16 DEF InstallFails, Working
  <2>2. InstallTypes'
    BY <1>16, <2>1, AllLeave, InodeSet, InodeSync, InodeNew, NamesWritten, TreesWritten
       DEF InstallFails, RolledBack, InstallInv, InstallTypes
  <2>3. DiskFits' /\ LeasedIsCommitted'
    BY <1>16 DEF Names, Set, Sync, Inode, IsInode, NoTree, InstallFails, RolledBack, InstallInv, InstallTypes, DiskFits, LeasedIsCommitted, NamesType, TreeType,
       StagesReached, Reached, Staging, Marked, Sealed, PreCommit
  <2>4. QED
    BY Zenon, <2>1, <2>2, <2>3, AllLeave DEF InstallInv
<1>17. ASSUME NEW p \in Process, InterruptedAfterCommit(p) PROVE InstallInv'
  <2>1. pc[p] # "idle" /\ Leave(p)
    BY Zenon, <1>17 DEF InterruptedAfterCommit, Working
  <2>2. InstallTypes'
    BY Zenon, <1>17, <2>1, AllLeave, InodeSet, InodeSync, InodeNew, NamesWritten, TreesWritten
       DEF InterruptedAfterCommit, InstallInv, InstallTypes
  <2>3. DiskFits' /\ LeasedIsCommitted'
    BY Zenon, <1>17 DEF Names, Set, Sync, Inode, IsInode, InterruptedAfterCommit, InstallInv, InstallTypes, DiskFits, LeasedIsCommitted, NamesType, TreeType,
       StagesReached, Reached, Staging, Marked, Sealed
  <2>4. QED
    BY Zenon, <2>1, <2>2, <2>3, AllLeave DEF InstallInv
<1>18. ASSUME NEW p \in Process, Killed(p) PROVE InstallInv'
  <2>1. pc[p] # "idle" /\ Leave(p)
    BY Zenon, <1>18 DEF Killed, Working
  <2>2. InstallTypes'
    BY Zenon, <1>18, <2>1, AllLeave, InodeSet, InodeSync, InodeNew, NamesWritten, TreesWritten
       DEF Killed, InstallInv, InstallTypes
  <2>3. DiskFits' /\ LeasedIsCommitted'
    BY Zenon, <1>18 DEF Names, Set, Sync, Inode, IsInode, Killed, InstallInv, InstallTypes, DiskFits, LeasedIsCommitted, NamesType, TreeType,
       StagesReached, Reached, Staging, Marked, Sealed
  <2>4. QED
    BY Zenon, <2>1, <2>2, <2>3, AllLeave DEF InstallInv
<1>19. ASSUME NEW p \in Process, RecoverRevision(p) PROVE InstallInv'
  <2>1. pc[p] # "idle" /\ UNCHANGED <<model, tree, marker, lock, leased>>
    BY Zenon, <1>19 DEF RecoverRevision, Working
  <2>2. DiskFits' /\ LeasedIsCommitted'
    BY Zenon, <2>1 DEF InstallInv, DiskFits, LeasedIsCommitted, Names
  <2>3. Names.rev /\ ~Names.commit
    BY Zenon, <1>19 DEF RecoverRevision, Committed, InstallInv, InstallTypes, IsInode, DiskFits, Names
  <2>4. CASE Names.pending
    <3>1. To(p, "decommit") /\ "decommit" \in Working
      BY Zenon, <1>19, <2>4 DEF RecoverRevision, Working
    <3>2. Reached("decommit")'
      BY Zenon, <2>1, <2>3, <2>4 DEF Reached, Staging, Marked, Sealed, Names
    <3>3. QED
      BY Zenon, <2>1, <2>2, <3>1, <3>2, StepOn DEF InstallInv, InstallTypes
  <2>5. CASE ~Names.pending
    <3>1. To(p, "mark") /\ "mark" \in Working
      BY Zenon, <1>19, <2>5 DEF RecoverRevision, Working
    <3>2. Reached("mark")'
      BY Zenon, <2>1, <2>3 DEF Reached, Staging, Marked, Sealed, Names
    <3>3. QED
      BY Zenon, <2>1, <2>2, <3>1, <3>2, StepOn DEF InstallInv, InstallTypes
  <2>6. QED
    BY Zenon, <2>4, <2>5
<1>20. ASSUME NEW p \in Process, Install(p) PROVE InstallInv'
  <2>1. lock = {} /\ lock' = {p} /\ pc' = [pc EXCEPT ![p] = "clean"]
    BY Zenon, <1>20 DEF Install, To
  <2>2. \A q \in Process : pc[q] = "idle"
    BY Zenon, <2>1 DEF InstallInv, OneInstaller
  <2>3. pc'[p] = "clean" /\ \A q \in Process \ {p} : pc'[q] = "idle"
    BY Zenon, <2>1, <2>2 DEF InstallInv, InstallTypes
  <2>4. InstallTypes' /\ OneInstaller'
    BY Zenon, <1>20, <2>1, <2>3 DEF Install, InstallInv, InstallTypes, OneInstaller, Working
  <2>5. StagesReached'
    BY Zenon, <2>3 DEF StagesReached, Reached, Staging, Marked, Sealed
  <2>6. QED
    BY Zenon, <1>20, <2>4, <2>5 DEF Install, InstallInv, DiskFits, LeasedIsCommitted, Names
<1>21. ASSUME NEW p \in Process, Activate(p) \/ CloseModel(p) PROVE InstallInv'
  BY Zenon, <1>21 DEF Activate, RevisionOpens, CloseModel, Committed, InstallInv, InstallTypes, OneInstaller, DiskFits,
     StagesReached, Reached, LeasedIsCommitted, Names
<1>22. CASE LosePowerHere
  <2>1. PICK m \in model.disk, t \in tree.disk, k \in marker.disk :
          model' = Inode(m) /\ tree' = Inode(t) /\ marker' = Inode(k)
    BY Zenon, <1>22 DEF LosePowerHere
  <2>2. InstallTypes' /\ OneInstaller' /\ StagesReached' /\ LeasedIsCommitted'
    BY Zenon, <1>22, <2>1, InodeNew DEF LosePowerHere, IsInode, InstallInv, InstallTypes, OneInstaller, StagesReached, Reached,
       LeasedIsCommitted, Staging, Marked, Sealed
  <2>3. DiskFits'
    BY ZenonT(40), <2>1 DEF Names, Set, Sync, Inode, IsInode, InstallInv, InstallTypes, DiskFits
  <2>4. QED
    BY Zenon, <2>2, <2>3 DEF InstallInv
<1>23. QED
  BY Zenon, <1>1, <1>2, <1>3, <1>4, <1>5, <1>6, <1>7, <1>8, <1>9, <1>10, <1>11, <1>12, <1>13, <1>14, <1>15,
     <1>16, <1>17, <1>18, <1>19, <1>20, <1>21, <1>22 DEF InstallNext

(* Installation can always be finished and never disturbs a model in use, for any
   number of processes, faults and power losses. *)
THEOREM ModelsAlwaysKept == InstallSpec => []ModelsAreKept
<1>1. InstallSpec => []InstallInv
  BY InstallInvInit, InstallInvStep, PTL DEF InstallSpec
<1>2. QED
  BY <1>1, InstallInvKept, PTL

-----------------------------------------------------------------------------
(***************************************************************************)
(* Migration. The run that upgrades an existing database carries a claim   *)
(* from stage to stage: as long as its data version is the current one,    *)
(* the backup at its destination holds what the database holds. The        *)
(* version is compared under the lock, and from there on nobody else       *)
(* commits. A backup that an upgrade rests on is complete and on disk, and *)
(* what a run may still write to or remove is not.                         *)
(***************************************************************************)

Upgrading == {"lock", "upgrade", "checkpoint"}

RunTypes ==
    run \in [stage : {"idle", "reserve", "copy", "sync"} \cup Upgrading, fresh : BOOLEAN,
             version : Nat, locked : BOOLEAN, to : Destination \cup {NoDestination}]

DataTypes ==
    /\ backup \in [Destination ->
                    [state : {"absent", "partial", "full"}, data : SUBSET Write, disk : BOOLEAN]]
    /\ db \in [file : {"absent", "empty", "old", "new"}, data : SUBSET Write]
    /\ version \in Nat
    /\ upgraded \in [to : Destination \cup {NoDestination, "none"}, data : SUBSET Write]

RunClaims ==
    /\ run.version <= version
    /\ run.locked <=> Stage("upgrade")
    /\ run.fresh => run.stage \in Upgrading /\ run.to = NoDestination
    /\ run.stage # "idle" /\ ~run.fresh => run.to \in Destination
    /\ Stage("copy") => backup[run.to].state = "partial"
    /\ Stage("sync") => /\ backup[run.to].state = "full" /\ ~backup[run.to].disk
                        /\ run.version = version => backup[run.to].data = db.data
    /\ run.stage \in Upgrading /\ ~run.fresh =>
         /\ backup[run.to].state = "full" /\ backup[run.to].disk
         /\ Stage("lock") /\ run.version = version => backup[run.to].data = db.data
         /\ Stage("upgrade") => backup[run.to].data = db.data

MigInv == RunTypes /\ DataTypes /\ RunClaims /\ UpgradedHasBackup

(* The names that stand for no destination are not destinations. *)
NamesApart == NoDestination \notin Destination /\ "none" \notin Destination

(* Between runs there is nothing to claim. *)
LEMMA Between == run = NoRun /\ version \in Nat => RunTypes /\ RunClaims
  BY DEF NoRun, RunTypes, RunClaims, Upgrading, Stage

(* The invariant holds at the start, when there is no run and no backup. *)
LEMMA MigInvInit == NamesApart /\ MigInit => MigInv
<1> SUFFICES ASSUME NamesApart, MigInit PROVE MigInv
  BY Zenon
<1>1. RunTypes /\ RunClaims
  BY Zenon, Between DEF MigInit
<1>2. DataTypes
  BY Zenon DEF MigInit, DataTypes, NoBackup, NotUpgraded
<1>3. UpgradedHasBackup
  BY Zenon DEF MigInit, NotUpgraded, UpgradedHasBackup, NamesApart
<1>4. QED
  BY Zenon, <1>1, <1>2, <1>3 DEF MigInv

(* Every step of the upgrade, of the other connections, of failure and death
   preserves the invariant. *)
LEMMA MigInvStep == NamesApart /\ MigInv /\ [MigNext]_migVars => MigInv'
<1> SUFFICES ASSUME NamesApart, MigInv, [MigNext]_migVars PROVE MigInv'
  BY Zenon
<1>0. run' = NoRun /\ version' \in Nat => (RunTypes /\ RunClaims)'
  BY DEF NoRun, RunTypes, RunClaims, Upgrading, Stage
<1>1. CASE UNCHANGED migVars
  BY ZenonT(40), <1>1 DEF migVars, RunTypes, DataTypes, RunClaims, UpgradedHasBackup, NamesApart, Upgrading,
       Stage, MigInv
<1>2. ASSUME NEW d \in Destination, UpgradeEncrypted(d) PROVE MigInv'
  <2> DEFINE Created == [stage |-> "lock", fresh |-> TRUE, version |-> 0, locked |-> FALSE,
                       to |-> NoDestination]
             Existing == [stage |-> "reserve", fresh |-> FALSE, version |-> version,
                          locked |-> FALSE, to |-> d]
  <2>1. run' = Created \/ run' = Existing
    BY Zenon, <1>2 DEF UpgradeEncrypted, NoRun
  <2>2. DataTypes' /\ version' = version
    BY Zenon, <1>2 DEF UpgradeEncrypted, MigInv, DataTypes
  <2>3. ASSUME run' = Created PROVE (RunTypes /\ RunClaims)'
    BY <2>2, <2>3 DEF DataTypes, RunTypes, RunClaims, Upgrading, Stage
  <2>4. ASSUME run' = Existing PROVE (RunTypes /\ RunClaims)'
    BY <2>2, <2>4 DEF DataTypes, RunTypes, RunClaims, Upgrading, Stage
  <2>5. UpgradedHasBackup'
    BY Zenon, <1>2 DEF UpgradeEncrypted, MigInv, UpgradedHasBackup
  <2>6. QED
    BY Zenon, <2>1, <2>2, <2>3, <2>4, <2>5 DEF MigInv
<1>3. CASE ReserveDestination
  <2>1. RunTypes'
    BY Zenon, <1>3 DEF ReserveDestination, RunTypes, DataTypes, RunClaims, UpgradedHasBackup, NamesApart,
         Upgrading, Stage, MigInv, Proceeds
  <2>2. DataTypes'
    BY Zenon, <1>3 DEF ReserveDestination, RunTypes, DataTypes, RunClaims, UpgradedHasBackup, NamesApart,
         Upgrading, Stage, MigInv, Proceeds
  <2>3. RunClaims'
    BY Zenon, <1>3 DEF ReserveDestination, RunTypes, DataTypes, RunClaims, UpgradedHasBackup, NamesApart,
         Upgrading, Stage, MigInv, Proceeds
  <2>4. UpgradedHasBackup'
    BY Zenon, <1>3 DEF ReserveDestination, RunTypes, DataTypes, RunClaims, UpgradedHasBackup, NamesApart,
         Upgrading, Stage, MigInv, Proceeds
  <2>5. QED
    BY Zenon, <2>1, <2>2, <2>3, <2>4 DEF MigInv
<1>4. CASE DestinationExists
  <2>1. run' = NoRun /\ version' = version
    BY Zenon, <1>4 DEF DestinationExists, RunEnds
  <2>2. (RunTypes /\ RunClaims)'
    BY Zenon, <1>0, <2>1 DEF MigInv, DataTypes
  <2>3. DataTypes'
    BY Zenon, <1>4 DEF DestinationExists, MigInv, DataTypes, RunTypes
  <2>4. UpgradedHasBackup'
    BY Zenon, <1>4 DEF DestinationExists, RunTypes, DataTypes, RunClaims, UpgradedHasBackup, NamesApart,
         Upgrading, Stage, MigInv
  <2>5. QED
    BY Zenon, <2>2, <2>3, <2>4 DEF MigInv
<1>5. CASE CopyEncryptedPages
  <2>1. RunTypes'
    BY Zenon, <1>5 DEF CopyEncryptedPages, RunTypes, DataTypes, RunClaims, UpgradedHasBackup, NamesApart,
         Upgrading, Stage, MigInv, Proceeds
  <2>2. DataTypes'
    BY Zenon, <1>5 DEF CopyEncryptedPages, RunTypes, DataTypes, RunClaims, UpgradedHasBackup, NamesApart,
         Upgrading, Stage, MigInv, Proceeds
  <2>3. RunClaims'
    BY Zenon, <1>5 DEF CopyEncryptedPages, RunTypes, DataTypes, RunClaims, UpgradedHasBackup, NamesApart,
         Upgrading, Stage, MigInv, Proceeds
  <2>4. UpgradedHasBackup'
    BY Zenon, <1>5 DEF CopyEncryptedPages, RunTypes, DataTypes, RunClaims, UpgradedHasBackup, NamesApart,
         Upgrading, Stage, MigInv, Proceeds
  <2>5. QED
    BY Zenon, <2>1, <2>2, <2>3, <2>4 DEF MigInv
<1>6. CASE SyncBackup
  <2>1. RunTypes'
    BY Zenon, <1>6 DEF SyncBackup, SyncDestination, RunTypes, DataTypes, RunClaims, UpgradedHasBackup,
         NamesApart, Upgrading, Stage, MigInv, Proceeds
  <2>2. DataTypes'
    <3>1. run.to \in Destination /\ UNCHANGED <<db, version, upgraded>>
      BY Zenon, <1>6 DEF SyncBackup, MigInv, RunTypes, RunClaims, Stage, Upgrading
    <3>2. backup' = [backup EXCEPT ![run.to].disk = TRUE]
      BY Zenon, <1>6 DEF SyncBackup, SyncDestination
    <3>3. [backup[run.to] EXCEPT !.disk = TRUE] \in
            [state : {"absent", "partial", "full"}, data : SUBSET Write, disk : BOOLEAN]
      BY ZenonT(40), <3>1 DEF MigInv, DataTypes
    <3>4. QED
      BY Zenon, <3>1, <3>2, <3>3 DEF MigInv, DataTypes
  <2>3. RunClaims'
    BY <1>6 DEF SyncBackup, SyncDestination, RunTypes, DataTypes, RunClaims, UpgradedHasBackup,
         NamesApart, Upgrading, Stage, MigInv, Proceeds
  <2>4. UpgradedHasBackup'
    BY ZenonT(40), <1>6 DEF SyncBackup, SyncDestination, RunTypes, DataTypes, RunClaims, UpgradedHasBackup,
         NamesApart, Upgrading, Stage, MigInv, Proceeds
  <2>5. QED
    BY Zenon, <2>1, <2>2, <2>3, <2>4 DEF MigInv
<1>7. CASE BeginImmediate
  <2>1. RunTypes'
    BY Zenon, <1>7 DEF BeginImmediate, RunTypes, DataTypes, RunClaims, UpgradedHasBackup, NamesApart,
         Upgrading, Stage, MigInv, Unchanged
  <2>2. DataTypes'
    BY Zenon, <1>7 DEF BeginImmediate, RunTypes, DataTypes, RunClaims, UpgradedHasBackup, NamesApart,
         Upgrading, Stage, MigInv, Unchanged
  <2>3. RunClaims'
    BY Zenon, <1>7 DEF BeginImmediate, RunTypes, DataTypes, RunClaims, UpgradedHasBackup, NamesApart,
         Upgrading, Stage, MigInv, Unchanged
  <2>4. UpgradedHasBackup'
    BY Zenon, <1>7 DEF BeginImmediate, RunTypes, DataTypes, RunClaims, UpgradedHasBackup, NamesApart,
         Upgrading, Stage, MigInv, Unchanged
  <2>5. QED
    BY Zenon, <2>1, <2>2, <2>3, <2>4 DEF MigInv
<1>8. CASE ChangedDuringBackup
  <2>1. run' = NoRun /\ version' = version
    BY Zenon, <1>8 DEF ChangedDuringBackup, RunEnds
  <2>2. (RunTypes /\ RunClaims)'
    BY Zenon, <1>0, <2>1 DEF MigInv, DataTypes
  <2>3. DataTypes'
    BY Zenon, <1>8 DEF ChangedDuringBackup, MigInv, DataTypes, RunTypes
  <2>4. UpgradedHasBackup'
    BY Zenon, <1>8 DEF ChangedDuringBackup, RunTypes, DataTypes, RunClaims, UpgradedHasBackup, NamesApart,
         Upgrading, Stage, MigInv
  <2>5. QED
    BY Zenon, <2>2, <2>3, <2>4 DEF MigInv
<1>9. CASE CommitUpgrade
  <2>1. RunTypes'
    BY Zenon, <1>9 DEF CommitUpgrade, RunTypes, DataTypes, RunClaims, UpgradedHasBackup, NamesApart,
         Upgrading, Stage, MigInv
  <2>2. DataTypes'
    BY Zenon, <1>9 DEF CommitUpgrade, RunTypes, DataTypes, RunClaims, UpgradedHasBackup, NamesApart,
         Upgrading, Stage, MigInv
  <2>3. RunClaims'
    BY Zenon, <1>9 DEF CommitUpgrade, RunTypes, DataTypes, RunClaims, UpgradedHasBackup, NamesApart,
         Upgrading, Stage, MigInv
  <2>4. UpgradedHasBackup'
    BY Zenon, <1>9 DEF CommitUpgrade, RunTypes, DataTypes, RunClaims, UpgradedHasBackup, NamesApart,
         Upgrading, Stage, MigInv
  <2>5. QED
    BY Zenon, <2>1, <2>2, <2>3, <2>4 DEF MigInv
<1>10. CASE FinishUpgrade
  <2>1. run' = NoRun /\ version' = version
    BY Zenon, <1>10 DEF FinishUpgrade, RunEnds
  <2>2. (RunTypes /\ RunClaims)'
    BY Zenon, <1>0, <2>1 DEF MigInv, DataTypes
  <2>3. DataTypes'
    BY Zenon, <1>10 DEF FinishUpgrade, MigInv, DataTypes, RunTypes
  <2>4. UpgradedHasBackup'
    BY Zenon, <1>10 DEF FinishUpgrade, RunTypes, DataTypes, RunClaims, UpgradedHasBackup, NamesApart,
         Upgrading, Stage, MigInv
  <2>5. QED
    BY Zenon, <2>2, <2>3, <2>4 DEF MigInv
<1>11. ASSUME NEW b \in BOOLEAN, BackupFails(b) PROVE MigInv'
  <2>1. run' = NoRun /\ version' = version
    BY Zenon, <1>11 DEF BackupFails, RunEnds
  <2>2. (RunTypes /\ RunClaims)'
    BY Zenon, <1>0, <2>1 DEF MigInv, DataTypes
  <2>3. DataTypes'
    BY ZenonT(40), <1>11 DEF BackupFails, MigInv, DataTypes, RunTypes, NoBackup
  <2>4. UpgradedHasBackup'
    BY Zenon, <1>11 DEF BackupFails, RunTypes, DataTypes, RunClaims, UpgradedHasBackup, NamesApart,
         Upgrading, Stage, MigInv, NoBackup
  <2>5. QED
    BY Zenon, <2>2, <2>3, <2>4 DEF MigInv
<1>12. ASSUME NEW b \in BOOLEAN, UpgradeFails(b) PROVE MigInv'
  <2>1. run' = NoRun /\ version' = version
    BY Zenon, <1>12 DEF UpgradeFails, RunEnds
  <2>2. (RunTypes /\ RunClaims)'
    BY Zenon, <1>0, <2>1 DEF MigInv, DataTypes
  <2>3. DataTypes'
    BY <1>12 DEF UpgradeFails, MigInv, DataTypes, RunTypes, NotUpgraded
  <2>4. UpgradedHasBackup'
    BY <1>12 DEF UpgradeFails, RunTypes, DataTypes, RunClaims, UpgradedHasBackup, NamesApart,
         Upgrading, Stage, MigInv, NotUpgraded
  <2>5. QED
    BY Zenon, <2>2, <2>3, <2>4 DEF MigInv
<1>13. ASSUME NEW b \in BOOLEAN, Dies(b) PROVE MigInv'
  <2>1. run' = NoRun /\ version' = version
    BY ZenonT(40), <1>13 DEF Dies, RunEnds
  <2>2. (RunTypes /\ RunClaims)'
    BY Zenon, <1>0, <2>1 DEF MigInv, DataTypes
  <2>3. DataTypes'
    <3>1. \A d \in Destination : [backup[d] EXCEPT !.state = "partial", !.data = {}] \in
            [state : {"absent", "partial", "full"}, data : SUBSET Write, disk : BOOLEAN]
      BY Zenon DEF MigInv, DataTypes
    <3>2. QED
      BY Zenon, <1>13, <3>1 DEF Dies, MigInv, DataTypes
  <2>4. UpgradedHasBackup'
    BY Zenon, <1>13 DEF Dies, RunTypes, DataTypes, RunClaims, UpgradedHasBackup, NamesApart, Upgrading,
         Stage, MigInv
  <2>5. QED
    BY Zenon, <2>2, <2>3, <2>4 DEF MigInv
<1>14. ASSUME NEW w \in Write, OtherConnectionCommits(w) PROVE MigInv'
  <2>1. RunTypes'
    BY Zenon, <1>14 DEF OtherConnectionCommits, RunTypes, DataTypes, RunClaims, UpgradedHasBackup,
         NamesApart, Upgrading, Stage, MigInv
  <2>2. DataTypes'
    BY <1>14 DEF OtherConnectionCommits, RunTypes, DataTypes, RunClaims, UpgradedHasBackup,
         NamesApart, Upgrading, Stage, MigInv
  <2>3. RunClaims'
    BY <1>14 DEF OtherConnectionCommits, RunTypes, DataTypes, RunClaims, UpgradedHasBackup,
         NamesApart, Upgrading, Stage, MigInv
  <2>4. UpgradedHasBackup'
    BY Zenon, <1>14 DEF OtherConnectionCommits, RunTypes, DataTypes, RunClaims, UpgradedHasBackup,
         NamesApart, Upgrading, Stage, MigInv
  <2>5. QED
    BY Zenon, <2>1, <2>2, <2>3, <2>4 DEF MigInv
<1>15. QED
  BY Zenon, <1>1, <1>2, <1>3, <1>4, <1>5, <1>6, <1>7, <1>8, <1>9, <1>10, <1>11, <1>12, <1>13, <1>14
  DEF MigNext

(* For all destinations and writes: the database that an upgrade committed to
   was backed up completely, on disk, with exactly what it then held. *)
THEOREM BackupAlways == NamesApart => (MigSpec => []UpgradedHasBackup)
<1> SUFFICES ASSUME NamesApart PROVE MigSpec => []UpgradedHasBackup
  BY Zenon
<1>1. MigInit => MigInv
  BY Zenon, MigInvInit
<1>2. MigInv /\ [MigNext]_migVars => MigInv'
  BY Zenon, MigInvStep
<1>3. MigInv => UpgradedHasBackup
  BY Zenon DEF MigInv
<1>4. QED
  BY <1>1, <1>2, <1>3, PTL DEF MigSpec

-----------------------------------------------------------------------------
(***************************************************************************)
(* SecureTime. A proof's time is put on the clock again at most once       *)
(* because the record on disk says so before the clock is touched, and no  *)
(* record that a power loss may leave still says otherwise. No record is   *)
(* behind the last committed time, so neither is a clock that was set from *)
(* one.                                                                    *)
(***************************************************************************)

TimeRecord == [status : {"absent", "signed", "pending_strict_mtls", "restore_consumed", "strict_mtls_ready",
                         "strict_mtls_failed"},
               seq : Nat, utc : Nat, auth : Nat, gen : Nat, restore : Nat]
Before == {"gate", "restore", "request", "proof", "setSigned", "commit"}

TimeTypes ==
    /\ disk \subseteq TimeRecord /\ state \in disk
    /\ boot \in [at : Before \cup {"idle", "probe"}, prev : TimeRecord, proof : TimeRecord,
                 result : TimeRecord]
    /\ clock \in Nat /\ coreUtc \in Nat /\ coreSeq \in Nat /\ latest \in Nat /\ starts \in Nat
    /\ authority \in Nat /\ endpoint \in Nat

(* A proof whose time was restored is pending in no record that a power loss may
   leave, and not on its way to one; when the clock is about to be restored the
   record on disk says so already. *)
Restores ==
    /\ RestoredOnce
    /\ \A a \in restored : a[1] \in Nat /\ a[1] <= coreSeq /\ \A d \in disk : d.seq = a[1] => d.status # "pending_strict_mtls"
    /\ \A d \in disk : d.seq <= coreSeq
    /\ boot.at \in {"proof", "setSigned", "commit"} =>
         boot.proof.seq <= coreSeq /\ \A a \in restored : a[1] # boot.proof.seq
    /\ boot.at = "restore" =>
         /\ disk = {state} /\ state.seq = boot.prev.seq /\ state.status = "restore_consumed"
         /\ \A a \in restored : a[1] # boot.prev.seq

(* No record on disk, and none a start works with, is behind the committed time. *)
Lateness ==
    /\ ready => boot.at = "idle" /\ clock >= latest
    /\ \A d \in disk : d.utc >= latest
    /\ boot.at \in Before => boot.prev.utc >= latest
    /\ boot.at \in {"setSigned", "commit"} => boot.proof.utc >= boot.prev.utc
    /\ boot.at = "commit" => clock = boot.proof.utc
    /\ boot.at = "probe" => clock >= latest

TimeInv == TimeTypes /\ Restores /\ Lateness

LEMMA NoRecordType == NoRecord \in TimeRecord
  BY Zenon DEF NoRecord, TimeRecord

(* A publication leaves records of the right kind: those that were there, and the new one. *)
LEMMA Publication ==
  ASSUME TimeInv, NEW r \in Publishes, NEW expected, NEW new \in TimeRecord, WriteCurrent(r, expected, new)
  PROVE  /\ disk' \subseteq disk \cup {new} /\ state' \in disk' /\ state = expected
         /\ r = "ok" => disk' = {new} /\ state' = new
  BY Zenon DEF WriteCurrent, ReadOwnerFile, Publishes, TimeInv, TimeTypes

LEMMA TimeInvStep == TimeInv /\ [TimeNext]_timeVars => TimeInv'
<1> SUFFICES ASSUME TimeInv, [TimeNext]_timeVars PROVE TimeInv'
  BY Zenon
<1> USE DEF coreSide, durable, Before, TimeInv
<1>1. CASE UNCHANGED timeVars
  BY Zenon, <1>1 DEF timeVars, TimeTypes, Restores, RestoredOnce, Lateness
<1>2. CASE StartBeforeReachyTransport
  <2>1. boot' = [NotBooting EXCEPT !.at = "gate", !.prev = state] /\ ~ready'
        /\ UNCHANGED <<disk, state, restored, clock, coreUtc, coreSeq, latest, authority, endpoint>>
        /\ starts' = starts + 1
    BY Zenon, <1>2 DEF StartBeforeReachyTransport, ReadOwnerFile
  <2>2. TimeTypes'
    <3>1. boot' = [at |-> "gate", prev |-> state, proof |-> NoRecord, result |-> NoRecord]
      BY Zenon, <2>1 DEF NotBooting
    <3>2. state \in TimeRecord
      BY Zenon DEF TimeTypes
    <3>3. QED
      BY <2>1, <3>1, <3>2, NoRecordType DEF TimeTypes
  <2>3. Restores' /\ Lateness'
    BY Zenon, <2>1 DEF TimeTypes, Restores, RestoredOnce, Lateness, NotBooting
  <2>4. QED
    BY Zenon, <2>2, <2>3
<1>3. CASE StartFails
  BY Zenon, <1>3, NoRecordType DEF StartFails, Failed, TimeTypes, Restores, RestoredOnce, Lateness, NotBooting
<1>4. CASE AcceptQualifiedRtc
  <2>1. TimeTypes'
    BY Zenon, <1>4, NoRecordType DEF AcceptQualifiedRtc, TimeTypes
  <2>2. Restores' /\ Lateness'
    BY <1>4 DEF AcceptQualifiedRtc, ReadOwnerFile, TimeTypes, Restores, RestoredOnce, Lateness, TimeRecord
  <2>3. QED
    BY Zenon, <2>1, <2>2
<1>5. ASSUME NEW r \in Publishes, MarkRestoreConsumed(r) PROVE TimeInv'
  <2> DEFINE consumed == [boot.prev EXCEPT !.status = "restore_consumed", !.restore = starts]
  <2>1. consumed \in TimeRecord /\ consumed.utc = boot.prev.utc /\ consumed.seq = boot.prev.seq
        /\ consumed.status = "restore_consumed"
    BY Zenon DEF TimeTypes, TimeRecord
  <2>2. WriteCurrent(r, boot.prev, consumed)
    BY Zenon, <1>5 DEF MarkRestoreConsumed
  <2>3. /\ disk' \subseteq disk \cup {consumed} /\ state' \in disk' /\ state = boot.prev
        /\ r = "ok" => disk' = {consumed} /\ state' = consumed
    BY <2>1, <2>2, Publication
  <2> HIDE DEF consumed
  <2>4. /\ boot.at = "gate" /\ boot.prev.status = "pending_strict_mtls"
        /\ boot' = IF r = "ok" THEN [boot EXCEPT !.at = "restore", !.result = consumed] ELSE NotBooting
        /\ UNCHANGED <<clock, ready, rtc, coreUtc, coreSeq, authority, endpoint, restored, latest, starts>>
    BY Zenon, <1>5 DEF MarkRestoreConsumed, consumed
  <2>5. TimeTypes'
    BY Zenon, <2>1, <2>3, <2>4, NoRecordType DEF TimeTypes, NotBooting
  <2>6. Restores'
    BY Zenon, <2>1, <2>3, <2>4 DEF TimeTypes, Restores, RestoredOnce, NotBooting
  <2>7. Lateness'
    BY Zenon, <2>1, <2>3, <2>4 DEF TimeTypes, Lateness, NotBooting
  <2>8. QED
    BY Zenon, <2>5, <2>6, <2>7
<1>6. CASE RestoreCommittedSignedTime
  <2>1. TimeTypes'
    BY Zenon, <1>6 DEF RestoreCommittedSignedTime, Go, TimeTypes, TimeRecord
  <2>2. Restores'
    BY <1>6 DEF RestoreCommittedSignedTime, Go, TimeTypes, Restores, RestoredOnce, TimeRecord
  <2>3. Lateness'
    BY Zenon, <1>6 DEF RestoreCommittedSignedTime, Go, TimeTypes, Lateness, TimeRecord
  <2>4. QED
    BY Zenon, <2>1, <2>2, <2>3
<1>7. CASE OpenTimeChannel
  BY Zenon, <1>7 DEF OpenTimeChannel, Go, TimeTypes, Restores, RestoredOnce, Lateness
<1>8. CASE Issue
  <2> DEFINE proof == [status |-> "signed", seq |-> coreSeq + 1, utc |-> coreUtc,
                       auth |-> authority, gen |-> endpoint, restore |-> 0]
  <2>1. proof \in TimeRecord /\ proof.seq = coreSeq + 1
    BY DEF TimeTypes, TimeRecord
  <2>2. /\ boot.at = "request" /\ coreSeq' = coreSeq + 1
        /\ boot' = [boot EXCEPT !.at = "proof", !.proof = proof]
        /\ UNCHANGED <<disk, state, clock, ready, coreUtc, authority, endpoint, restored, latest, starts>>
    BY Zenon, <1>8 DEF Issue
  <2> HIDE DEF proof
  <2>3. TimeTypes'
    <3>1. boot' \in [at : Before \cup {"idle", "probe"}, prev : TimeRecord, proof : TimeRecord,
                     result : TimeRecord]
      BY Zenon, <2>1, <2>2 DEF TimeTypes
    <3>2. QED
      BY <2>2, <3>1 DEF TimeTypes
  <2>4. boot'.at = "proof" /\ boot'.proof = proof
    BY Zenon, <2>2 DEF TimeTypes
  <2>5. Restores'
    <3>1. \A a \in restored : a[1] # coreSeq + 1 /\ a[1] <= coreSeq + 1
      <4> SUFFICES ASSUME NEW a \in restored PROVE a[1] # coreSeq + 1 /\ a[1] <= coreSeq + 1
        BY Zenon
      <4>1. a[1] \in Nat /\ a[1] <= coreSeq /\ coreSeq \in Nat
        BY Zenon DEF Restores, TimeTypes
      <4>2. QED
        BY <4>1
    <3>2. \A d \in disk : d.seq <= coreSeq + 1
      BY DEF Restores, TimeTypes, TimeRecord
    <3>3. QED
      BY <2>1, <2>2, <2>4, <3>1, <3>2 DEF TimeTypes, Restores, RestoredOnce
  <2>6. Lateness'
    BY Zenon, <2>2, <2>4 DEF TimeTypes, Lateness
  <2>7. QED
    BY Zenon, <2>3, <2>5, <2>6
<1>9. CASE VerifySignedProof
  <2>1. boot.proof.utc >= boot.prev.utc
    BY <1>9, TimeConstants DEF VerifySignedProof, Fresh, TimeTypes, TimeRecord, NoRecord
  <2>2. QED
    BY Zenon, <1>9, <2>1 DEF VerifySignedProof, Go, TimeTypes, Restores, RestoredOnce, Lateness
<1>10. CASE SetSignedTime
  BY Zenon, <1>10 DEF SetSignedTime, Go, TimeTypes, TimeRecord, Restores, RestoredOnce, Lateness
<1>11. ASSUME NEW r \in Publishes, CommitSignedTime(r) PROVE TimeInv'
  <2> DEFINE record == RecordOf(boot.proof)
  <2>0. record \in TimeRecord /\ record.utc = boot.proof.utc /\ record.seq = boot.proof.seq
    BY Zenon DEF RecordOf, TimeTypes, TimeRecord
  <2>1. /\ disk' \subseteq disk \cup {record} /\ state' \in disk' /\ state = boot.prev
        /\ r = "ok" => disk' = {record} /\ state' = record
    BY Zenon, <1>11, <2>0, Publication DEF CommitSignedTime
  <2>2. /\ boot.at = "commit" /\ latest' = IF r = "ok" THEN boot.proof.utc ELSE latest
        /\ boot' = IF r = "ok" THEN [boot EXCEPT !.at = "probe", !.result = record] ELSE NotBooting
        /\ UNCHANGED <<clock, ready, rtc, coreUtc, coreSeq, authority, endpoint, restored, starts>>
    BY Zenon, <1>11 DEF CommitSignedTime
  <2> HIDE DEF record
  <2>3. TimeTypes'
    BY Zenon, <2>0, <2>1, <2>2, NoRecordType DEF TimeTypes, NotBooting, TimeRecord
  <2>4. Restores'
    BY <2>0, <2>1, <2>2 DEF TimeTypes, Restores, RestoredOnce, NotBooting
  <2>5. Lateness'
    BY <2>0, <2>1, <2>2 DEF TimeTypes, TimeRecord, Lateness, NotBooting
  <2>6. QED
    BY Zenon, <2>3, <2>4, <2>5
<1>12. ASSUME NEW r \in Publishes, NEW status \in {"strict_mtls_ready", "strict_mtls_failed"},
              boot.at = "probe", Failed,
              IF boot.result = NoRecord THEN r = "ok" /\ UNCHANGED <<durable, timeFaults>>
              ELSE WriteCurrent(r, boot.result, [boot.result EXCEPT !.status = status, !.restore = 0]),
              ready' => ready \/ r = "ok",
              UNCHANGED <<clock, coreSide, restored, latest, starts>>
       PROVE  TimeInv'
  <2> DEFINE marked == [boot.result EXCEPT !.status = status, !.restore = 0]
  <2>1. marked \in TimeRecord /\ marked.utc = boot.result.utc /\ marked.seq = boot.result.seq
        /\ marked.status = status
    BY Zenon DEF TimeTypes, TimeRecord
  <2>2. boot.result # NoRecord => disk' \subseteq disk \cup {marked} /\ state' \in disk' /\ state = boot.result
    BY Zenon, <1>12, <2>1, Publication
  <2> HIDE DEF marked
  <2>3. TimeTypes'
    BY <1>12, <2>1, <2>2, NoRecordType DEF Failed, TimeTypes, NotBooting
  <2>4. Restores'
    BY Zenon, <1>12, <2>1, <2>2 DEF Failed, TimeTypes, Restores, RestoredOnce, NotBooting
  <2>5. Lateness'
    BY Zenon, <1>12, <2>1, <2>2 DEF Failed, TimeTypes, Lateness, NotBooting
  <2>6. QED
    BY Zenon, <2>3, <2>4, <2>5
<1>13. ASSUME NEW r \in Publishes, MarkStrictMtlsReady(r) PROVE TimeInv'
  <2>1. ready' => ready \/ r = "ok"
    BY Zenon, <1>13 DEF MarkStrictMtlsReady
  <2>2. QED
    BY Zenon, <1>12, <1>13, <2>1, Zenon DEF MarkStrictMtlsReady
<1>17. ASSUME NEW r \in Publishes, MarkStrictMtlsFailed(r) PROVE TimeInv'
  <2>1. ready' => ready \/ r = "ok"
    BY Zenon, <1>17 DEF MarkStrictMtlsFailed
  <2>2. QED
    BY Zenon, <1>12, <1>17, <2>1, Zenon DEF MarkStrictMtlsFailed
<1>14. CASE CoreTicks \/ Recommissioned
  BY <1>14 DEF CoreTicks, Recommissioned, TimeTypes, Restores, RestoredOnce, Lateness
<1>15. CASE LosePower
  <2>1. PICK left \in disk : state' = left /\ disk' = {left}
    BY Zenon, <1>15 DEF LosePower
  <2>2. clock' \in Nat /\ boot' = NotBooting /\ ~ready'
        /\ UNCHANGED <<rtc, coreUtc, coreSeq, authority, endpoint, restored, latest, starts>>
    BY <1>15 DEF LosePower, TimeTypes
  <2>3. QED
    BY Zenon, <2>1, <2>2, NoRecordType DEF TimeTypes, Restores, RestoredOnce, Lateness, NotBooting
<1>16. QED
  BY Zenon, <1>1, <1>2, <1>3, <1>4, <1>5, <1>6, <1>7, <1>8, <1>9, <1>10, <1>11, <1>13, <1>14, <1>15, <1>17 DEF TimeNext

(* A committed proof sets the clock again at most once, and a robot that is ready is not
   behind any signed time it committed, for any number of starts, faults and power losses. *)
THEOREM TimeKeptAlways == TimeSpec => []TimeIsKept
<1>1. TimeInit => TimeInv
  BY NoRecordType DEF TimeInit, TimeInv, TimeTypes, Restores, RestoredOnce, Lateness, NotBooting, NoRecord,
     TimeRecord, Before
<1>2. TimeInv => TimeIsKept
  BY Zenon DEF TimeInv, Restores, Lateness, TimeIsKept, ReadyIsNotInThePast
<1>3. QED
  BY <1>1, <1>2, TimeInvStep, PTL DEF TimeSpec

-----------------------------------------------------------------------------
(***************************************************************************)
(* FirewallBoot.                                                           *)
(***************************************************************************)

(* While an admission stands no program of the firewall runs: only such a
   program, or a new boot, touches the table or the neighbor binding. *)
FwInv == admitted # 0 => proc = NoProc /\ table = Full(admitted) /\ pinned = admitted

LEMMA FwInvStep == FwInv /\ [FwNext]_fwVars => FwInv'
<1> SUFFICES ASSUME FwInv, [FwNext]_fwVars PROVE FwInv'
  BY Zenon
<1> USE DEF FwInv, NoProc
<1>1. CASE UNCHANGED fwVars
  BY Zenon, <1>1 DEF fwVars
<1>2. ASSUME NEW ok \in BOOLEAN, EmergencyBaseline(ok) \/ ApplyForCurrentBoot(ok) PROVE FwInv'
  BY <1>2 DEF EmergencyBaseline, ApplyForCurrentBoot, NoTable, Full
<1>3. ASSUME NEW ok \in BOOLEAN, NEW signed \in BOOLEAN,
             RestoreFirewallInputs(signed, ok) \/ GateRefuses(signed, ok)
      PROVE  FwInv'
  BY <1>3 DEF RestoreFirewallInputs, GateRefuses
<1>4. ASSUME NEW ok \in BOOLEAN, InstallNeighborBinding(ok) \/ ApplyRuleset(ok) \/ RetainEmergencyTable(ok)
      PROVE  FwInv'
  BY <1>4 DEF InstallNeighborBinding, ApplyRuleset, RetainEmergencyTable
<1>5. ASSUME NEW ok \in BOOLEAN, MarkPublication(ok) \/ ReplaceReceipt(ok) \/ RemovePublicationMarker(ok)
      PROVE  FwInv'
  <2>1. proc.at # "idle" /\ UNCHANGED admitted
    <3>1. CASE MarkPublication(ok)
      BY Zenon, <3>1 DEF MarkPublication
    <3>2. CASE ReplaceReceipt(ok)
      BY Zenon, <3>2 DEF ReplaceReceipt
    <3>3. CASE RemovePublicationMarker(ok)
      BY Zenon, <3>3 DEF RemovePublicationMarker
    <3>4. QED
      BY Zenon, <1>5, <3>1, <3>2, <3>3
  <2>2. QED
    BY <2>1
<1>6. CASE GateAdmits
  BY Zenon, <1>6 DEF GateAdmits, CurrentBootReceipt
<1>7. CASE InputsChange \/ Kill \/ Reboot
  BY Zenon, <1>7 DEF InputsChange, Kill, Reboot, Ends
<1>8. QED
  BY Zenon, <1>1, <1>2, <1>3, <1>4, <1>5, <1>6, <1>7 DEF FwNext

(* An admitted Edge program runs behind the full ruleset of its own endpoint. *)
THEOREM BehindRulesAlways == FwSpec => []AdmittedBehindRules
<1>1. FwInit => FwInv
  BY Zenon DEF FwInit, FwInv
<1>2. FwInv => AdmittedBehindRules
  BY Zenon DEF FwInv, AdmittedBehindRules
<1>3. QED
  BY <1>1, <1>2, FwInvStep, PTL DEF FwSpec

-----------------------------------------------------------------------------
(***************************************************************************)
(* EdgeDeadline, for any calls, failing task creations and cancellations.  *)
(* Nothing runs for a call that has its result, and one on its way out by  *)
(* a fault, a deadline or a cancellation has no value to hand over.        *)
(***************************************************************************)

OpDones == {"none", "value", "error", "cancelled"}
OpStates == OpDones \cup {"running", "cancelling"}

CallEnds == {"none", "refused", "raised", "fault", "timeout", "interrupted", "escaped"}

CallFrames ==
    [at : {"waiting", "retry", "settling", "joining", "unwinding", "ended"},
     cleanup : BOOLEAN, retry : BOOLEAN, end : CallEnds \cup OpDones]

BoundedTypes ==
    /\ call \in [Bounded -> {[at |-> "idle"]} \cup CallFrames]
    /\ op \in [Bounded -> OpStates]

\* A call that has not started its operation, or has its result, has nothing running;
\* one that unwinds does not end with a value.
Unwinds(c) ==
    /\ call[c].at \in {"idle", "retry", "settling"} => OpDone(c)
    /\ call[c].at \in {"retry", "joining", "unwinding"} => call[c].end # "value"
    /\ (call[c].at = "ended" /\ call[c].end # "escaped") => OpDone(c)

BoundedInv == BoundedTypes /\ \A c \in Bounded : Unwinds(c)

\* What a step does to the frames of the calls: at most one moves.
OneMoves(c) == \A d \in Bounded \ {c} : call'[d] = call[d]

\* The end of a call keeps its promise.
EndsHonestly ==
    \A c \in Bounded :
          (call[c].at # "ended" /\ call'[c].at = "ended" /\ ~call'[c].cleanup
           /\ call'[c].end = "value") => ~faulted

LEMMA BoundedInit == DeadlineInit => BoundedInv
<1> SUFFICES ASSUME DeadlineInit PROVE BoundedInv
  BY Zenon
<1>1. BoundedTypes
  BY Zenon DEF DeadlineInit, BoundedTypes, OpStates, OpDones
<1>2. ASSUME NEW c \in Bounded PROVE Unwinds(c)
  BY Zenon DEF DeadlineInit, Unwinds, OpDone
<1> QED
  BY Zenon, <1>1, <1>2 DEF BoundedInv

\* Reading the clock, well or not, ends no operation and starts none.
LEMMA ReadKeeps ==
  ASSUME NEW ops \in [Bounded -> OpStates], Read(ops) \/ FailClock(ops)
  PROVE  /\ op' \in [Bounded -> OpStates]
         /\ \A d \in Bounded : ops[d] \in OpDones => op'[d] \in OpDones
<1>1. CASE op' = ops
  BY Zenon, <1>1
<1>2. CASE FailClock(ops)
  BY Zenon, <1>2 DEF FailClock, Cancelled, OpStates, OpDones
<1> QED
  BY Zenon, <1>1, <1>2 DEF Read

\* A step of one call, given what it makes of the call's own frame.
LEMMA OneCallMoves ==
  ASSUME BoundedInv, NEW c \in Bounded, NEW frame \in CallFrames,
         call' = [call EXCEPT ![c] = frame],
         op' \in [Bounded -> OpStates],
         \A d \in Bounded \ {c} : op[d] \in OpDones => op'[d] \in OpDones,
         frame.at \in {"retry", "settling"} => op'[c] \in OpDones,
         frame.at \in {"retry", "joining", "unwinding"} => frame.end # "value",
         (frame.at = "ended" /\ frame.end # "escaped") => op'[c] \in OpDones,
         (frame.at = "ended" /\ frame.end = "value" /\ ~frame.cleanup) => ~faulted
  PROVE  BoundedInv' /\ EndsHonestly
<1>1. BoundedTypes'
  BY Zenon DEF BoundedInv, BoundedTypes
<1>2. call'[c] = frame /\ OneMoves(c)
  BY Zenon DEF BoundedInv, BoundedTypes, OneMoves
<1>3. frame.at # "idle"
  BY Zenon DEF CallFrames
<1>4. Unwinds(c)'
  BY Zenon, <1>2, <1>3 DEF Unwinds, OpDone, OpDones
<1>5. ASSUME NEW d \in Bounded \ {c} PROVE Unwinds(d)'
  BY Zenon, <1>2, <1>5 DEF BoundedInv, OneMoves, Unwinds, OpDone, OpDones
<1>6. EndsHonestly
  BY Zenon, <1>2 DEF OneMoves, EndsHonestly
<1> QED
  BY Zenon, <1>1, <1>4, <1>5, <1>6 DEF BoundedInv

\* Entering the frame, for the first time or again.
LEMMA EnterKeeps ==
  ASSUME BoundedInv, NEW c \in Bounded, NEW frame, OpDone(c),
         frame \in Frame \/ (frame \in CallFrames /\ frame.end # "value"),
         EnterRefused(c, frame) \/ EnterAdmitted(c, frame) \/ EnterUnspawned(c, frame)
  PROVE  BoundedInv' /\ EndsHonestly
<1>1. op \in [Bounded -> OpStates] /\ op[c] \in OpDones
  BY Zenon DEF BoundedInv, BoundedTypes, OpDone, OpDones
<1>2. CASE EnterRefused(c, frame)
  <2> DEFINE new == [frame EXCEPT !.at = "ended", !.end = "refused"]
  <2>1. new \in CallFrames /\ new.at = "ended" /\ new.end = "refused"
    BY Zenon DEF Frame, CallFrames, CallEnds
  <2>2. op' \in [Bounded -> OpStates] /\ \A d \in Bounded : op[d] \in OpDones => op'[d] \in OpDones
    BY Zenon, <1>1, <1>2, ReadKeeps DEF EnterRefused
  <2>3. call' = [call EXCEPT ![c] = new]
    BY Zenon, <1>2 DEF EnterRefused
  <2> HIDE DEF new
  <2> QED
    BY Zenon, <1>1, <2>1, <2>2, <2>3, OneCallMoves
<1>3. CASE EnterAdmitted(c, frame)
  <2> DEFINE new == [frame EXCEPT !.at = "waiting"]
             ops == [op EXCEPT ![c] = "running"]
  <2>1. new \in CallFrames /\ new.at = "waiting"
    BY Zenon DEF Frame, CallFrames, CallEnds
  <2>2. ops \in [Bounded -> OpStates] /\ \A d \in Bounded \ {c} : ops[d] = op[d]
    BY Zenon, <1>1 DEF OpStates
  <2>3. Read(ops) /\ call' = [call EXCEPT ![c] = new]
    BY Zenon, <1>3 DEF EnterAdmitted
  <2> HIDE DEF new, ops
  <2>4. op' \in [Bounded -> OpStates] /\ \A d \in Bounded \ {c} : op[d] \in OpDones => op'[d] \in OpDones
    BY Zenon, <2>2, <2>3, ReadKeeps
  <2> QED
    BY Zenon, <2>1, <2>3, <2>4, OneCallMoves
<1>4. CASE EnterUnspawned(c, frame)
  <2> DEFINE again == [frame EXCEPT !.at = "retry", !.retry = FALSE]
             raised == [frame EXCEPT !.at = "ended", !.end = "raised"]
  <2>1. again \in CallFrames /\ again.at = "retry" /\ again.end # "value"
    BY Zenon DEF Frame, CallFrames, CallEnds
  <2>2. raised \in CallFrames /\ raised.at = "ended" /\ raised.end = "raised"
    BY Zenon DEF Frame, CallFrames, CallEnds
  <2>3. op' \in [Bounded -> OpStates] /\ \A d \in Bounded : op[d] \in OpDones => op'[d] \in OpDones
    BY Zenon, <1>1, <1>4, ReadKeeps DEF EnterUnspawned
  <2>4. call' = [call EXCEPT ![c] = again] \/ call' = [call EXCEPT ![c] = raised]
    BY Zenon, <1>4 DEF EnterUnspawned
  <2> HIDE DEF again, raised
  <2> QED
    BY Zenon, <1>1, <2>1, <2>2, <2>3, <2>4, OneCallMoves
<1> QED
  BY Zenon, <1>2, <1>3, <1>4

\* A call past its entry has a full frame; cancelling its operation touches no other.
LEMMA StartedFrame ==
  ASSUME NEW f \in {[at |-> "idle"]} \cup CallFrames, f.at # "idle"
  PROVE  f \in CallFrames
<1>1. CASE f = [at |-> "idle"]
  BY Zenon, <1>1
<1> QED
  BY Zenon, <1>1

LEMMA CancelledOps ==
  ASSUME NEW ops \in [Bounded -> OpStates], NEW c \in Bounded
  PROVE  /\ [ops EXCEPT ![c] = Cancelled(@)] \in [Bounded -> OpStates]
         /\ \A d \in Bounded \ {c} : [ops EXCEPT ![c] = Cancelled(@)][d] = ops[d]
<1>1. Cancelled(ops[c]) \in OpStates
  BY Zenon DEF Cancelled, OpStates, OpDones
<1> QED
  BY Zenon, <1>1

\* The wait ends by the fault, by the deadline or by a result.
LEMMA WakeKeeps ==
  ASSUME BoundedInv, NEW c \in Bounded,
         \/ WakeByFault(c) \/ WakeByTimer(c) \/ WakeByBadTimer(c)
         \/ WakeTooLate(c) \/ WakeInTime(c)
  PROVE  BoundedInv' /\ EndsHonestly
<1>1. /\ op \in [Bounded -> OpStates] /\ call[c] \in CallFrames
      /\ [op EXCEPT ![c] = Cancelled(@)] \in [Bounded -> OpStates]
      /\ \A d \in Bounded \ {c} : [op EXCEPT ![c] = Cancelled(@)][d] = op[d]
  <2>1. op \in [Bounded -> OpStates] /\ call[c] \in {[at |-> "idle"]} \cup CallFrames
    BY Zenon DEF BoundedInv, BoundedTypes
  <2>2. call[c].at = "waiting"
    BY Zenon DEF WakeByFault, WakeByTimer, WakeByBadTimer, WakeTooLate, WakeInTime
  <2> QED
    BY Zenon, <2>1, <2>2, StartedFrame, CancelledOps
<1>2. ASSUME NEW end \in {"fault", "timeout"}, Joining(c, end),
             Read([op EXCEPT ![c] = Cancelled(@)])
      PROVE  BoundedInv' /\ EndsHonestly
  <2> DEFINE new == [call[c] EXCEPT !.at = "joining", !.end = end]
  <2>1. new \in CallFrames /\ new.at = "joining" /\ new.end = end
    BY Zenon, <1>1 DEF CallFrames, CallEnds
  <2>2. call' = [call EXCEPT ![c] = new]
    BY Zenon, <1>2 DEF Joining
  <2>3. op' \in [Bounded -> OpStates] /\ \A d \in Bounded \ {c} : op[d] \in OpDones => op'[d] \in OpDones
    BY Zenon, <1>1, <1>2, ReadKeeps
  <2> HIDE DEF new
  <2> QED
    BY Zenon, <2>1, <2>2, <2>3, OneCallMoves
<1>3. CASE WakeByFault(c)
  BY Zenon, <1>2, <1>3 DEF WakeByFault
<1>4. CASE WakeByTimer(c)
  BY Zenon, <1>2, <1>4 DEF WakeByTimer
<1>5. CASE WakeTooLate(c)
  BY Zenon, <1>2, <1>5 DEF WakeTooLate
<1>6. CASE WakeByBadTimer(c)
  <2> DEFINE new == [call[c] EXCEPT !.at = "unwinding", !.end = "raised"]
  <2>1. new \in CallFrames /\ new.at = "unwinding" /\ new.end = "raised"
    BY Zenon, <1>1 DEF CallFrames, CallEnds
  <2>2. call' = [call EXCEPT ![c] = new]
    BY Zenon, <1>6 DEF WakeByBadTimer, Unwinding
  <2>3. op' \in [Bounded -> OpStates] /\ \A d \in Bounded \ {c} : op[d] \in OpDones => op'[d] \in OpDones
    BY Zenon, <1>1, <1>6, ReadKeeps DEF WakeByBadTimer
  <2> HIDE DEF new
  <2> QED
    BY Zenon, <2>1, <2>2, <2>3, OneCallMoves
<1>7. CASE WakeInTime(c)
  <2> DEFINE new == [call[c] EXCEPT !.at = "settling"]
  <2>1. new \in CallFrames /\ new.at = "settling"
    BY Zenon, <1>1 DEF CallFrames
  <2>2. call' = [call EXCEPT ![c] = new] /\ op[c] \in OpDones
    BY Zenon, <1>7 DEF WakeInTime, OpDone, OpDones
  <2>3. op' \in [Bounded -> OpStates] /\ \A d \in Bounded : op[d] \in OpDones => op'[d] \in OpDones
    BY Zenon, <1>1, <1>7, ReadKeeps DEF WakeInTime
  <2> HIDE DEF new
  <2> QED
    BY Zenon, <2>1, <2>2, <2>3, OneCallMoves
<1> QED
  BY Zenon, <1>3, <1>4, <1>5, <1>6, <1>7

\* The call settles, joins, unwinds or is interrupted.
LEMMA LeaveKeeps ==
  ASSUME BoundedInv, NEW c \in Bounded,
         SettleCall(c) \/ Joined(c) \/ Unwound(c) \/ Interrupt(c)
  PROVE  BoundedInv' /\ EndsHonestly
<1>1. /\ op \in [Bounded -> OpStates] /\ call[c] \in CallFrames /\ Unwinds(c)
  <2>1. op \in [Bounded -> OpStates] /\ call[c] \in {[at |-> "idle"]} \cup CallFrames /\ Unwinds(c)
    BY Zenon DEF BoundedInv, BoundedTypes
  <2>2. call[c].at # "idle"
    BY Zenon DEF SettleCall, Joined, Unwound, Interrupt
  <2> QED
    BY Zenon, <2>1, <2>2, StartedFrame
<1>2. ASSUME NEW end \in CallEnds, Unwinding(c, end),
             op' = op \/ op' = [op EXCEPT ![c] = Cancelled(@)]
      PROVE  BoundedInv' /\ EndsHonestly
  <2> DEFINE new == [call[c] EXCEPT !.at = "unwinding", !.end = end]
  <2>1. new \in CallFrames /\ new.at = "unwinding" /\ new.end # "value"
    BY Zenon, <1>1, <1>2 DEF CallFrames, CallEnds
  <2>2. call' = [call EXCEPT ![c] = new]
    BY Zenon, <1>2 DEF Unwinding
  <2>3. op' \in [Bounded -> OpStates] /\ \A d \in Bounded \ {c} : op[d] \in OpDones => op'[d] \in OpDones
    BY Zenon, <1>1, <1>2 DEF Cancelled, OpStates, OpDones
  <2> HIDE DEF new
  <2> QED
    BY Zenon, <2>1, <2>2, <2>3, OneCallMoves
<1>3. ASSUME NEW end \in CallEnds \cup OpDones, CallEnded(c, end),
             op' = op \/ op' = [op EXCEPT ![c] = Cancelled(@)],
             end = "escaped" \/ (op' = op /\ op[c] \in OpDones),
             (end = "value" /\ ~call[c].cleanup) => ~faulted
      PROVE  BoundedInv' /\ EndsHonestly
  <2> DEFINE new == [call[c] EXCEPT !.at = "ended", !.end = end]
  <2>1. new \in CallFrames /\ new.at = "ended" /\ new.end = end /\ new.cleanup = call[c].cleanup
    BY Zenon, <1>1, <1>3 DEF CallFrames
  <2>2. call' = [call EXCEPT ![c] = new]
    BY Zenon, <1>3 DEF CallEnded
  <2>3. op' \in [Bounded -> OpStates] /\ \A d \in Bounded \ {c} : op[d] \in OpDones => op'[d] \in OpDones
    BY Zenon, <1>1, <1>3 DEF Cancelled, OpStates, OpDones
  <2> HIDE DEF new
  <2> QED
    BY Zenon, <1>3, <2>1, <2>2, <2>3, OneCallMoves
<1>4. CASE SettleCall(c)
  <2>1. op' = op /\ op[c] \in OpDones
    BY Zenon, <1>1, <1>4 DEF SettleCall, Unwinds, OpDone, OpDones
  <2>2. CASE Ordinary(c) /\ faulted
    BY Zenon, <1>2, <1>4, <2>1, <2>2 DEF SettleCall, CallEnds
  <2>3. CASE ~(Ordinary(c) /\ faulted)
    BY Zenon, <1>3, <1>4, <2>1, <2>3 DEF SettleCall, Ordinary
  <2> QED
    BY Zenon, <2>2, <2>3
<1>5. CASE Joined(c)
  <2> DEFINE new == [call[c] EXCEPT !.at = "unwinding"]
  <2>1. new \in CallFrames /\ new.at = "unwinding" /\ new.end # "value"
    BY Zenon, <1>1, <1>5 DEF CallFrames, Joined, Unwinds
  <2>2. call' = [call EXCEPT ![c] = new] /\ op' = op
    BY Zenon, <1>5 DEF Joined
  <2> HIDE DEF new
  <2> QED
    BY Zenon, <1>1, <2>1, <2>2, OneCallMoves
<1>6. CASE Unwound(c)
  <2>1. op' = op /\ op[c] \in OpDones /\ call[c].end # "value" /\ call[c].end \in CallEnds \cup OpDones
    BY Zenon, <1>1, <1>6 DEF Unwound, Unwinds, OpDone, OpDones, CallFrames
  <2> QED
    BY Zenon, <1>3, <1>6, <2>1 DEF Unwound
<1>7. CASE Interrupt(c)
  <2>1. op' = [op EXCEPT ![c] = Cancelled(@)]
    BY Zenon, <1>7 DEF Interrupt
  <2>2. CASE Unwinding(c, "interrupted")
    BY Zenon, <1>2, <2>1, <2>2 DEF CallEnds
  <2>3. CASE CallEnded(c, "escaped")
    BY Zenon, <1>3, <2>1, <2>3 DEF CallEnds
  <2> QED
    BY Zenon, <1>7, <2>2, <2>3 DEF Interrupt
<1> QED
  BY Zenon, <1>4, <1>5, <1>6, <1>7

\* Tasks that end and the time that passes move no call.
LEMMA TasksKeep ==
  ASSUME BoundedInv,
         ClockFails \/ DeadlinePasses \/ (\E c \in Bounded : OperationEnds(c) \/ TimerEnds(c))
  PROVE  BoundedInv' /\ EndsHonestly
<1>1. call' = call
  BY Zenon DEF ClockFails, DeadlinePasses, OperationEnds, TimerEnds
<1>2. op \in [Bounded -> OpStates]
  BY Zenon DEF BoundedInv, BoundedTypes
<1>3. op' \in [Bounded -> OpStates] /\ \A d \in Bounded : op[d] \in OpDones => op'[d] \in OpDones
  <2>1. CASE ClockFails
    BY Zenon, <1>2, <2>1, ReadKeeps DEF ClockFails
  <2>2. CASE DeadlinePasses
    BY Zenon, <1>2, <2>2 DEF DeadlinePasses
  <2>3. ASSUME NEW c \in Bounded, OperationEnds(c)
        PROVE  op' \in [Bounded -> OpStates] /\ \A d \in Bounded : op[d] \in OpDones => op'[d] \in OpDones
    <3>1. \E e \in OpDones : op' = [op EXCEPT ![c] = e]
      BY Zenon, <2>3 DEF OperationEnds, OpDones
    <3> QED
      BY Zenon, <1>2, <3>1 DEF OpStates
  <2>4. ASSUME NEW c \in Bounded, TimerEnds(c) PROVE op' = op
    BY Zenon, <2>4 DEF TimerEnds
  <2> QED
    BY Zenon, <1>2, <2>1, <2>2, <2>3, <2>4
<1>4. BoundedTypes'
  BY Zenon, <1>1, <1>3 DEF BoundedInv, BoundedTypes
<1>5. ASSUME NEW c \in Bounded PROVE Unwinds(c)'
  BY Zenon, <1>1, <1>3, <1>5 DEF BoundedInv, Unwinds, OpDone, OpDones
<1> QED
  BY Zenon, <1>1, <1>4, <1>5 DEF BoundedInv, EndsHonestly

LEMMA BoundedStep == BoundedInv /\ DeadlineNext => BoundedInv' /\ EndsHonestly
<1> SUFFICES ASSUME BoundedInv, DeadlineNext PROVE BoundedInv' /\ EndsHonestly
  BY Zenon
<1>1. ASSUME NEW c \in Bounded, NEW frame \in Frame, BeginCall(c, frame)
      PROVE  BoundedInv' /\ EndsHonestly
  <2>1. OpDone(c)
    BY Zenon, <1>1 DEF BoundedInv, Unwinds, BeginCall
  <2> QED
    BY Zenon, <1>1, <2>1, EnterKeeps DEF BeginCall
<1>2. ASSUME NEW c \in Bounded, Retry(c) PROVE BoundedInv' /\ EndsHonestly
  <2>1. OpDone(c) /\ call[c].end # "value"
    BY Zenon, <1>2 DEF BoundedInv, Unwinds, Retry
  <2>2. call[c] \in CallFrames
    BY <1>2 DEF BoundedInv, BoundedTypes, Retry
  <2> QED
    BY Zenon, <1>2, <2>1, <2>2, EnterKeeps DEF Retry
<1> QED
  BY Zenon, <1>1, <1>2, WakeKeeps, LeaveKeeps, TasksKeep DEF DeadlineNext

\* Whatever the clock, the caller and the tasks do, an operation does not outlive its
\* call and no value passes a failed clock.
THEOREM BoundedAlways == DeadlineSpec => CallsAreBounded
<1>1. BoundedInv /\ UNCHANGED deadlineVars => BoundedInv'
  BY Zenon DEF BoundedInv, BoundedTypes, Unwinds, OpDone, deadlineVars
<1>2. BoundedInv /\ [DeadlineNext]_deadlineVars => BoundedInv'
  BY Zenon, <1>1, BoundedStep
<1>3. BoundedInv => \A c \in Bounded : OperationIsJoined(c)
  BY Zenon DEF BoundedInv, Unwinds, OperationIsJoined
<1>4. BoundedInv /\ [DeadlineNext]_deadlineVars => [EndsHonestly]_deadlineVars
  BY Zenon, BoundedStep
<1>5. NoValueAfterFault <=> [][EndsHonestly]_deadlineVars
  BY PTL DEF NoValueAfterFault, EndsHonestly
<1> QED
  BY BoundedInit, <1>2, <1>3, <1>4, <1>5, PTL DEF DeadlineSpec, CallsAreBounded

=============================================================================
