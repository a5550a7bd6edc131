------------------------------- MODULE KeyStore -------------------------------
(***************************************************************************)
(* How the Edge keeps one secret in its key directory (EdgeKeyStore).      *)
(* write publishes a file by a hard link, between the creation and the     *)
(* removal of a marker that makes every other call refuse; when the end of *)
(* a publication cannot be made sure, the marker is put back, or a second  *)
(* one, or the key is made unusable.  A call may fail at each step, the    *)
(* process may be killed, and a power loss takes back any of the directory *)
(* changes that were not synchronised.                                     *)
(*                                                                         *)
(* The contents are whole before they get a name: files are synchronised   *)
(* on their own, and a directory entry is there or not.                    *)
(***************************************************************************)
EXTENDS Naturals

CONSTANTS MaxWrite,      \* bound: writes; a key is named by the write it comes from
          MaxKeyFault,   \* bound: system calls that fail
          MaxOutage      \* bound: kills and power losses

VARIABLES live,     \* the entries of the directory
          disk,     \* those that were there when it was last synchronised
          sealed,   \* the keys whose mode is 0, for good
          writes,   \* the writes so far
          at,       \* where the call is
          said,     \* what the calls that ended said about each key
          keyFaults, outages

keyVars == <<live, disk, sealed, writes, at, said, keyFaults, outages>>

-----------------------------------------------------------------------------
KeyInit ==
    /\ live = {}
    /\ disk = {}
    /\ sealed = {}
    /\ writes = 0
    /\ at = "idle"
    /\ said = [k \in 1..MaxWrite |-> "nothing"]
    /\ keyFaults = 0
    /\ outages = 0

\* The entries.  Temporary files have a name of their own, the key has not.
Temp(k) == <<"temp", k>>
Key(k) == <<"key", k>>
Marker == <<"marker", 0>>
Quarantine == <<"quarantine", 0>>
Keys(entries) == {k \in 1..MaxWrite : Key(k) \in entries}

\* _require_no_publication_marker.
Unmarked == live \cap {Marker, Quarantine} = {}

\* _require_safe_key_identity: the usual mode, and no other link.
Safe(k) == Key(k) \in live /\ Temp(k) \notin live /\ k \notin sealed

\* read returns the key.
Readable(k) == Unmarked /\ Safe(k)

To(next) == at' = next

Unlinked(names) == live' = live \ names

Fault ==
    /\ keyFaults < MaxKeyFault
    /\ keyFaults' = keyFaults + 1

End(k, what) ==
    /\ at' = "idle"
    /\ said' = [said EXCEPT ![k] = what]

-----------------------------------------------------------------------------
(***************************************************************************)
(* write.                                                                  *)
(***************************************************************************)

\* The temporary file gets its contents.
BeginWrite ==
    /\ at = "idle" /\ Unmarked /\ Keys(live) = {}
    /\ writes < MaxWrite /\ writes' = writes + 1
    /\ live' = live \cup {Temp(writes')}
    /\ To("marker")
    /\ UNCHANGED <<disk, sealed, said, keyFaults, outages>>

CreateMarker ==
    /\ at = "marker"
    /\ live' = live \cup {Marker}
    /\ To("marker_sync")
    /\ UNCHANGED <<writes, disk, sealed, said, keyFaults, outages>>

\* A synchronisation of the directory, after which the call goes on.
NextAfterSync ==
    [marker_sync |-> "link", link_sync |-> "temp_gone", temp_sync |-> "unmark"]

\* A plausible bug: the directory is not synchronised before the call goes on.
SyncSkipped ==
    /\ at \in DOMAIN NextAfterSync
    /\ To(NextAfterSync[at])
    /\ UNCHANGED <<writes, live, disk, sealed, said, keyFaults, outages>>

Sync ==
    /\ at \in DOMAIN NextAfterSync
    /\ disk' = live
    /\ To(NextAfterSync[at])
    /\ UNCHANGED <<writes, live, sealed, said, keyFaults, outages>>

Link ==
    /\ at = "link"
    /\ live' = live \cup {Key(writes)}
    /\ To("link_sync")
    /\ UNCHANGED <<writes, disk, sealed, said, keyFaults, outages>>

DropTemp ==
    /\ at = "temp_gone"
    /\ Unlinked({Temp(writes)})
    /\ To("temp_sync")
    /\ UNCHANGED <<writes, disk, sealed, said, keyFaults, outages>>

Unmark ==
    /\ at = "unmark"
    /\ Unlinked({Marker})
    /\ To("unmark_sync")
    /\ UNCHANGED <<writes, disk, sealed, said, keyFaults, outages>>

Commit ==
    /\ at = "unmark_sync"
    /\ disk' = live
    /\ End(writes, "written")
    /\ UNCHANGED <<writes, live, sealed, keyFaults, outages>>

\* A failure before the marker is sure takes everything back; one before the
\* marker goes away leaves the marker.  The last synchronisation may fail too.
WriteFails ==
    /\ at \in {"marker", "marker_sync", "link", "link_sync", "temp_gone", "temp_sync"}
    /\ Fault
    /\ Unlinked(IF at \in {"marker", "marker_sync"} THEN {Temp(writes), Marker} ELSE {Temp(writes)})
    /\ disk' \in {disk, live'}
    /\ End(writes, "denied")
    /\ UNCHANGED <<writes, sealed, outages>>

\* The marker is away, perhaps, and perhaps not for good.
UnmarkFails ==
    /\ at \in {"unmark", "unmark_sync"}
    /\ Fault
    /\ To("restore_marker")
    /\ UNCHANGED <<writes, live, disk, sealed, said, outages>>

Blocker == [restore_marker |-> Marker, restore_quarantine |-> Quarantine]

\* _restore_publication_marker, and the same under the second name.
Restore ==
    /\ at \in DOMAIN Blocker
    /\ live' = live \cup {Blocker[at]}
    /\ disk' = live'
    /\ End(writes, "denied")
    /\ UNCHANGED <<writes, sealed, keyFaults, outages>>

RestoreFails ==
    /\ at \in DOMAIN Blocker
    /\ Fault
    /\ live' \in {live, live \cup {Blocker[at]}}
    /\ To(IF at = "restore_marker" THEN "restore_quarantine" ELSE "unclaim")
    /\ UNCHANGED <<writes, disk, sealed, said, outages>>

\* _make_key_name_unclaimable: the mode, the name, the directory; each may fail.
Unclaim ==
    /\ at = "unclaim"
    /\ \E failed \in SUBSET {"mode", "name", "sync"} :
          /\ keyFaults' = keyFaults + (IF "mode" \in failed THEN 1 ELSE 0)
                + (IF "name" \in failed THEN 1 ELSE 0) + (IF "sync" \in failed THEN 1 ELSE 0)
          /\ keyFaults' <= MaxKeyFault
          /\ sealed' = IF "mode" \in failed THEN sealed ELSE sealed \cup {writes}
          /\ Unlinked(IF "name" \in failed THEN {} ELSE {Key(writes)})
          /\ disk' = IF "sync" \in failed THEN disk ELSE live'
    /\ End(writes, "denied")
    /\ UNCHANGED <<writes, outages>>

-----------------------------------------------------------------------------
(***************************************************************************)
(* delete, and what comes from outside.                                    *)
(***************************************************************************)

Delete(k) ==
    /\ at = "idle" /\ Readable(k)
    /\ Unlinked({Key(k)})
    /\ said' = [said EXCEPT ![k] = "nothing"]
    /\ To("delete_sync")
    /\ UNCHANGED <<writes, disk, sealed, keyFaults, outages>>

Deleted(k) ==
    /\ at = "delete_sync"
    /\ k \in Keys(disk)
    /\ disk' = live
    /\ End(k, "deleted")
    /\ UNCHANGED <<writes, live, sealed, keyFaults, outages>>

DeleteFails ==
    /\ at = "delete_sync"
    /\ Fault
    /\ at' = "idle"
    /\ UNCHANGED <<writes, live, disk, sealed, said, outages>>

Killed ==
    /\ outages < MaxOutage
    /\ outages' = outages + 1
    /\ at # "idle" /\ at' = "idle"
    /\ UNCHANGED <<writes, live, disk, sealed, said, keyFaults>>

PowerLoss ==
    /\ outages < MaxOutage
    /\ outages' = outages + 1
    /\ at' = "idle"
    /\ \E kept \in SUBSET (live \cup disk) :
          /\ live \cap disk \subseteq kept
          /\ \A j, k \in Keys(kept) : j = k
          /\ live' = kept /\ disk' = kept
    /\ UNCHANGED <<writes, sealed, said, keyFaults>>

KeyNext ==
    \/ BeginWrite \/ CreateMarker \/ Sync \/ Link \/ DropTemp \/ Unmark \/ Commit
    \/ WriteFails \/ UnmarkFails \/ Restore \/ RestoreFails \/ Unclaim
    \/ (\E k \in 1..MaxWrite : Delete(k) \/ Deleted(k)) \/ DeleteFails \/ Killed \/ PowerLoss

-----------------------------------------------------------------------------
(***************************************************************************)
(* Properties.                                                             *)
(***************************************************************************)

\* A key whose write succeeded can be read, and one whose write failed or whose
\* deletion succeeded cannot, from then on, across kills and power losses and
\* whatever failed on the way.
KeyStoreIsTruthful ==
    \A k \in 1..MaxWrite :
        /\ said[k] = "written" => Readable(k)
        /\ said[k] \in {"denied", "deleted"} => ~Readable(k)
=============================================================================
