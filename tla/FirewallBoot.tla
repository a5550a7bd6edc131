---------------------------- MODULE FirewallBoot ----------------------------
(***************************************************************************)
(* The robot's packet filter at boot: apply_for_current_boot installs the  *)
(* emergency table, replaces it by the rules of the commissioned endpoint, *)
(* observes them and publishes a signed receipt for this boot;             *)
(* gate_current_boot admits the Edge program only against that receipt.    *)
(*                                                                         *)
(*   table    the nftables table: absent, emergency or a full ruleset      *)
(*   files    the receipt and the degraded receipt, each with the marker   *)
(*            that says a publication of it has not been committed         *)
(*   proc     the one-shot program that is running                         *)
(*   admitted the inputs of the last admission, until a program runs again *)
(*                                                                         *)
(* The two programs never run together: the unit that starts the gate is   *)
(* not in the repository and is taken to be ordered after the apply unit.  *)
(***************************************************************************)
EXTENDS Naturals

CONSTANTS MaxBoot, MaxInputs, MaxFwFault, MaxKill

VARIABLES bootId, inputs, table, pinned, files, proc, admitted, fwFaults, kills

fwVars == <<bootId, inputs, table, pinned, files, proc, admitted, fwFaults, kills>>

NoReceipt == [boot |-> 0, gen |-> 0]
Unpublished == [content |-> NoReceipt, marked |-> FALSE]
NoProc == [at |-> "idle", who |-> "none", gen |-> 0, degrade |-> FALSE]
Full(g) == [kind |-> "full", gen |-> g]
Emergency == [kind |-> "emergency", gen |-> 0]
NoTable == [kind |-> "none", gen |-> 0]

FwInit ==
  /\ bootId = 1 /\ inputs = 1 /\ table = NoTable /\ pinned = 0
  /\ files = [receipt |-> Unpublished, degraded |-> Unpublished]
  /\ proc = NoProc /\ admitted = 0 /\ fwFaults = 0 /\ kills = 0

-----------------------------------------------------------------------------
Faulty(ok) == IF ok THEN UNCHANGED fwFaults
              ELSE fwFaults < MaxFwFault /\ fwFaults' = fwFaults + 1
Going(stage) == proc' = [proc EXCEPT !.at = stage]
Ends == proc' = NoProc

(* The table is loaded in one transaction and read back; an error leaves the
   old table or the new one. *)
InstallEmergencyTable(ok) ==
  /\ Faulty(ok) /\ table' \in IF ok THEN {Emergency} ELSE {table, Emergency}

(* The unit that runs before networking. *)
EmergencyBaseline(ok) ==
  /\ proc = NoProc /\ table = NoTable /\ InstallEmergencyTable(ok)
  /\ UNCHANGED <<bootId, inputs, pinned, files, proc, admitted, kills>>

ApplyForCurrentBoot(ok) ==
  /\ proc = NoProc /\ table # NoTable /\ InstallEmergencyTable(ok) /\ admitted' = 0
  /\ proc' = IF ok THEN [NoProc EXCEPT !.at = "inputs", !.who = "apply"] ELSE NoProc
  /\ UNCHANGED <<bootId, inputs, pinned, files, kills>>

(* Boot identity and signing key first, then the commissioned inputs: a
   failure before the key is held leaves no degraded receipt. *)
RestoreFirewallInputs(signed, ok) ==
  /\ proc.at = "inputs" /\ Faulty(ok) /\ (ok => signed)
  /\ proc' = [proc EXCEPT !.at = IF ok THEN "neighbor" ELSE "retain", !.gen = inputs, !.degrade = signed]
  /\ UNCHANGED <<bootId, inputs, table, pinned, files, admitted, kills>>

InstallNeighborBinding(ok) ==
  /\ proc.at = "neighbor" /\ Faulty(ok)
  /\ pinned' \in IF ok THEN {proc.gen} ELSE {pinned, proc.gen}
  /\ Going(IF ok THEN "apply" ELSE "retain")
  /\ UNCHANGED <<bootId, inputs, table, files, admitted, kills>>

(* apply_ruleset and the observation after it. *)
ApplyRuleset(ok) ==
  /\ proc.at = "apply" /\ Faulty(ok)
  /\ table' \in IF ok THEN {Full(proc.gen)} ELSE {table, Full(proc.gen)}
  /\ Going(IF ok THEN "mark" ELSE "retain")
  /\ UNCHANGED <<bootId, inputs, pinned, files, admitted, kills>>

-----------------------------------------------------------------------------
(* FirewallReceiptRepository.replace_atomic for the file being published. *)
Target == IF proc.at \in {"mark", "rename", "unmark"} THEN "receipt" ELSE "degraded"
Next3(stage) == CASE stage = "mark" -> "rename" [] stage = "rename" -> "unmark"
                  [] stage = "dmark" -> "drename" [] stage = "drename" -> "dunmark"

(* Where a failed publication leads: the apply program turns to the emergency
   table, a failed degraded receipt ends the program. *)
PublicationFails == IF Target = "receipt" THEN Going("retain") ELSE Ends

(* The temporary file and the marker are written and synced; a failure takes
   the marker away again. *)
MarkPublication(ok) ==
  /\ proc.at \in {"mark", "dmark"}
  /\ IF files[Target].marked
     THEN ok /\ UNCHANGED <<files, fwFaults>> /\ PublicationFails
     ELSE /\ Faulty(ok)
          /\ files' = [files EXCEPT ![Target].marked = ok]
          /\ IF ok THEN Going(Next3(proc.at)) ELSE PublicationFails
  /\ UNCHANGED <<bootId, inputs, table, pinned, admitted, kills>>

(* The receipt is renamed into place; on an error the marker stays. *)
ReplaceReceipt(ok) ==
  /\ proc.at \in {"rename", "drename"} /\ Faulty(ok)
  /\ LET new == [boot |-> bootId, gen |-> proc.gen] IN
     \E content \in IF ok THEN {new} ELSE {files[Target].content, new} :
       files' = [files EXCEPT ![Target].content = content]
  /\ IF ok THEN Going(Next3(proc.at)) ELSE PublicationFails
  /\ UNCHANGED <<bootId, inputs, table, pinned, admitted, kills>>

(* The marker goes last.  When its removal cannot be synced the marker, or a
   quarantine marker, is put back; if neither can be written the receipt is
   made unclaimable.  The apply program then drops the degraded receipt. *)
RemovePublicationMarker(ok) ==
  /\ proc.at \in {"unmark", "dunmark"} /\ Faulty(ok)
  /\ IF ok
     THEN /\ Ends
          /\ files' = [files EXCEPT ![Target].marked = FALSE,
                          !.degraded.content = IF Target = "receipt" THEN NoReceipt ELSE @]
     ELSE /\ PublicationFails
          /\ files' \in {files, [files EXCEPT ![Target] = Unpublished]}
  /\ UNCHANGED <<bootId, inputs, table, pinned, admitted, kills>>

RetainEmergencyTable(ok) ==
  /\ proc.at = "retain" /\ InstallEmergencyTable(ok)
  /\ IF ok /\ proc.degrade THEN Going("dmark") ELSE Ends
  /\ UNCHANGED <<bootId, inputs, pinned, files, admitted, kills>>

-----------------------------------------------------------------------------
(* FirewallReceiptRepository.require: a marked file is not a receipt. *)
Require(f) == IF files[f].marked THEN NoReceipt ELSE files[f].content

\* A plausible bug: the receipt is believed without looking at the table.
CurrentBootReceiptUnobserved == Require("receipt") = [boot |-> bootId, gen |-> inputs]

(* require_current_boot_receipt: the receipt is committed and says exactly
   what is observed now. *)
CurrentBootReceipt ==
  /\ Require("receipt") = [boot |-> bootId, gen |-> inputs]
  /\ table = Full(inputs)

GateAdmits ==
  /\ proc = NoProc /\ files.degraded.content = NoReceipt
  /\ pinned = inputs /\ CurrentBootReceipt
  /\ admitted' = inputs
  /\ UNCHANGED <<bootId, inputs, table, pinned, files, proc, fwFaults, kills>>

(* Any failure installs the emergency table; a degraded receipt is issued
   unless the failure was that one exists, or the key could not be read. *)
GateRefuses(signed, ok) ==
  /\ proc = NoProc /\ table # NoTable /\ Faulty(ok)
  /\ ok => ~(files.degraded.content = NoReceipt /\ pinned = inputs /\ CurrentBootReceipt)
  /\ ok => signed
  /\ admitted' = 0
  /\ proc' = [NoProc EXCEPT !.at = "retain", !.who = "gate",
                 !.degrade = signed /\ files.degraded.content = NoReceipt]
  /\ UNCHANGED <<bootId, inputs, table, pinned, files, kills>>

-----------------------------------------------------------------------------
(* External: the endpoint is commissioned again, a program is killed, the
   robot loses power.  A publication cut short by a power loss may or may not
   have its marker on disk. *)
InputsChange ==
  /\ inputs < MaxInputs /\ inputs' = inputs + 1
  /\ UNCHANGED <<bootId, admitted, table, pinned, files, proc, fwFaults, kills>>

Kill ==
  /\ proc # NoProc /\ kills < MaxKill /\ kills' = kills + 1 /\ Ends
  /\ UNCHANGED <<bootId, inputs, table, pinned, files, admitted, fwFaults>>

Reboot ==
  /\ bootId < MaxBoot /\ bootId' = bootId + 1
  /\ table' = NoTable /\ pinned' = 0 /\ admitted' = 0 /\ Ends
  /\ \E marked \in IF proc.at \in {"rename", "unmark", "drename", "dunmark"} THEN BOOLEAN
                   ELSE {files[Target].marked} :
       files' = [files EXCEPT ![Target].marked = marked]
  /\ UNCHANGED <<inputs, fwFaults, kills>>

FwNext ==
  \/ \E ok \in BOOLEAN :
       \/ EmergencyBaseline(ok) \/ ApplyForCurrentBoot(ok) \/ InstallNeighborBinding(ok)
       \/ ApplyRuleset(ok) \/ MarkPublication(ok) \/ ReplaceReceipt(ok)
       \/ RemovePublicationMarker(ok) \/ RetainEmergencyTable(ok)
       \/ \E signed \in BOOLEAN : RestoreFirewallInputs(signed, ok) \/ GateRefuses(signed, ok)
  \/ GateAdmits \/ InputsChange \/ Kill \/ Reboot

FwSpec == FwInit /\ [][FwNext]_fwVars

-----------------------------------------------------------------------------
(* An admitted Edge program runs behind the full ruleset of the endpoint it
   was admitted for, whatever failed, was killed or was published before. *)
AdmittedBehindRules == admitted # 0 => table = Full(admitted) /\ pinned = admitted

=============================================================================
