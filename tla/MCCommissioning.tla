-------------------------- MODULE MCCommissioning --------------------------
(***************************************************************************)
(* What is written when a robot is commissioned, operated and booted, and  *)
(* read again after a fault: commissioning itself, the operator's state    *)
(* root, the robot's forced-command store, the key directory, the clock    *)
(* record, the firewall receipt and the pairing records.  Each has its own *)
(* files; the first state chooses the part that moves.                     *)
(***************************************************************************)
EXTENDS EdgeCommissioning, SecureTime, FirewallBoot, PairingKeys, TLC

CONSTANTS Variant, MaxStateGen, MaxTime, Life, MaxRootFault, MaxRootCrash     \* OperatorState
CONSTANTS Bundle, Slot, MaxStateGeneration, MaxDispatchFault, MaxRobotLoss    \* ForcedCommand
CONSTANTS MaxWrite, MaxKeyFault, MaxOutage                                    \* KeyStore

VARIABLES root, rootDisk, op, caller, lease, artifacts, now, promised, denied, doubted, rootFaults,
          rootCrashes
VARIABLES store, gens, residue, dispatcher, holder, ptt, core, target, gone, loose, dfaults, rlosses
VARIABLES live, keyDisk, sealed, writes, at, said, keyFaults, outages
VARIABLE part

Operator == INSTANCE OperatorState WITH disk <- rootDisk, faults <- rootFaults, crashes <- rootCrashes,
                MaxGeneration <- MaxStateGen, MaxFault <- MaxRootFault, MaxCrash <- MaxRootCrash
Forced == INSTANCE ForcedCommand WITH state <- store, proc <- dispatcher
Keys == INSTANCE KeyStore WITH disk <- keyDisk

operatorVars == <<root, rootDisk, op, caller, lease, artifacts, now, promised, denied, doubted,
                  rootFaults, rootCrashes>>
forcedVars == <<store, gens, residue, dispatcher, holder, ptt, core, target, gone, loose, dfaults, rlosses>>
keyVars == <<live, keyDisk, sealed, writes, at, said, keyFaults, outages>>
allVars == <<vars, operatorVars, timeVars, fwVars, forcedVars, pairingVars, keyVars, part>>

CommissioningInit ==
    /\ Init /\ Operator!Init /\ TimeInit /\ FwInit /\ Forced!ForcedInit
    /\ PairingInit /\ Keys!KeyInit
    /\ part \in {"commissioning", "operator", "time", "firewall", "forced", "pairing", "keys"}
    /\ part # "time" => rtc

Only(p, others) == part = p /\ UNCHANGED <<part, others>>

CommissioningNext ==
    \/ /\ Only("commissioning", <<operatorVars, timeVars, fwVars, forcedVars, pairingVars, keyVars>>)
       /\ Next
    \/ Only("operator", <<vars, timeVars, fwVars, forcedVars, pairingVars, keyVars>>) /\ Operator!Next
    \/ Only("time", <<vars, operatorVars, fwVars, forcedVars, pairingVars, keyVars>>) /\ TimeNext
    \/ Only("firewall", <<vars, operatorVars, timeVars, forcedVars, pairingVars, keyVars>>) /\ FwNext
    \/ Only("forced", <<vars, operatorVars, timeVars, fwVars, pairingVars, keyVars>>) /\ Forced!ForcedNext
    \/ /\ Only("pairing", <<vars, operatorVars, timeVars, fwVars, forcedVars, keyVars>>)
       /\ PairingNext
    \/ Only("keys", <<vars, operatorVars, timeVars, fwVars, forcedVars, pairingVars>>) /\ Keys!KeyNext

CommissioningSpec == CommissioningInit /\ [][CommissioningNext]_allVars

\* The slots of the forced-command store are interchangeable names.
Slots == Permutations(Slot)

\* What the operator's state root answered survives every fault, kill and power loss.
AnswersHold == Operator!AnswersHold
\* The robot's forced-command store holds what the Core was told it holds.
StoreIsWhole == Forced!StoreIsWhole
\* A key reported written can be read, one reported denied or deleted cannot.
KeyStoreIsTruthful == Keys!KeyStoreIsTruthful

=============================================================================
