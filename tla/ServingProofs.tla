--------------------------- MODULE ServingProofs ----------------------------
(***************************************************************************)
(* Proofs about the robot while it serves a household: the runtime on the  *)
(* Edge, the audio of a voice turn, the bridge over ssh between Core and   *)
(* Edge, the device and media objects behind the link and the session      *)
(* keys, for any number of callers, gestures, camera calls, readers,       *)
(* consumers and rotations. The modules share no state; each part has an   *)
(* inductive invariant of its own.                                         *)
(***************************************************************************)
EXTENDS EdgeRuntime, VoiceTurn, SshBridge, ReachyDevice, ReachyMedia, PairingKeys, TLAPS

-----------------------------------------------------------------------------
(***************************************************************************)
(* EdgeRuntime, for any number of concurrent callers of stop. The          *)
(* invariant ties the three facts the two calls read under the lock,       *)
(* claimed, terminal and the cleanup task, to where run is: the lock is    *)
(* held exactly while a start is rolled back, a session that has a cleanup *)
(* task and no run is terminal, so that no run claims it any more, and a   *)
(* receipt is only there when every task is cancelled. A stop awaits the   *)
(* task that counts because no task is replaced except under a roll back,  *)
(* which keeps every stop out.                                             *)
(***************************************************************************)

Underway == {"running", "capturing", "finishing", "done"}
RollingBack == {"rollback", "observing"}
Joined == {"latching", "awaiting", "returned"}

TypeInv ==
    /\ cleanup \in [kind : {"none", "coordinator", "observation", "receipt"}, id : Nat]
    /\ run \in {"idle", "waiting", "refused"} \cup RollingBack \cup Underway
    /\ stop \in [Stopper -> [at : {"idle", "waiting"} \cup Joined, id : Nat]]
    /\ claimed \in BOOLEAN /\ terminal \in BOOLEAN /\ latched \in BOOLEAN

Lifecycle ==
    /\ lock = IF run \in RollingBack THEN {"run"} ELSE {}
    /\ claimed <=> run \in RollingBack \cup Underway
    /\ terminal <=> latched
    /\ cleanup.kind = "receipt" => tasks = {} /\ latched
    /\ ~claimed => tasks = {} /\ cleanup.kind # "coordinator" /\ (cleanup.kind # "none" => latched)
    /\ claimed => cleanup.kind # "observation"
    /\ run \in Underway => cleanup.kind # "none"
    /\ run = "observing" => tasks = {} /\ latched
    /\ run = "done" => cleanup.kind = "receipt"

Stops ==
    \A s \in Stopper : stop[s].at \in Joined =>
        /\ stop[s].id = cleanup.id
        /\ cleanup.kind # "none"
        /\ run \notin RollingBack
        /\ stop[s].at = "returned" => cleanup.kind = "receipt"

RuntimeInv == TypeInv /\ Lifecycle /\ Stops

(* The invariant holds before run and stop are called. *)
LEMMA RuntimeInvInit == RuntimeInit => RuntimeInv
<1> SUFFICES ASSUME RuntimeInit PROVE RuntimeInv
  BY Zenon
<1> USE DEF RuntimeInit, Underway, RollingBack, Joined
<1>1. TypeInv
  BY Zenon DEF TypeInv
<1>2. Lifecycle
  BY Zenon DEF Lifecycle
<1>3. Stops
  BY Zenon DEF Stops
<1>4. QED
  BY Zenon, <1>1, <1>2, <1>3 DEF RuntimeInv

(* Every step of run, of a stop and of the cleanup task preserves it. *)
LEMMA RuntimeInvStep == RuntimeInv /\ [RuntimeNext]_runtimeVars => RuntimeInv'
<1> SUFFICES ASSUME RuntimeInv, [RuntimeNext]_runtimeVars PROVE RuntimeInv'
  BY Zenon
<1> USE DEF RuntimeInv, TypeInv, Lifecycle, Stops, Underway, RollingBack, Joined
<1>1. CASE UNCHANGED runtimeVars
  BY Zenon, <1>1 DEF runtimeVars
<1>2. CASE RunCalls
  BY Zenon, <1>2 DEF RunCalls
<1>3. CASE RunNeverEnters
  BY Zenon, <1>3 DEF RunNeverEnters
<1>4. CASE RunRefused
  BY Zenon, <1>4 DEF RunRefused
<1>5. CASE RunStarts
  BY <1>5 DEF RunStarts, MayClaim, NewCleanup
<1>6. CASE RunStartFailsEarly
  BY Zenon, <1>6 DEF RunStartFailsEarly, MayClaim
<1>7. ASSUME NEW n \in 0..(Len(StartupTasks) - 1), RunStartFails(n) PROVE RuntimeInv'
  BY <1>7 DEF RunStartFails, MayClaim, NewCleanup
<1>8. CASE RollbackCancels
  BY Zenon, <1>8 DEF RollbackCancels
<1>9. CASE RollbackEnds
  BY <1>9 DEF RollbackEnds, NewCleanup
<1>10. CASE TurnStarts
  BY Zenon, <1>10 DEF TurnStarts
<1>11. CASE RunLeaves
  BY Zenon, <1>11 DEF RunLeaves, Latch, Ready
<1>12. CASE RunEnds
  BY Zenon, <1>12 DEF RunEnds, Ready
<1>13. ASSUME NEW t, TaskLatches(t) PROVE RuntimeInv'
  BY Zenon, <1>13 DEF TaskLatches, Latch
<1>14. ASSUME NEW t, TaskEnds(t) PROVE RuntimeInv'
  BY Zenon, <1>14 DEF TaskEnds
<1>15. CASE CoordinatorEnds
  BY Zenon, <1>15 DEF CoordinatorEnds
<1>16. CASE ObservationEnds
  BY Zenon, <1>16 DEF ObservationEnds
<1>17. ASSUME NEW s \in Stopper, StopCalls(s) PROVE RuntimeInv'
  BY Zenon, <1>17 DEF StopCalls
<1>18. ASSUME NEW s \in Stopper, NEW kind \in {"observation", "receipt"}, StopBegins(s, kind)
       PROVE RuntimeInv'
  BY <1>18 DEF StopBegins, NewCleanup
<1>19. ASSUME NEW s \in Stopper, StopJoins(s) PROVE RuntimeInv'
  BY Zenon, <1>19 DEF StopJoins, RuntimeCleanup
<1>20. ASSUME NEW s \in Stopper, StopLatches(s) PROVE RuntimeInv'
  BY Zenon, <1>20 DEF StopLatches, Latch
<1>21. ASSUME NEW s \in Stopper, StopReturns(s) PROVE RuntimeInv'
  BY Zenon, <1>21 DEF StopReturns, Ready
<1>22. QED
  BY Zenon, <1>1, <1>2, <1>3, <1>4, <1>5, <1>6, <1>7, <1>8, <1>9, <1>10, <1>11, <1>12, <1>13, <1>14,
     <1>15, <1>16, <1>17, <1>18, <1>19, <1>20, <1>21 DEF RuntimeNext, RunNext, StopperNext

(* The invariant holds in every state of the edge session. *)
THEOREM RuntimeInvAlways == RuntimeSpec => []RuntimeInv
  BY RuntimeInvInit, RuntimeInvStep, PTL DEF RuntimeSpec

(* However many callers race the start, a start that fails half way and each
   other: after run has ended or a stop has returned there is a receipt, no
   runtime task goes on, and none starts again. *)
THEOREM QuietAfterStop == RuntimeSpec => []StoppedIsQuiet
<1>1. RuntimeInv => StoppedIsQuiet
  BY Zenon DEF RuntimeInv, TypeInv, Lifecycle, Stops, StoppedIsQuiet, Ready, Joined
<1>2. QED
  BY <1>1, RuntimeInvAlways, PTL

(* No stop is left awaiting a cleanup task that was replaced under it. *)
THEOREM AwaitsTheCleanup == RuntimeSpec => []StopAwaitsTheCleanup
<1>1. RuntimeInv => StopAwaitsTheCleanup
  BY Zenon DEF RuntimeInv, Stops, StopAwaitsTheCleanup, Joined
<1>2. QED
  BY <1>1, RuntimeInvAlways, PTL

-----------------------------------------------------------------------------
(***************************************************************************)
(* VoiceTurn. Audio is held only while the turn, or an operation it left   *)
(* behind, still runs.                                                     *)
(***************************************************************************)

(* The turn is over exactly when its buffers are abandoned, and then a buffer holds
   audio only while an operation that outlived its step may still fill it. *)
VoiceInv ==
    /\ abandoned <=> at = "over"
    /\ at = "over" => \A b \in pcm : \E s \in leaked : b \in Fills(s)

LEMMA StepsAreRunning == /\ Running => at # "over"
                         /\ \A i \in 1..Len(Steps) : Steps[i] # "over"
  BY DEF Running, Steps

LEMMA VoiceInvStep == VoiceInv /\ [VoiceNext]_voiceVars => VoiceInv'
<1> SUFFICES ASSUME VoiceInv, [VoiceNext]_voiceVars PROVE VoiceInv'
  BY Zenon
<1>1. CASE UNCHANGED voiceVars
  BY Zenon, <1>1 DEF voiceVars, VoiceInv
<1>2. CASE ClaimPcm
  BY Zenon, <1>2 DEF ClaimPcm, VoiceInv, Steps
<1>3. CASE OwnerCancels \/ Begin \/ OperationEnds
  BY <1>3, StepsAreRunning DEF OwnerCancels, Begin, OperationEnds, VoiceInv
<1>4. CASE StepCompletes
  <2>1. at # "over" /\ at' # "over" /\ UNCHANGED abandoned
    BY <1>4, StepsAreRunning DEF StepCompletes, Steps, StepOf
  <2>2. QED
    BY Zenon, <2>1 DEF VoiceInv
<1>5. CASE StepFails
  BY Zenon, <1>5, StepsAreRunning DEF StepFails, VoiceInv
<1>6. CASE Play \/ Finally
  BY <1>6 DEF Play, Finally, VoiceInv
<1>7. ASSUME NEW i \in 1..Len(Steps), AppendChunk(Steps[i]) PROVE VoiceInv'
  BY Zenon, <1>7, StepsAreRunning DEF AppendChunk, VoiceInv
<1>8. ASSUME NEW i \in 1..Len(Steps), LeakedEnds(Steps[i]) PROVE VoiceInv'
  <2>1. CASE at # "over"
    BY Zenon, <1>8, <2>1 DEF LeakedEnds, VoiceInv
  <2>2. CASE at = "over"
    <3>1. leaked' = leaked \ {Steps[i]} /\ pcm' = pcm \ Fills(Steps[i]) /\ UNCHANGED <<at, abandoned>>
      BY Zenon, <1>8, <2>2 DEF LeakedEnds, OwnedFinally, VoiceInv
    <3>2. QED
      BY Zenon, <2>2, <3>1 DEF VoiceInv
  <2>3. QED
    BY Zenon, <2>1, <2>2
<1>9. QED
  BY Zenon, <1>1, <1>2, <1>3, <1>4, <1>5, <1>6, <1>7, <1>8 DEF VoiceNext

(* Once a turn and every operation it started are over no buffer holds audio. *)
THEOREM WipedAlways == VoiceSpec => []AudioIsWiped
<1>1. VoiceInit => VoiceInv
  BY Zenon DEF VoiceInit, VoiceInv
<1>2. VoiceInv => AudioIsWiped
  BY Zenon DEF VoiceInv, AudioIsWiped
<1>3. QED
  BY <1>1, <1>2, VoiceInvStep, PTL DEF VoiceSpec

-----------------------------------------------------------------------------
(***************************************************************************)
(* SshBridge. An outcome is set by one of the cleaner's two steps or by    *)
(* the frame that carries it.                                              *)
(***************************************************************************)

(* A cleanup runs only in a closed bridge, alone at the stream once it has the receipt;
   what it took for a complete receipt is one, and it does not end without an outcome. *)
BridgeInv ==
    /\ final \notin {"none", "incomplete"} => complete
    /\ cleaner.at # "none" => closed /\ cleaner.reason # "none"
    /\ cleaner.at = "acking" => recv # "reading" /\ (cleaner.accepted => complete)
    /\ cleaner.at \in {"closing", "ended"} => final # "none"
    /\ cleaner \in [at : {"none", "aborting", "reading", "acking", "closing", "ended"},
                    reason : {"none", "rejected", "peer_closed", "cancelled"}, accepted : BOOLEAN]

(* Whoever closes the bridge first begins the cleanup; the others leave it alone. *)
LEMMA ClosedOnce ==
  ASSUME BridgeInv, NEW g, NEW begun, NEW reason \in {"rejected", "peer_closed", "cancelled"},
         FailClosed(g, begun, final, reason), UNCHANGED <<complete, final>>,
         recv' = "reading" => recv = "reading"
  PROVE  BridgeInv'
<1>1. CASE closed
  BY Zenon, <1>1 DEF FailClosed, BridgeInv
<1>2. CASE ~closed
  <2>1. closed' /\ cleaner' = [at |-> IF final # "none" THEN "closing" ELSE IF begun THEN "reading" ELSE "aborting",
                               reason |-> reason, accepted |-> FALSE]
    BY Zenon, <1>2 DEF FailClosed, BeginCleanup
  <2>2. QED
    BY Zenon, <2>1 DEF BridgeInv
<1>3. QED
  BY Zenon, <1>1, <1>2

LEMMA BridgeInvStep == BridgeInv /\ [BridgeNext]_bridgeVars => BridgeInv'
<1> SUFFICES ASSUME BridgeInv, [BridgeNext]_bridgeVars PROVE BridgeInv'
  BY Zenon
<1>1. CASE UNCHANGED bridgeVars
  BY Zenon, <1>1 DEF bridgeVars, BridgeInv
<1>2. CASE Connect \/ Written \/ Receive
  BY Zenon, <1>2 DEF Connect, Written, Receive, BridgeInv
<1>3. CASE ConnectFails
  BY Zenon, <1>3, ClosedOnce DEF ConnectFails
<1>4. CASE WriteFails
  BY Zenon, <1>4, ClosedOnce DEF WriteFails
<1>5. CASE Close
  BY Zenon, <1>5, ClosedOnce DEF Close
<1>6. ASSUME NEW reason \in {"rejected", "peer_closed"}, ReadFails(reason) PROVE BridgeInv'
  BY Zenon, <1>6, ClosedOnce DEF ReadFails
<1>7. ASSUME NEW f \in CoreFrame, Send(f) PROVE BridgeInv'
  <2>1. PICK g \in Accepts(guard, complete, f) :
          IF g = "failed"
          THEN FailClosed(g, started, final, "rejected") /\ UNCHANGED final
          ELSE final' = Outcome(f) /\ UNCHANGED <<closed, cleaner>>
    BY Zenon, <1>7 DEF Send
  <2>2. CASE g = "failed"
    BY Zenon, <1>7, <2>1, <2>2, ClosedOnce DEF Send
  <2>3. CASE g # "failed"
    <3>1. f = "ack" => complete
      BY Zenon, <2>1, <2>3 DEF Accepts
    <3>2. QED
      BY Zenon, <1>7, <2>1, <2>3, <3>1 DEF Send, Outcome, CoreFrame, BridgeInv
  <2>4. QED
    BY Zenon, <2>2, <2>3
<1>8. ASSUME NEW f \in EdgeFrame, Received(f) PROVE BridgeInv'
  <2>1. PICK g \in Accepts(guard, complete, f) :
          IF g = "failed"
          THEN FailClosed(g, started, final, "rejected") /\ UNCHANGED <<complete, final>> /\ recv' = "over"
          ELSE Observe(f) /\ recv' = "idle" /\ UNCHANGED <<closed, cleaner>>
    BY Zenon, <1>8 DEF Received
  <2>2. CASE g = "failed"
    BY Zenon, <2>1, <2>2, ClosedOnce
  <2>3. CASE g # "failed"
    BY Zenon, <1>8, <2>1, <2>3 DEF Received, Observe, EdgeFrame, BridgeInv
  <2>4. QED
    BY Zenon, <2>2, <2>3
<1>9. ASSUME NEW f \in EdgeFrame, CleanupReads(f) PROVE BridgeInv'
  BY ZenonT(40), <1>9 DEF CleanupReads, Observe, To, EdgeFrame, BridgeInv
<1>10. CASE AbortWritten \/ CleanupFails \/ AckWritten \/ ProcessCloses
  BY ZenonT(40), <1>10 DEF AbortWritten, CleanupFails, AckWritten, ProcessCloses, To, BridgeInv
<1>11. QED
  BY Zenon, <1>1, <1>2, <1>3, <1>4, <1>5, <1>6, <1>7, <1>8, <1>9, <1>10 DEF BridgeNext

(* An outcome other than cleanup_incomplete rests on the robot's complete receipt. *)
THEOREM EarnedAlways == BridgeSpec => []OutcomeIsEarned
<1>1. BridgeInit => BridgeInv
  BY DEF BridgeInit, BridgeInv
<1>2. BridgeInv => OutcomeIsEarned
  BY Zenon DEF BridgeInv, OutcomeIsEarned
<1>3. QED
  BY <1>1, <1>2, BridgeInvStep, PTL DEF BridgeSpec

-----------------------------------------------------------------------------
(***************************************************************************)
(* ReachyDevice. A stop that is under way has the robot to itself but for  *)
(* the calls left adrift, whose landing the history records.               *)
(***************************************************************************)

(* While stop_all runs, execute waits for nothing; a playback that was stopped stays
   stopped, and the idle state is restored only over a robot seen to be still. *)
Stopping ==
    /\ stopping # "off" \/ managed # "serving" => awaited = "none"
    /\ stopping \in {"off", "restore"} => todo = {}
    /\ "stop_playback" \in good /\ stopping # "off" /\ ~landed => ~playing
    /\ stopping = "restore" /\ ~landed => moving = {} /\ ~playing
    /\ receipt = "safe" => stopping = "off" /\ awaited = "none"

DeviceInv == Stopping /\ StopIsSafe

LEMMA DeviceInvStep == DeviceInv /\ [DeviceNext]_deviceVars => DeviceInv'
<1> SUFFICES ASSUME DeviceInv, [DeviceNext]_deviceVars PROVE DeviceInv'
  BY Zenon
<1> USE DEF DeviceInv, Stopping, StopIsSafe, SafeReceiptIsTrue, DialsInErrorSafe, robot, barrier,
        BeginStopAll, Fail, Reach
<1>1. CASE UNCHANGED deviceVars
  BY Zenon, <1>1 DEF deviceVars
<1>2. CASE AdriftLands \/ AdriftEnds
  BY <1>2 DEF AdriftLands, AdriftEnds
<1>3. CASE RobotFinishes
  BY <1>3 DEF RobotFinishes
<1>4. ASSUME NEW c \in Command, Execute(c) PROVE DeviceInv'
  BY Zenon, <1>4 DEF Execute
<1>5. CASE ExecuteReturns
  BY Zenon, <1>5 DEF ExecuteReturns
<1>6. CASE ExecuteFails
  BY Zenon, <1>6 DEF ExecuteFails
<1>7. CASE StopCommand
  BY Zenon, <1>7 DEF StopCommand
<1>8. CASE CallReturns
  BY <1>8, DeviceConstants DEF CallReturns, Effect, FirstCalls
<1>9. CASE CallFails
  BY <1>9, DeviceConstants DEF CallFails, Effect, FirstCalls
<1>10. CASE FirstCallsDone \/ Recheck \/ RestoreIdle
  BY <1>10 DEF FirstCallsDone, Recheck, RestoreIdle, StopsSafely, FirstCalls
<1>11. CASE Gates \/ StartupSafety \/ Connected
  BY <1>11 DEF Gates, StartupSafety, Connected
<1>12. CASE ControllerPoll
  BY Zenon, <1>12 DEF ControllerPoll
<1>13. CASE ConnectionEnds
  BY Zenon, <1>13 DEF ConnectionEnds
<1>14. CASE DisconnectSafety \/ DisconnectDone \/ CleanupDone \/ ProcessRestarts
  BY <1>14 DEF DisconnectSafety, DisconnectDone, CleanupDone, ProcessRestarts
<1>15. QED
  BY Zenon, <1>1, <1>2, <1>3, <1>4, <1>5, <1>6, <1>7, <1>8, <1>9, <1>10, <1>11, <1>12, <1>13, <1>14 DEF DeviceNext

(* Whatever daemon calls are abandoned, the Edge reports a stopping as safe only when the robot
   is still, and dials only in ERROR_SAFE, for any set of gestures and commands. *)
THEOREM StopsSafelyAlways == DeviceSpec => []StopIsSafe
<1>1. DeviceInit => DeviceInv
  BY Zenon DEF DeviceInit, DeviceInv, Stopping, StopIsSafe, SafeReceiptIsTrue, DialsInErrorSafe
<1>2. QED
  BY <1>1, DeviceInvStep, PTL DEF DeviceSpec, DeviceInv

-----------------------------------------------------------------------------
(***************************************************************************)
(* ReachyMedia. The camera window, the queues and the audio have separate  *)
(* invariants; only a restart touches all three.                           *)
(***************************************************************************)

Called == [at : {"claiming", "claimed", "open", "refused"}, grant : Grant, ticket : Nat, generation : Nat]

(* A claimedGrants call holds a grant that no window was opened for and no other call holds; a
   call that a close event overtook belongs to an older generation. *)
Windows ==
    /\ camera \in Call \cup {NoCall} /\ ticket \in Nat /\ installed \in Nat /\ generation \in Nat
    /\ call \in [Call -> Called \cup {NotCalled}] /\ opened \in [Grant -> Nat]
    /\ \A c \in Call : call[c].at = "claimed" =>
         /\ call[c].grant \in claimedGrants /\ opened[call[c].grant] = 0
         /\ \A d \in Call : call[d].at = "claimed" /\ call[d].grant = call[c].grant => d = c
    /\ \A g \in Grant : opened[g] <= 1 /\ (opened[g] > 0 => g \in claimedGrants)
    /\ \A c \in Call : call[c].at \in {"claiming", "claimed"} =>
         /\ call[c].generation <= generation
         /\ c \in overtaken => call[c].generation < generation
    /\ overtaken \subseteq Call /\ \A c \in overtaken : call[c].at # "idle"
    /\ camera # NoCall => camera \notin overtaken /\ call[camera].at = "open" /\ call[camera].ticket = installed

(* The event is set whenever a frame is queued, and nobody waits for an event that is set. *)
Wakeups ==
    /\ queue \in [{"safety", "control", "media"} -> Nat]
    /\ reader \in [Reader -> {"running", "about", "waiting"}]
    /\ Total > 0 => available
    /\ available => \A r \in Reader : reader[r] # "waiting"

(* One consumer at most is past the claim, and a stream is open only while its consumer is
   at work. *)
Streams ==
    /\ consumer \in [Consumer -> {"idle", "opened", "claimed", "returning", "failing", "returned", "failed"}]
    /\ \A c \in Consumer : consumer[c] \in {"claimed", "returning", "returned"} =>
         /\ audioClaim
         /\ \A d \in Consumer : consumer[d] \in {"claimed", "returning", "returned"} => d = c
    /\ \A c \in Consumer : c \in streams => consumer[c] \in {"opened", "claimed", "returning", "failing"}

MediaInv == Windows /\ Wakeups /\ Streams

CameraNext ==
    (\E c \in Call : (\E g \in Grant : GrantCamera(c, g)) \/ ClaimGrant(c) \/ InstallWindow(c)) \/ CloseCamera
QueueNext ==
    (\E l \in {"safety", "control"} : PutStrict(l)) \/ PutMedia \/ (\E r \in Reader : Get(r) \/ AwaitAvailable(r))
AudioNext == \E c \in Consumer : OpenCompleted(c) \/ ClaimOnce(c) \/ ReadChunks(c) \/ CloseAndWipe(c)

LEMMA WindowsStep == Windows /\ CameraNext => Windows'
<1> SUFFICES ASSUME Windows, CameraNext PROVE Windows'
  BY Zenon
<1>1. ASSUME NEW c \in Call, NEW g \in Grant, GrantCamera(c, g) PROVE Windows'
  BY <1>1, MediaConstants DEF GrantCamera, Windows, Called, NotCalled
<1>2. ASSUME NEW c \in Call, ClaimGrant(c) PROVE Windows'
  BY <1>2, MediaConstants DEF ClaimGrant, Windows, Called, NotCalled
<1>3. ASSUME NEW c \in Call, InstallWindow(c) PROVE Windows'
  <2>1. call[c] \in Called /\ call[c].at = "claimed" /\ UNCHANGED <<ticket, generation, claimedGrants, overtaken>>
    BY <1>3 DEF InstallWindow, Windows, Called, NotCalled
  <2>2. CASE generation = call[c].generation /\ call[c].ticket >= installed
    <3>1. /\ camera' = c /\ installed' = call[c].ticket
          /\ opened' = [opened EXCEPT ![call[c].grant] = @ + 1]
          /\ call' = [call EXCEPT ![c] = [call[c] EXCEPT !.at = "open"]]
      BY Zenon, <1>3, <2>2 DEF InstallWindow
    <3>2. [call[c] EXCEPT !.at = "open"] \in Called /\ call[c].grant \in Grant
      BY Zenon, <2>1 DEF Called
    <3>3. \A d \in Call \ {c} : call'[d] = call[d]
      BY Zenon, <3>1 DEF Windows
    <3>4. call'[c].at = "open" /\ call'[c].ticket = call[c].ticket
      BY Zenon, <2>1, <3>1 DEF Windows, Called
    <3>5. /\ opened'[call[c].grant] = 1 /\ call[c].grant \in claimedGrants /\ opened' \in [Grant -> Nat]
          /\ \A g \in Grant : g # call[c].grant => opened'[g] = opened[g]
      BY <2>1, <3>1, <3>2 DEF Windows
    <3>6. c \notin overtaken
      BY <2>1, <2>2 DEF Windows, Called
    <3>7. call' \in [Call -> Called \cup {NotCalled}] /\ installed' \in Nat
      BY SMTT(20), <2>1, <3>1, <3>2 DEF Windows, Called
    <3>8. \A d \in Call : call'[d].at = "claimed" =>
            /\ d # c /\ call[d].grant # call[c].grant /\ call[d].grant \in Grant
      BY <2>1, <3>3, <3>4 DEF Windows, Called, NotCalled
    <3>9. QED
      BY <2>1, <3>1, <3>3, <3>4, <3>5, <3>6, <3>7, <3>8, MediaConstants DEF Windows
  <2>3. CASE ~(generation = call[c].generation /\ call[c].ticket >= installed)
    BY SMTT(20), <1>3, <2>1, <2>3, MediaConstants DEF InstallWindow, Windows, Called, NotCalled
  <2>4. QED
    BY Zenon, <2>2, <2>3
<1>4. CASE CloseCamera
  BY <1>4, MediaConstants DEF CloseCamera, Windows, Called, NotCalled
<1>5. QED
  BY Zenon, <1>1, <1>2, <1>3, <1>4 DEF CameraNext

LEMMA WakeupsStep == Wakeups /\ QueueNext => Wakeups'
<1> SUFFICES ASSUME Wakeups, QueueNext PROVE Wakeups'
  BY Zenon
<1>1. ASSUME NEW l \in {"safety", "control"}, PutStrict(l) PROVE Wakeups'
  BY <1>1 DEF PutStrict, SetAvailable, Wakeups, Total
<1>2. CASE PutMedia
  BY <1>2 DEF PutMedia, SetAvailable, Wakeups, Total
<1>3. ASSUME NEW r \in Reader, Get(r) PROVE Wakeups'
  <2>1. queue["safety"] \in Nat /\ queue["control"] \in Nat /\ queue["media"] \in Nat
    BY Zenon DEF Wakeups
  <2>2. CASE Total > 0
    <3>1. FirstLane \in {"safety", "control", "media"} /\ queue[FirstLane] > 0
      BY <2>1, <2>2 DEF Total, FirstLane
    <3>2. queue' = [queue EXCEPT ![FirstLane] = @ - 1] /\ available' = (available /\ Total > 1) /\ UNCHANGED reader
      BY Zenon, <1>3, <2>2 DEF Get
    <3>3. Total' = Total - 1 /\ queue' \in [{"safety", "control", "media"} -> Nat]
      BY <2>1, <3>1, <3>2 DEF Wakeups, Total
    <3>4. available /\ Total \in Nat
      BY <2>1, <2>2 DEF Wakeups, Total
    <3>5. CASE Total > 1
      <4>1. available'
        BY Zenon, <3>2, <3>4, <3>5
      <4>2. QED
        BY Zenon, <3>2, <3>3, <3>4, <4>1 DEF Wakeups
    <3>7. CASE ~(Total > 1)
      <4>1. ~(Total' > 0)
        BY <3>3, <3>4, <3>7
      <4>2. QED
        BY Zenon, <3>2, <3>3, <3>4, <4>1 DEF Wakeups
    <3>6. QED
      BY Zenon, <3>5, <3>7
  <2>3. CASE ~(Total > 0)
    BY Zenon, <1>3, <2>3 DEF Get, Wakeups, Total
  <2>4. QED
    BY Zenon, <2>2, <2>3
<1>4. ASSUME NEW r \in Reader, AwaitAvailable(r) PROVE Wakeups'
  BY Zenon, <1>4 DEF AwaitAvailable, Wakeups, Total
<1>5. QED
  BY Zenon, <1>1, <1>2, <1>3, <1>4 DEF QueueNext

LEMMA StreamsStep == Streams /\ AudioNext => Streams'
<1> SUFFICES ASSUME Streams, NEW c \in Consumer,
                    OpenCompleted(c) \/ ClaimOnce(c) \/ ReadChunks(c) \/ CloseAndWipe(c)
             PROVE  Streams'
  BY Zenon DEF AudioNext
<1>1. CASE OpenCompleted(c)
  BY Zenon, <1>1 DEF OpenCompleted, Streams
<1>2. CASE ClaimOnce(c)
  BY <1>2 DEF ClaimOnce, Streams
<1>3. CASE ReadChunks(c)
  BY Zenon, <1>3 DEF ReadChunks, Streams
<1>4. CASE CloseAndWipe(c)
  BY ZenonT(40), <1>4 DEF CloseAndWipe, Streams
<1>5. QED
  BY Zenon, <1>1, <1>2, <1>3, <1>4

LEMMA MediaInvStep == MediaInv /\ [MediaNext]_mediaVars => MediaInv'
<1> SUFFICES ASSUME MediaInv, [MediaNext]_mediaVars PROVE MediaInv'
  BY Zenon
<1>1. UNCHANGED cameraVars => Windows'
  BY ZenonT(40) DEF MediaInv, Windows, cameraVars
<1>2. UNCHANGED queueVars => Wakeups'
  BY DEF MediaInv, Wakeups, queueVars, Total
<1>3. UNCHANGED audioVars => Streams'
  BY DEF MediaInv, Streams, audioVars
<1>4. CASE UNCHANGED mediaVars
  BY Zenon, <1>1, <1>2, <1>3, <1>4 DEF mediaVars, MediaInv
<1>5. CASE CameraNext
  <2>1. UNCHANGED queueVars /\ UNCHANGED audioVars
    BY Zenon, <1>5 DEF CameraNext, GrantCamera, ClaimGrant, InstallWindow, CloseCamera
  <2>2. QED
    BY Zenon, <1>2, <1>3, <1>5, <2>1, WindowsStep DEF MediaInv
<1>6. CASE QueueNext
  <2>1. UNCHANGED cameraVars /\ UNCHANGED audioVars
    BY Zenon, <1>6 DEF QueueNext, PutStrict, PutMedia, Get, AwaitAvailable
  <2>2. QED
    BY SMTT(20), <1>1, <1>3, <1>6, <2>1, WakeupsStep DEF MediaInv
<1>7. CASE AudioNext
  <2>1. UNCHANGED cameraVars /\ UNCHANGED queueVars
    BY Zenon, <1>7 DEF AudioNext, OpenCompleted, ClaimOnce, ReadChunks, CloseAndWipe
  <2>2. QED
    BY Zenon, <1>1, <1>2, <1>7, <2>1, StreamsStep DEF MediaInv
<1>8. CASE CoreRestarts
  <2>1. Windows'
    <3>1. \A c \in Call : call'[c] \in Called \cup {NotCalled} /\ call'[c].at \in {"idle", "refused"}
      <4> SUFFICES ASSUME NEW c \in Call
                   PROVE  call'[c] \in Called \cup {NotCalled} /\ call'[c].at \in {"idle", "refused"}
        BY Zenon
      <4>1. call'[c] = IF call[c].at = "idle" THEN NotCalled ELSE [call[c] EXCEPT !.at = "refused"]
        BY Zenon, <1>8 DEF CoreRestarts
      <4>2. call[c] \in Called \cup {NotCalled}
        BY Zenon DEF MediaInv, Windows
      <4>3. QED
        BY <4>1, <4>2 DEF Called, NotCalled
    <3>2. \A c \in overtaken : c \in Call => call'[c].at # "idle"
      <4> SUFFICES ASSUME NEW c \in overtaken, c \in Call PROVE call'[c].at # "idle"
        BY Zenon
      <4>1. call'[c] = IF call[c].at = "idle" THEN NotCalled ELSE [call[c] EXCEPT !.at = "refused"]
        BY SMTT(20), <1>8 DEF CoreRestarts
      <4>2. call[c] \in Called /\ call[c].at # "idle"
        BY DEF MediaInv, Windows, NotCalled
      <4>3. QED
        BY Zenon, <4>1, <4>2 DEF Called
    <3>3. call' \in [Call -> Called \cup {NotCalled}]
      BY Zenon, <1>8, <3>1 DEF CoreRestarts
    <3>4. QED
      BY Zenon, <1>8, <3>1, <3>2, <3>3, MediaConstants DEF CoreRestarts, MediaInv, Windows
  <2>2. Wakeups'
    BY <1>8 DEF CoreRestarts, MediaInv, Wakeups, Total
  <2>3. Streams'
    BY Zenon, <1>8 DEF CoreRestarts, MediaInv, Streams
  <2>4. QED
    BY Zenon, <2>1, <2>2, <2>3 DEF MediaInv
<1>9. QED
  BY SMTT(20), <1>4, <1>5, <1>6, <1>7, <1>8 DEF MediaNext, CameraNext, QueueNext, AudioNext

(* The camera window, the outbound queues and the completed audio hand over once and in
   time, for any number of calls, readers, frames, consumers and restarts. *)
THEOREM HandedOverAlways == MediaSpec => []MediaIsHandedOver
<1>1. MediaInit => MediaInv
  BY DEF MediaInit, MediaInv, Windows, Wakeups, Streams, Total, NotCalled
<1>2. ASSUME MediaInv PROVE MediaIsHandedOver
  <2>1. CameraIsCurrent /\ NoLostWakeup
    BY Zenon, <1>2 DEF MediaInv, Windows, Wakeups, CameraIsCurrent, NoLostWakeup
  <2>2. AudioReturnedOnce
    BY Zenon, <1>2 DEF MediaInv, Streams, AudioReturnedOnce
  <2>3. QED
    BY Zenon, <2>1, <2>2 DEF MediaIsHandedOver
<1>3. QED
  BY <1>1, <1>2, MediaInvStep, PTL DEF MediaSpec

-----------------------------------------------------------------------------
(***************************************************************************)
(* PairingKeys. What a resolution has read so far, and which comparisons   *)
(* it has passed, follows from the store it stands at.                     *)
(***************************************************************************)

(* What a resolution has read and compared by the time it stands at a store. *)
Asked == {"row", "state", "endpoint", "binding", "signing", "hmac", "resolved"}
PairingInv ==
    /\ "at" \in DOMAIN res
    /\ res.at \in Asked =>
         /\ {"end", "way", "peer"} \subseteq DOMAIN res
         /\ res.way \in {"in", "out"}
         /\ res.way = "in" => {"signing", "hmac"} \subseteq DOMAIN res
    /\ res.at \in Asked \ {"row", "state"} => "material" \in DOMAIN res
    /\ res.at \in {"binding", "signing", "hmac", "resolved"} => res.peer = res.material.endpoint
    /\ res.at \in {"signing", "hmac", "resolved"} =>
         /\ "binding" \in DOMAIN res
         /\ res.binding.endpoint = res.material.endpoint /\ res.binding.window = "open"
         /\ res.way = "out" => /\ res.binding.signing = CurrentSigning(res.material, Direction)
                               /\ res.binding.hmac = res.material.hmac
         /\ res.way = "in" => res.binding.signing = res.signing /\ res.binding.hmac = res.hmac
    /\ res.at \in {"hmac", "resolved"} => "signer" \in DOMAIN res /\ res.signer = res.binding.signing
    /\ res.at = "resolved" => res.root = res.binding.hmac

LEMMA PairingInvStep == PairingInv /\ [PairingNext]_pairingVars => PairingInv'
<1> SUFFICES ASSUME PairingInv, [PairingNext]_pairingVars PROVE PairingInv'
  BY Zenon
<1> USE DEF Asked
<1>1. CASE UNCHANGED pairingVars
  BY Zenon, <1>1 DEF pairingVars, PairingInv, CurrentSigning, Direction
<1>2. CASE StoreRefuses
  BY Zenon, <1>2 DEF StoreRefuses, PairingInv
<1>3. ASSUME NEW p \in KeyGeneration, CoreSends(p) \/ EdgeSends(p) PROVE PairingInv'
  BY <1>3 DEF CoreSends, EdgeSends, PairingInv
<1>4. ASSUME NEW p \in KeyGeneration, NEW s \in KeyGeneration, NEW h \in KeyGeneration,
             CoreReceives(p, s, h) \/ EdgeReceives(p, s, h)
      PROVE  PairingInv'
  BY <1>4 DEF CoreReceives, EdgeReceives, PairingInv
<1>5. CASE res' = [at |-> "refused"]
  BY Zenon, <1>5 DEF PairingInv
<1>6. ASSUME NEW m \in PairingMaterial, CoreReadsRow(m) PROVE PairingInv'
  <2>1. res.at = "row" /\ res' = Extend("endpoint", [material |-> m])
    BY Zenon, <1>6 DEF CoreReadsRow
  <2>2. QED
    BY Zenon, <2>1 DEF Extend, PairingInv
<1>7. ASSUME NEW m \in PairingMaterial, EdgeReadsState(m) PROVE PairingInv'
  <2>1. CASE res.peer = m.endpoint
    <3>1. res.at = "state" /\ res' = Extend("binding", [material |-> m])
      BY Zenon, <1>7, <2>1 DEF EdgeReadsState, GoOn
    <3>2. QED
      BY Zenon, <2>1, <3>1 DEF Extend, PairingInv
  <2>2. QED
    BY Zenon, <1>5, <1>7, <2>1 DEF EdgeReadsState, GoOn
<1>8. ASSUME NEW e \in PairingMaterial, CoreReadsEndpoint(e) PROVE PairingInv'
  <2>1. CASE ValidatePairing(res.material, e) /\ res.peer = res.material.endpoint
    <3>1. res.at = "endpoint" /\ res' = Extend("binding", [endpoint |-> e])
      BY Zenon, <1>8, <2>1 DEF CoreReadsEndpoint, GoOn
    <3>2. QED
      BY Zenon, <2>1, <3>1 DEF Extend, PairingInv
  <2>2. QED
    BY Zenon, <1>5, <1>8, <2>1 DEF CoreReadsEndpoint, GoOn
<1>9. ASSUME NEW b \in Binding, CoreReadsBinding(b) \/ EdgeReadsBinding(b) PROVE PairingInv'
  <2>1. CASE res' = Extend("signing", [binding |-> b])
    <3>1. /\ res.at = "binding" /\ RequestedBinding(b)
          /\ CoreBindingMatches(b, res.material) \/ EdgeBindingMatches(b, res.material)
      <4>1. "binding" \in DOMAIN res'
        BY Zenon, <2>1 DEF Extend, PairingInv
      <4>2. res' # [at |-> "refused"]
        BY <4>1
      <4>3. QED
        BY Zenon, <1>9, <4>2 DEF CoreReadsBinding, EdgeReadsBinding, GoOn
    <3>2. DOMAIN res' = DOMAIN res \cup {"binding"} /\ res'.at = "signing" /\ res'.binding = b
          /\ \A f \in DOMAIN res \ {"at", "binding"} : res'[f] = res[f]
      BY Zenon, <2>1 DEF Extend, PairingInv
    <3>3. /\ res'.end = res.end /\ res'.way = res.way /\ res'.peer = res.peer /\ res'.material = res.material
          /\ res.way = "in" => res'.signing = res.signing /\ res'.hmac = res.hmac
      <4>1. /\ {"at", "end", "way", "peer", "material"} \subseteq DOMAIN res
            /\ res.way = "in" => {"signing", "hmac"} \subseteq DOMAIN res
        BY Zenon, <3>1 DEF PairingInv
      <4>2. QED
        BY Zenon, <2>1, <4>1 DEF Extend
    <3>4. Direction' = Direction
      BY Zenon, <3>3 DEF Direction
    <3>5. /\ b.endpoint = res.material.endpoint /\ b.window = "open"
          /\ res.way = "out" => b.signing = CurrentSigning(res.material, Direction) /\ b.hmac = res.material.hmac
          /\ res.way = "in" => b.signing = res.signing /\ b.hmac = res.hmac
      <4>1. res.way \in {"in", "out"}
        BY Zenon, <3>1 DEF PairingInv
      <4>2. CASE CoreBindingMatches(b, res.material)
        BY Zenon, <3>1, <4>1, <4>2 DEF RequestedBinding, CoreBindingMatches
      <4>3. CASE EdgeBindingMatches(b, res.material)
        BY Zenon, <3>1, <4>1, <4>3 DEF RequestedBinding, EdgeBindingMatches
      <4>4. QED
        BY Zenon, <3>1, <4>2, <4>3
    <3>6. QED
      BY Zenon, <3>1, <3>2, <3>3, <3>4, <3>5 DEF PairingInv, CurrentSigning
  <2>2. QED
    BY Zenon, <1>5, <1>9, <2>1 DEF CoreReadsBinding, EdgeReadsBinding, GoOn
<1>10. ASSUME NEW g \in KeyGeneration, CoreReadsSigning(g) PROVE PairingInv'
  <2>1. CASE SigningMatches(g)
    <3>1. res.at = "signing" /\ res' = Extend("hmac", [signer |-> g])
      BY Zenon, <1>10, <2>1 DEF CoreReadsSigning, GoOn
    <3>2. DOMAIN res' = DOMAIN res \cup {"signer"} /\ res'.at = "hmac" /\ res'.signer = g
          /\ \A f \in DOMAIN res \ {"at", "signer"} : res'[f] = res[f]
      BY Zenon, <3>1 DEF Extend, PairingInv
    <3>3. Direction' = Direction
      BY Zenon, <3>1, <3>2 DEF PairingInv, Direction
    <3>4. QED
      BY ZenonT(40), <2>1, <3>1, <3>2, <3>3 DEF PairingInv, SigningMatches, CurrentSigning
  <2>2. QED
    BY Zenon, <1>5, <1>10, <2>1 DEF CoreReadsSigning, GoOn
<1>11. ASSUME NEW g \in KeyGeneration, CoreReadsHmac(g) PROVE PairingInv'
  <2>1. CASE HmacMatches(g)
    <3>1. res.at = "hmac" /\ res' = Extend("resolved", [root |-> g])
      BY Zenon, <1>11, <2>1 DEF CoreReadsHmac, GoOn
    <3>2. DOMAIN res' = DOMAIN res \cup {"root"} /\ res'.at = "resolved" /\ res'.root = g
          /\ \A f \in DOMAIN res \ {"at", "root"} : res'[f] = res[f]
      BY Zenon, <3>1 DEF Extend, PairingInv
    <3>3. Direction' = Direction
      BY Zenon, <3>1, <3>2 DEF PairingInv, Direction
    <3>4. QED
      BY <2>1, <3>1, <3>2, <3>3 DEF PairingInv, HmacMatches, CurrentSigning
  <2>2. QED
    BY Zenon, <1>5, <1>11, <2>1 DEF CoreReadsHmac, GoOn
<1>12. ASSUME NEW g \in KeyGeneration, NEW h \in KeyGeneration, EdgeLoadsKeys(g, h) \/ EdgeTakesKeys(g, h)
       PROVE  PairingInv'
  <2>1. CASE SigningMatches(g) /\ HmacMatches(h) /\ res' = Extend("resolved", [signer |-> g, root |-> h])
    <3>1. res.at = "signing"
      BY Zenon, <1>12 DEF EdgeLoadsKeys, EdgeTakesKeys
    <3>2. DOMAIN res' = DOMAIN res \cup {"signer", "root"} /\ res'.at = "resolved"
          /\ res'.signer = g /\ res'.root = h
          /\ \A f \in DOMAIN res \ {"at", "signer", "root"} : res'[f] = res[f]
      BY Zenon, <2>1 DEF Extend, PairingInv
    <3>3. Direction' = Direction
      BY Zenon, <3>1, <3>2 DEF PairingInv, Direction
    <3>4. QED
      BY <2>1, <3>1, <3>2, <3>3 DEF PairingInv, SigningMatches, HmacMatches, CurrentSigning
  <2>2. QED
    BY Zenon, <1>5, <1>12, <2>1 DEF EdgeLoadsKeys, EdgeTakesKeys, GoOn
<1>13. QED
  BY Zenon, <1>1, <1>2, <1>3, <1>4, <1>6, <1>7, <1>8, <1>9, <1>10, <1>11, <1>12 DEF PairingNext

(* Keys are never handed out mixed, for any number of generations. *)
THEOREM CoherentAlways == PairingSpec => []ResolvedIsCoherent
<1>1. PairingInit => PairingInv
  BY DEF PairingInit, PairingInv, Idle, Asked
<1>2. PairingInv => ResolvedIsCoherent
  BY Zenon DEF PairingInv, ResolvedIsCoherent, Asked
<1>3. QED
  BY <1>1, <1>2, PairingInvStep, PTL DEF PairingSpec

=============================================================================
