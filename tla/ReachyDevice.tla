---------------------------- MODULE ReachyDevice ----------------------------
(***************************************************************************)
(* The managed edge process and the robot: ManagedEdgeRuntime.run with its *)
(* gates and barriers, ReachyClient.execute and stop_all over the daemon,  *)
(* and the safety facade that the transport calls when a connection ends.  *)
(*                                                                         *)
(* Every daemon call is bounded by a timeout.  A call that its waiter gave *)
(* up is cancelled and observed; a call whose waiter was itself cancelled  *)
(* goes on in the background.  Either may still reach the robot (adrift).  *)
(***************************************************************************)
EXTENDS Naturals

CONSTANTS
    Gesture,      \* movement ids the daemon may run
    MaxCommand    \* bound: commands the core sends

VARIABLES
    playing, moving,  \* the robot, as the daemon runs it (external)
    state,        \* ReachyClient._state
    awaited,      \* the daemon call that execute waits for
    adrift,       \* daemon calls that nobody waits for any more
    landed,       \* history: one of them reached the robot since the last stop_all began
    stopping,     \* _stop_all_once: "off", "first", "motion", "recheck", "restore"
    todo, good,   \* its concurrent calls: not yet back, back without an error
    before,       \* the movement inventory it took
    receipt,      \* its SafetyReceipt: "none", "safe" or "unsafe"
    restart,      \* process_restart_required
    managed,      \* ManagedEdgeRuntime.run
    commands

deviceVars == <<playing, moving, state, awaited, adrift, landed, stopping, todo, good, before, receipt, restart,
          managed, commands>>

robot == <<playing, moving>>
barrier == <<stopping, todo, good, before, receipt>>

FirstCalls == {"snapshot", "stop_playback", "clear_buffers", "enter_error_safe"}
Command == {"play", "active"} \cup Gesture

\* A movement id is not the name of one of stop_all's calls.
ASSUME DeviceConstants == Gesture \cap FirstCalls = {}

DeviceTypes ==
    /\ playing \in BOOLEAN /\ moving \subseteq Gesture
    /\ state \in {"idle", "active", "error_safe"}
    /\ awaited \in Command \cup {"none"} /\ adrift \subseteq Command /\ landed \in BOOLEAN
    /\ stopping \in {"off", "first", "motion", "recheck", "restore"}
    /\ todo \subseteq FirstCalls \cup Gesture /\ good \subseteq FirstCalls \cup Gesture
    /\ before \subseteq Gesture /\ receipt \in {"none", "safe", "unsafe"}
    /\ restart \in BOOLEAN /\ commands \in 0..MaxCommand
    /\ managed \in {"gates", "controller", "startup", "dialing", "serving", "cancelled", "disconnect",
                "cleanup", "exited"}

\* A robot that was left alone may still be playing or moving.
DeviceInit ==
    /\ playing \in BOOLEAN /\ moving \in SUBSET Gesture
    /\ state = "idle" /\ awaited = "none" /\ adrift = {} /\ landed = FALSE
    /\ stopping = "off" /\ todo = {} /\ good = {} /\ before = {} /\ receipt = "none"
    /\ restart = FALSE /\ managed = "gates" /\ commands = 0

----------------------------------------------------------------------------
(* The robot *)

Reach(call) ==
    /\ playing' = (playing \/ call = "play")
    /\ moving' = moving \cup ({call} \cap Gesture)

AdriftLands ==
    \E call \in adrift :
        /\ Reach(call) /\ adrift' = adrift \ {call} /\ landed' = TRUE
        /\ UNCHANGED <<state, awaited, barrier, restart, managed, commands>>

AdriftEnds ==
    \E call \in adrift :
        /\ adrift' = adrift \ {call}
        /\ UNCHANGED <<robot, state, awaited, landed, barrier, restart, managed, commands>>

RobotFinishes ==
    /\ \/ playing /\ playing' = FALSE /\ UNCHANGED moving
       \/ \E m \in moving : moving' = moving \ {m} /\ UNCHANGED playing
    /\ UNCHANGED <<state, awaited, adrift, landed, barrier, restart, managed, commands>>

----------------------------------------------------------------------------
(* ReachyClient.execute *)

Execute(call) ==
    /\ managed = "serving" /\ awaited = "none" /\ stopping = "off" /\ commands < MaxCommand
    /\ call \notin adrift
    /\ commands' = commands + 1 /\ awaited' = call /\ receipt' = "none"
    /\ UNCHANGED <<robot, state, adrift, landed, stopping, todo, good, before, restart, managed>>

ExecuteReturns ==
    /\ awaited # "none" /\ managed = "serving"
    /\ Reach(awaited) /\ awaited' = "none"
    /\ state' = IF awaited = "active" THEN "active" ELSE state
    /\ UNCHANGED <<adrift, landed, barrier, restart, managed, commands>>

\* An error, or a timeout after which the call is cancelled.  A call that does not end
\* when cancelled needs a restart of the process and is left behind.
ExecuteFails ==
    /\ awaited # "none" /\ managed = "serving"
    /\ awaited' = "none" /\ state' = "error_safe"
    /\ \/ (UNCHANGED robot \/ Reach(awaited)) /\ UNCHANGED <<adrift, restart>>
       \/ adrift' = adrift \cup {awaited} /\ restart' = TRUE /\ UNCHANGED robot
    /\ UNCHANGED <<landed, barrier, managed, commands>>

----------------------------------------------------------------------------
(* ReachyClient.stop_all *)

\* latch_error_safe, then the four calls of _stop_all_once start together.
BeginStopAll ==
    /\ state' = "error_safe" /\ stopping' = "first" /\ todo' = FirstCalls /\ good' = {} /\ before' = {}
    /\ receipt' = "none" /\ landed' = FALSE

StopCommand ==
    /\ managed = "serving" /\ awaited = "none" /\ stopping = "off" /\ commands < MaxCommand
    /\ commands' = commands + 1 /\ BeginStopAll
    /\ UNCHANGED <<robot, awaited, adrift, restart, managed>>

Effect(call) ==
    CASE call = "stop_playback" -> playing' = FALSE /\ UNCHANGED <<moving, before>>
      [] call = "snapshot" -> before' = moving /\ UNCHANGED robot
      [] call \in Gesture -> moving' = moving \ {call} /\ UNCHANGED <<playing, before>>
      [] OTHER -> UNCHANGED <<robot, before>>

CallReturns ==
    \E call \in todo :
        /\ Effect(call) /\ todo' = todo \ {call} /\ good' = good \cup {call}
        /\ UNCHANGED <<state, awaited, adrift, landed, stopping, receipt, restart, managed, commands>>

\* A failed, refused or timed-out call may or may not have reached the robot.
CallFails ==
    \E call \in todo :
        /\ todo' = todo \ {call} /\ restart' \in {restart, TRUE}
        /\ Effect(call) \/ UNCHANGED <<robot, before>>
        /\ UNCHANGED <<state, awaited, adrift, landed, stopping, good, receipt, managed, commands>>

\* Without a valid inventory nothing is stopped by name.
FirstCallsDone ==
    /\ stopping = "first" /\ todo = {}
    /\ stopping' = "motion" /\ todo' = IF "snapshot" \in good THEN before ELSE {}
    /\ UNCHANGED <<robot, state, awaited, adrift, landed, good, before, receipt, restart, managed, commands>>

\* A plausible bug: the receipt does not ask for the playback to be stopped.
StopsSafelyAudibly == (FirstCalls \ {"stop_playback"}) \cup before \subseteq good

StopsSafely == FirstCalls \cup before \subseteq good

\* The inventory is taken again; only if all went well is the daemon put back to idle.
Recheck ==
    /\ stopping = "motion" /\ todo = {}
    /\ \/ moving = {} /\ StopsSafely /\ stopping' = "restore" /\ UNCHANGED <<state, receipt>>
       \/ stopping' = "off" /\ receipt' = "unsafe" /\ state' = "error_safe"
    /\ UNCHANGED <<robot, awaited, adrift, landed, todo, good, before, restart, managed, commands>>

RestoreIdle ==
    /\ stopping = "restore" /\ stopping' = "off"
    /\ \/ receipt' = "safe" /\ state' = "idle"
       \/ receipt' = "unsafe" /\ state' = "error_safe"
    /\ UNCHANGED <<robot, awaited, adrift, landed, todo, good, before, restart, managed, commands>>

----------------------------------------------------------------------------
(* ManagedEdgeRuntime.run *)

Fail == managed' = "cleanup" /\ BeginStopAll

\* active release, firewall baseline, boot, commissioning and secure time, in this order.
Gates ==
    /\ managed = "gates"
    /\ \/ managed' = "controller" /\ UNCHANGED <<state, barrier, landed>>
       \/ Fail
    /\ UNCHANGED <<robot, awaited, adrift, restart, commands>>

\* _close_all_error_safe: media, playback, motion and state, each of which may fail.
CloseAllErrorSafe ==
    playing' \in {playing, FALSE} /\ moving' \in SUBSET moving /\ restart' \in {restart, TRUE}

\* Only the one expected controller is let through; the startup barrier follows.
ControllerPoll ==
    /\ managed = "controller"
    /\ \/ managed' = "startup" /\ BeginStopAll /\ UNCHANGED <<robot, restart>>
       \/ CloseAllErrorSafe /\ Fail
    /\ UNCHANGED <<awaited, adrift, commands>>

StartupSafety ==
    /\ managed = "startup" /\ stopping = "off"
    /\ IF receipt = "safe" /\ ~restart
       THEN managed' = "dialing" /\ state' = "error_safe" /\ UNCHANGED <<barrier, landed>>
       ELSE Fail
    /\ UNCHANGED <<robot, awaited, adrift, restart, commands>>

Connected ==
    /\ managed = "dialing" /\ managed' = "serving"
    /\ UNCHANGED <<robot, state, awaited, adrift, landed, barrier, restart, commands>>

\* The receive loop is cancelled.  A command it waits for is not: its daemon call goes on.
\* A stop_all that runs is waited for.
ConnectionEnds ==
    /\ managed = "serving" /\ managed' = "cancelled"
    /\ adrift' = adrift \cup ({awaited} \ {"none"}) /\ awaited' = "none"
    /\ UNCHANGED <<robot, state, landed, barrier, restart, commands>>

DisconnectSafety ==
    /\ managed = "cancelled" /\ stopping = "off" /\ managed' = "disconnect" /\ BeginStopAll
    /\ UNCHANGED <<robot, awaited, adrift, restart, commands>>

\* EdgeDisconnectSafety latches ERROR_SAFE again, whatever the barrier restored.  The
\* supervisor then dials again, or ends.
DisconnectDone ==
    /\ managed = "disconnect" /\ stopping = "off"
    /\ \/ managed' = "dialing" /\ state' = "error_safe" /\ UNCHANGED <<barrier, landed>>
       \/ Fail
    /\ UNCHANGED <<robot, awaited, adrift, restart, commands>>

CleanupDone ==
    /\ managed = "cleanup" /\ stopping = "off" /\ managed' = "exited" /\ state' = "error_safe"
    /\ UNCHANGED <<robot, awaited, adrift, landed, barrier, restart, commands>>

\* A crash or an exit, and the next start.
ProcessRestarts ==
    /\ managed # "gates" /\ managed' = "gates" /\ state' = "idle" /\ awaited' = "none" /\ adrift' = {}
    /\ stopping' = "off" /\ todo' = {} /\ good' = {} /\ before' = {} /\ receipt' = "none"
    /\ restart' = FALSE /\ landed' = FALSE
    /\ UNCHANGED <<robot, commands>>

DeviceNext ==
    \/ AdriftLands \/ AdriftEnds \/ RobotFinishes \/ (\E c \in Command : Execute(c)) \/ ExecuteReturns
    \/ ExecuteFails \/ StopCommand \/ CallReturns \/ CallFails \/ FirstCallsDone \/ Recheck \/ RestoreIdle
    \/ Gates \/ ControllerPoll \/ StartupSafety \/ Connected \/ ConnectionEnds \/ DisconnectSafety
    \/ DisconnectDone \/ CleanupDone \/ ProcessRestarts

DeviceSpec == DeviceInit /\ [][DeviceNext]_deviceVars

----------------------------------------------------------------------------
(* Properties *)

\* A safe receipt is true: the robot neither plays nor moves, unless a call that was left
\* behind reached it after the stop began.
SafeReceiptIsTrue == receipt = "safe" /\ ~landed => ~playing /\ moving = {}

\* Every connection starts in ERROR_SAFE: between two connections the robot was told to
\* stop, and the idle state which that restores is taken back before the next dial.
DialsInErrorSafe == managed = "dialing" => state = "error_safe" /\ stopping = "off"

\* The robot is still when the Edge says so or dials, whatever calls were abandoned.
StopIsSafe == SafeReceiptIsTrue /\ DialsInErrorSafe

=============================================================================
