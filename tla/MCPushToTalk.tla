---------------------------- MODULE MCPushToTalk ----------------------------
(***************************************************************************)
(* A push-to-talk turn between Core and Edge, and beside it two pieces of  *)
(* the Core's end with their own state: what the voice turn does with the  *)
(* audio it owns, and the bridge over ssh that carries the frames.  The    *)
(* first state chooses the part that moves.                                *)
(***************************************************************************)
EXTENDS PushToTalk, VoiceTurn, SshBridge

VARIABLE part

\* A turn started at the terminal; one started at the robot with a heartbeat; one started
\* there in which one thing fails.
MCTurns == {[mode |-> "terminal", beats |-> 0, faults |-> 0],
            [mode |-> "local", beats |-> 1, faults |-> 0],
            [mode |-> "local", beats |-> 0, faults |-> 1]}

\* Bounds: the heartbeat falls due while the capture runs, or when the playback is over and
\* the receipt may cross it; the stream breaks with one frame on its way.
OneInFlight ==
    /\ left'.beats # left.beats => guards["core"].st \in {"capturing", "playback_closed"}
    /\ lost' # lost => Len(c2e \o e2c) = 1

MCInit == PttInit /\ VoiceInit /\ BridgeInit /\ part \in {"turn", "voice", "bridge"}

MCNext ==
    /\ UNCHANGED part
    /\ \/ part = "turn" /\ PttNext /\ OneInFlight /\ UNCHANGED <<voiceVars, bridgeVars>>
       \/ part = "voice" /\ VoiceNext /\ UNCHANGED <<pttVars, bridgeVars>>
       \/ part = "bridge" /\ BridgeNext /\ UNCHANGED <<pttVars, voiceVars>>

MCSpec == MCInit /\ [][MCNext]_<<pttVars, voiceVars, bridgeVars, part>>

=============================================================================
