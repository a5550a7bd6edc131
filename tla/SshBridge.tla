------------------------------ MODULE SshBridge ------------------------------
(***************************************************************************)
(* The Core's push-to-talk bridge over the pinned ssh process              *)
(* (SshPttBridge).  One task sends frames, one receives, a third may close *)
(* the bridge; each can fail or be cancelled at an await.  The first to    *)
(* notice closes the bridge and runs the cleanup: abort, wait for the      *)
(* robot's safety receipt, acknowledge it, end the process.                *)
(*                                                                         *)
(* Both directions pass one PttDuplexGuard.  Its grammar is PushToTalk's;  *)
(* here a turn is open, played, in cleanup, has its receipt, or is         *)
(* acknowledged, and a guard that rejected a frame rejects every other.    *)
(***************************************************************************)
VARIABLES guard,     \* the state of the duplex guard
          complete,  \* the guard's receipt was complete
          started,   \* _cleanup_started
          closed,    \* _closed
          final,     \* _final_outcome
          send, recv, closer,   \* where each task is
          cleaner    \* the cleanup: where it is, its reason, its acknowledgement

bridgeVars == <<guard, complete, started, closed, final, send, recv, closer, cleaner>>

-----------------------------------------------------------------------------
(***************************************************************************)
(* The guard.                                                              *)
(***************************************************************************)

CoreFrame == {"progress", "abort", "ack", "nack"}
EdgeFrame == {"progress", "stop", "receipt", "poor"}

\* The states after a frame.  Progress out of order is rejected too.
Accepts(g, good, f) ==
    CASE g \in {"failed", "acked"} -> {"failed"}
      [] f = "progress" -> IF g = "open" THEN {"open", "played", "failed"} ELSE {g, "failed"}
      [] f \in {"abort", "stop"} -> IF g = "receipt" THEN {g} ELSE {"cleanup"}
      [] f \in {"receipt", "poor"} -> IF g \in {"played", "cleanup"} THEN {"receipt"} ELSE {"failed"}
      [] OTHER -> IF g = "receipt" /\ (f = "ack" => good) THEN {"acked"} ELSE {"failed"}

\* An accepted frame from the robot, as the guard and the bridge see it.
Observe(f) ==
    /\ complete' = IF f \in {"receipt", "poor"} THEN f = "receipt" ELSE complete
    /\ started' = (started \/ f = "stop")
    /\ final' = IF f = "poor" THEN "incomplete" ELSE final

-----------------------------------------------------------------------------
(***************************************************************************)
(* Cleanup.                                                                *)
(***************************************************************************)

\* _fail_closed and close: the first one closes the bridge.  An outcome that is
\* known skips the protocol; an abort goes out unless cleanup has begun.  The
\* arguments are the state in which the task failed.
BeginCleanup(g, begun, outcome, reason) ==
    /\ closed' = TRUE
    /\ started' = (begun \/ outcome = "none")
    /\ IF outcome = "none" /\ ~begun THEN guard' \in Accepts(g, complete, "abort") ELSE guard' = g
    /\ cleaner' = [at |-> IF outcome # "none" THEN "closing" ELSE IF begun THEN "reading" ELSE "aborting",
                   reason |-> reason, accepted |-> FALSE]

FailClosed(g, begun, outcome, reason) ==
    IF closed THEN guard' = g /\ started' = begun /\ UNCHANGED <<closed, cleaner>>
    ELSE BeginCleanup(g, begun, outcome, reason)

To(at) == cleaner' = [cleaner EXCEPT !.at = at]

\* The abort is written, or its write fails, which is not an error.
AbortWritten ==
    /\ cleaner.at = "aborting"
    /\ To("reading")
    /\ UNCHANGED <<guard, complete, started, closed, final, send, recv, closer>>

\* A timeout, the end of the stream, an i/o error (among them that a receive
\* still waits for the same stream), a cancellation.
CleanupFails ==
    /\ cleaner.at \in {"aborting", "reading", "acking"}
    /\ final' = "incomplete"
    /\ To("closing")
    /\ UNCHANGED <<guard, complete, started, closed, send, recv, closer>>

\* _read_until_receipt.
CleanupReads(f) ==
    /\ cleaner.at = "reading" /\ recv # "reading"
    /\ guard' \in Accepts(guard, complete, f)
    /\ IF guard' = "failed"
       THEN final' = "incomplete" /\ To("closing") /\ UNCHANGED <<complete, started>>
       ELSE /\ Observe(f)
            /\ cleaner' = IF f \in {"receipt", "poor"}
                          THEN [cleaner EXCEPT !.at = "acking", !.accepted = (f = "receipt")]
                          ELSE cleaner
    /\ UNCHANGED <<closed, send, recv, closer>>

\* A plausible bug: the outcome does not depend on what the receipt said.
AckWrittenBlindly ==
    /\ cleaner.at = "acking"
    /\ final' = cleaner.reason
    /\ To("closing")
    /\ UNCHANGED <<guard, complete, started, closed, send, recv, closer>>

AckWritten ==
    /\ cleaner.at = "acking"
    /\ final' = IF cleaner.accepted THEN cleaner.reason ELSE "incomplete"
    /\ To("closing")
    /\ UNCHANGED <<guard, complete, started, closed, send, recv, closer>>

\* The process is closed, or that fails too.
ProcessCloses ==
    /\ cleaner.at = "closing"
    /\ final' \in {final, "incomplete"}
    /\ To("ended")
    /\ UNCHANGED <<guard, complete, started, closed, send, recv, closer>>

-----------------------------------------------------------------------------
(***************************************************************************)
(* The tasks.                                                              *)
(***************************************************************************)

BridgeInit ==
    /\ guard = "open"
    /\ complete = FALSE
    /\ started = FALSE
    /\ closed = FALSE
    /\ final = "none"
    /\ send = "connecting"
    /\ recv = "connecting"
    /\ closer = "idle"
    /\ cleaner = [at |-> "none", reason |-> "none", accepted |-> FALSE]

\* connect: the dispatcher answers that push-to-talk is ready ...
Connect ==
    /\ send = "connecting"
    /\ send' = "idle" /\ recv' = "idle"
    /\ UNCHANGED <<guard, complete, started, closed, final, closer, cleaner>>

\* ... or anything else, and the bridge is never handed out.
ConnectFails ==
    /\ send = "connecting"
    /\ FailClosed(guard, started, final, "rejected")
    /\ send' = "over" /\ recv' = "over"
    /\ UNCHANGED <<complete, final, closer>>

Outcome(f) == CASE f = "ack" -> "completed" [] f = "nack" -> "incomplete" [] OTHER -> final

\* send: the guard, then what the frame means, then the write.
Send(f) ==
    /\ send = "idle" /\ ~closed
    /\ \E g \in Accepts(guard, complete, f) :
          IF g = "failed"
          THEN /\ FailClosed(g, started, final, "rejected")
               /\ send' = "over"
               /\ UNCHANGED final
          ELSE /\ guard' = g
               /\ started' = (started \/ f # "progress")
               /\ final' = Outcome(f)
               /\ send' = "writing"
               /\ UNCHANGED <<closed, cleaner>>
    /\ UNCHANGED <<complete, recv, closer>>

Written ==
    /\ send = "writing"
    /\ send' = "idle"
    /\ UNCHANGED <<guard, complete, started, closed, final, recv, closer, cleaner>>

WriteFails ==
    /\ send = "writing"
    /\ FailClosed(guard, started, final, "rejected")
    /\ send' = "over"
    /\ UNCHANGED <<complete, final, recv, closer>>

Receive ==
    /\ recv = "idle" /\ ~closed
    /\ recv' = "reading"
    /\ UNCHANGED <<guard, complete, started, closed, final, send, closer, cleaner>>

\* Bytes came, also if the bridge was closed while receive waited.
Received(f) ==
    /\ recv = "reading"
    /\ \E g \in Accepts(guard, complete, f) :
          IF g = "failed"
          THEN /\ FailClosed(g, started, final, "rejected")
               /\ recv' = "over"
               /\ UNCHANGED <<complete, final>>
          ELSE /\ guard' = g
               /\ Observe(f)
               /\ recv' = "idle"
               /\ UNCHANGED <<closed, cleaner>>
    /\ UNCHANGED <<send, closer>>

\* The stream ended, or the read failed or was cancelled.
ReadFails(reason) ==
    /\ recv = "reading"
    /\ FailClosed(guard, started, final, reason)
    /\ recv' = "over"
    /\ UNCHANGED <<complete, final, send, closer>>

\* close: nothing to do if the bridge is closed, even while its cleanup goes on.
Close ==
    /\ closer = "idle" /\ send # "connecting"
    /\ FailClosed(guard, started, final, "cancelled")
    /\ closer' = "over"
    /\ UNCHANGED <<complete, final, send, recv>>

BridgeNext ==
    \/ Connect \/ ConnectFails \/ Written \/ WriteFails \/ Receive \/ Close
    \/ \E f \in CoreFrame : Send(f)
    \/ \E f \in EdgeFrame : Received(f) \/ CleanupReads(f)
    \/ \E reason \in {"rejected", "peer_closed"} : ReadFails(reason)
    \/ AbortWritten \/ CleanupFails \/ AckWritten \/ ProcessCloses

BridgeSpec == BridgeInit /\ [][BridgeNext]_bridgeVars

-----------------------------------------------------------------------------
(***************************************************************************)
(* Properties.                                                             *)
(***************************************************************************)

\* Whoever closes the bridge and whatever fails meanwhile, an outcome other
\* than cleanup_incomplete rests on a complete safety receipt that the robot
\* sent in this turn, and an ended cleanup has an outcome.
OutcomeIsEarned ==
    /\ final \notin {"none", "incomplete"} => complete
    /\ cleaner.at = "ended" => final # "none"
=============================================================================
