------------------------------ MODULE VoiceTurn ------------------------------
(***************************************************************************)
(* VoiceTurnPipeline: one captured turn through transcription, reasoning   *)
(* and speech, each step run under the deadline guard, every byte buffered *)
(* before playback starts.                                                 *)
(*                                                                         *)
(* The guard's promise is taken as module DeadlineGuard establishes it: a  *)
(* step returns its result only when nothing of an earlier step runs; one  *)
(* that fails has ended, or lives on in quarantine.                        *)
(*                                                                         *)
(*   at        the step being run, then playing and over                   *)
(*   op        the step's operation: absent, live, or its end              *)
(*   leaked    operations that outlived their step                         *)
(*   pcm       the buffers that hold audio                                 *)
(*   doubt     what the turn reports, as it accumulates                    *)
(*   cancelled the owner's cancellation is pending                         *)
(***************************************************************************)
EXTENDS Naturals, Sequences

VARIABLES at, op, leaked, pcm, doubt, cancelled, abandoned

voiceVars == <<at, op, leaked, pcm, doubt, cancelled, abandoned>>

(* The steps of _run in their order. *)
Steps == <<"authorize_stt", "stt", "authorize_llm", "llm", "authorize_tts", "source", "convert">>
StepOf(s) == CHOOSE i \in 1..Len(Steps) : Steps[i] = s
Running == at \in {Steps[i] : i \in 1..Len(Steps)}

(* The buffer an operation writes, if any: buffer_owned_source and
   buffer_owned_conversion. *)
Fills(s) == CASE s = "source" -> {"source"} [] s = "convert" -> {"converted"} [] OTHER -> {}

VoiceInit ==
  /\ at = "start" /\ op = "absent" /\ leaked = {} /\ pcm = {} /\ doubt = "none"
  /\ cancelled = FALSE /\ abandoned = FALSE

(* The claim of the captured audio, and the deadlines of the turn. *)
ClaimPcm ==
  /\ at = "start" /\ pcm' = {"input"}
  /\ \/ at' = Steps[1] /\ UNCHANGED doubt
     \/ at' = "failing" /\ doubt' = "failed"
  /\ UNCHANGED <<op, leaked, cancelled, abandoned>>

OwnerCancels ==
  /\ Running /\ ~cancelled /\ cancelled' = TRUE
  /\ UNCHANGED <<at, op, leaked, pcm, doubt, abandoned>>

(* The guard admits the step's operation. *)
Begin ==
  /\ Running /\ op = "absent" /\ ~cancelled /\ op' = "live"
  /\ UNCHANGED <<at, leaked, pcm, doubt, cancelled, abandoned>>

(* _buffer_source, _buffer_converted: chunks are appended while the operation
   lives, also after its step gave up on it. *)
AppendChunk(s) ==
  /\ s \in leaked \/ (at = s /\ op = "live")
  /\ pcm' = pcm \cup Fills(s)
  /\ UNCHANGED <<at, op, leaked, doubt, cancelled, abandoned>>

\* A plausible bug: an operation that ends after its turn keeps its buffer.
OwnedFinallyKeeps(s) == pcm' = pcm

(* The operation's own end.  Its last act, if the turn is over, is to wipe the
   buffer it filled. *)
OwnedFinally(s) == pcm' = IF abandoned THEN pcm \ Fills(s) ELSE pcm
OperationEnds ==
  /\ Running /\ op = "live" /\ op' \in {"good", "bad"}
  /\ OwnedFinally(at)
  /\ UNCHANGED <<at, leaked, doubt, cancelled, abandoned>>
LeakedEnds(s) ==
  /\ s \in leaked /\ leaked' = leaked \ {s} /\ OwnedFinally(s)
  /\ UNCHANGED <<at, op, doubt, cancelled, abandoned>>

(* What the audio iterators of a step leave behind when they are closed, and
   how it weighs against the step's own failure (_close_all). *)
Iterators(s) == s \in {"stt", "source", "convert"}
Closing(s) == IF Iterators(s) THEN {"none", "failed", "incomplete"} ELSE {"none"}
Worse(a, b) ==
  IF "incomplete" \in {a, b} THEN "incomplete" ELSE IF "failed" \in {a, b} THEN "failed" ELSE "none"

(* The buffers a completed step no longer needs. *)
Spent(s) == CASE s = "stt" -> {"input"} [] s = "convert" -> {"source"} [] OTHER -> {}

(* A step completes: the operation's result is valid, nothing is left running
   and its iterators closed. *)
StepCompletes ==
  /\ Running /\ op = "good" /\ leaked = {} /\ ~cancelled
  /\ pcm' = pcm \ Spent(at) /\ op' = "absent"
  /\ (Fills(at) \subseteq pcm)
  /\ at' = IF StepOf(at) = Len(Steps) THEN "playing" ELSE Steps[StepOf(at) + 1]
  /\ UNCHANGED <<leaked, doubt, cancelled, abandoned>>

(* A step fails: refused or invalid, too late, cancelled, or in doubt.  The
   operation has ended, never started, or goes to quarantine. *)
StepFails ==
  /\ Running /\ at' = "failing" /\ op' = "absent"
  /\ \E c \in Closing(at) :
       \/ /\ op = "live" /\ leaked' = leaked \cup {at} /\ doubt' = "incomplete"
       \/ /\ op # "live" /\ UNCHANGED leaked
          /\ doubt' = Worse("failed", IF leaked # {} THEN "incomplete" ELSE c)
  /\ UNCHANGED <<pcm, cancelled, abandoned>>

(* Playback hands out chunks cut from the converted audio, which is wiped
   first; the consumer takes them all or stops. *)
Play ==
  /\ at = "playing" /\ pcm' = pcm \ {"converted"} /\ at' \in {"done", "failing"}
  /\ doubt' = IF at' = "done" THEN "none" ELSE "fatal"
  /\ UNCHANGED <<op, leaked, cancelled, abandoned>>

(* The finally block, then the exception by precedence. *)
Finally ==
  /\ at \in {"done", "failing"} /\ at' = "over" /\ abandoned' = TRUE /\ pcm' = {}
  /\ doubt' = IF cancelled THEN "cancelled" ELSE doubt
  /\ UNCHANGED <<op, leaked, cancelled>>

VoiceNext ==
  \/ ClaimPcm \/ OwnerCancels \/ Begin \/ OperationEnds \/ StepCompletes \/ StepFails
  \/ Play \/ Finally
  \/ \E i \in 1..Len(Steps) : AppendChunk(Steps[i]) \/ LeakedEnds(Steps[i])

VoiceSpec == VoiceInit /\ [][VoiceNext]_voiceVars

-----------------------------------------------------------------------------
(* Once the turn is over and every operation it started has ended, no buffer
   holds audio: a step that outlives the turn writes into buffers the turn
   has already wiped, and wipes them again. *)
AudioIsWiped == (at = "over" /\ leaked = {}) => pcm = {}
=============================================================================
