---------------------------- MODULE DeadlineGuard ----------------------------
(***************************************************************************)
(* DeadlineGuard of the push-to-talk services: calls of run that race an   *)
(* operation against an absolute deadline, the bounded cleanup that follows*)
(* every race, and observe_quarantine, which decides whether work that     *)
(* outlived its call is over.                                              *)
(*                                                                         *)
(* Each call owns one operation, a coroutine the guard may cancel or a     *)
(* future of somebody else's, which it only watches (passive).  An         *)
(* operation may ignore cancellation and end at any later time.            *)
(*                                                                         *)
(*   where, primary  where the call stands and what its race decided       *)
(*   task            the operation: none, live, or how it ended            *)
(*   bidden          cancellation was requested of it                      *)
(*   watched, told   record_completion is registered, and has run          *)
(*   over, lateFor   cleanups past their bound; those past it when told    *)
(*   kept, passive   the quarantine and its passive part                   *)
(*   tomb            settled evidence not yet acknowledged                 *)
(*   obs             the observer of the quarantine                        *)
(*   outlived        the calls whose operation was ever quarantined        *)
(*                                                                         *)
(* The timer is the injected clock's and ends when cancelled.              *)
(***************************************************************************)
EXTENDS Naturals, FiniteSets

CONSTANT Call

VARIABLES where, primary, task, bidden, watched, told, over, lateFor, kept, passive, tomb, obs, outlived

guardVars == <<where, primary, task, bidden, watched, told, over, lateFor, kept, passive, tomb, obs,
               outlived>>
work == <<task, bidden, watched, told, lateFor>>

Quiet == [at |-> "idle"]
NoEvidence == {}
Observer == "observer"
(* How an operation ends: with its result or an ordinary error, with a fatal
   error or one that masks an incomplete cleanup, or cancelled. *)
Ends == {"result", "bad", "cancelled"}

GuardInit ==
  /\ where = [c \in Call |-> "idle"] /\ primary = [c \in Call |-> "none"]
  /\ task = [c \in Call |-> "none"] /\ bidden = {} /\ watched = {} /\ told = {}
  /\ over = {} /\ lateFor = [c \in Call |-> {}] /\ kept = {} /\ passive = {}
  /\ tomb = [c \in Call |-> NoEvidence] /\ obs = Quiet /\ outlived = {}

Done(c) == task[c] \in Ends
Live(c) == task[c] = "live"

(* _observe_terminal, _settled_evidence: only a bad end counts. *)
Bad(c) == task[c] = "bad"
Evidence(c) == {[bad |-> Bad(c), told |-> c \in told, late |-> lateFor[c]]}

(* _completion_time against a bound: unknown counts as too late. *)
InTime(c, bound) == c \in told /\ bound \notin lateFor[c]

-----------------------------------------------------------------------------
\* A plausible bug: an operation that outlived its call is watched but not kept.
RetainWatched(c, isPassive) ==
  /\ watched' = watched \cup {c} /\ outlived' = outlived \cup {c}
  /\ UNCHANGED <<kept, passive, obs>>

(* _retain: a new member changes the retention generation, which the observer
   compares. *)
Retain(c, isPassive) ==
  /\ kept' = kept \cup {c} /\ watched' = watched \cup {c} /\ outlived' = outlived \cup {c}
  /\ passive' = IF isPassive THEN passive \cup {c} ELSE passive
  /\ obs' = IF obs.at # "idle" /\ c \notin kept THEN [obs EXCEPT !.changed = TRUE] ELSE obs

Untouched == UNCHANGED <<watched, kept, passive, obs, outlived>>
Return(c, r) ==
  /\ where' = [where EXCEPT ![c] = "done"] /\ primary' = [primary EXCEPT ![c] = r]

(* run: admission, then the race of the operation against the timer. *)
Admit(c, future) ==
  /\ where[c] = "idle" /\ where' = [where EXCEPT ![c] = IF future THEN "watching" ELSE "racing"]
  /\ task' = [task EXCEPT ![c] = "live"]
  /\ UNCHANGED <<primary, bidden, told, over, lateFor, tomb>> /\ Untouched

(* _discard: a call cancelled, late or malformed at its start never admits its
   operation.  A pending future is watched; a coroutine is closed, and one
   that resists is cancelled like any other work. *)
DiscardFuture(c) ==
  /\ where[c] = "idle" /\ task' = [task EXCEPT ![c] = "live"]
  /\ Retain(c, TRUE) /\ Return(c, "incomplete")
  /\ UNCHANGED <<bidden, told, over, lateFor, tomb>>
DiscardCoroutine(c) ==
  /\ where[c] = "idle"
  /\ \/ Return(c, "refused") /\ UNCHANGED <<task, bidden>> /\ Untouched
     \/ /\ where' = [where EXCEPT ![c] = "cleanup"]
        /\ primary' = [primary EXCEPT ![c] = "exceeded"]
        /\ task' = [task EXCEPT ![c] = "live"] /\ bidden' = bidden \cup {c}
        /\ watched' = watched \cup {c} /\ UNCHANGED <<kept, passive, obs, outlived>>
  /\ UNCHANGED <<told, over, lateFor, tomb>>

(* The operation ends, cancelled only if it was asked to. *)
TaskEnds(c) ==
  /\ Live(c)
  /\ \E o \in Ends : (o = "cancelled" => c \in bidden) /\ task' = [task EXCEPT ![c] = o]
  /\ bidden' = bidden \ {c} /\ UNCHANGED <<where, primary, told, over, lateFor, tomb>> /\ Untouched

(* record_completion, one turn of the loop after the end. *)
RecordCompletion(c) ==
  /\ Done(c) /\ c \in watched \ told
  /\ told' = told \cup {c} /\ lateFor' = [lateFor EXCEPT ![c] = over \cap {c, Observer}]
  /\ tomb' = IF c \in kept \/ tomb[c] # NoEvidence
             THEN [tomb EXCEPT ![c] = {[bad |-> Bad(c), told |-> TRUE, late |-> lateFor'[c]]}] ELSE tomb
  /\ kept' = kept \ {c} /\ passive' = passive \ {c}
  /\ UNCHANGED <<where, primary, task, bidden, watched, over, obs, outlived>>

(* The race is over: by the timer, a broken clock or the owner's cancellation
   at any time, by the operation when it ended strictly before. *)
Decision(c) ==
  {"exceeded", "cancelled"} \cup (IF Done(c) THEN {IF task[c] = "result" THEN "result" ELSE "bad"} ELSE {})

RaceEnds(c) ==
  /\ where[c] = "racing" /\ where' = [where EXCEPT ![c] = "cleanup"]
  /\ \E p \in Decision(c) : primary' = [primary EXCEPT ![c] = p]
  /\ watched' = watched \cup {c}
  /\ bidden' = IF Live(c) THEN bidden \cup {c} ELSE bidden
  /\ UNCHANGED <<task, told, over, lateFor, kept, passive, tomb, obs, outlived>>

BoundPasses(c) ==
  /\ where[c] = "cleanup" /\ c \notin over /\ over' = over \cup {c}
  /\ UNCHANGED <<where, primary, work, kept, passive, tomb, obs, outlived>>

(* _finish_cleanup_despite_cancellation: a cancelled owner still waits for the
   cleanup, and its cancellation is what it reports. *)
OwnerCancelled(c) ==
  /\ where[c] = "cleanup" /\ primary' = [primary EXCEPT ![c] = "cancelled"]
  /\ UNCHANGED <<where, work, over, kept, passive, tomb, obs, outlived>>

(* The outcome of a call after its cleanup: its own cancellation first, then
   its own end unless there is any doubt about what is still running. *)
Outcome(p, end, clean) ==
  IF p = "cancelled" THEN p ELSE IF clean /\ "bad" \notin {p, end} THEN p ELSE "incomplete"
NoDoubt == kept' = {} /\ \A c \in Call : tomb'[c] = NoEvidence

(* _cancel_all_until and cleanup(): an operation that is still live at the
   bound goes to quarantine, one that ended too late leaves evidence. *)
Settle(c) ==
  /\ where[c] = "cleanup"
  /\ \/ Live(c) /\ c \in over /\ Retain(c, FALSE) /\ UNCHANGED tomb
     \/ /\ Done(c) /\ (c \in told \/ c \in over) /\ Untouched
        /\ tomb' = IF InTime(c, c) THEN tomb ELSE [tomb EXCEPT ![c] = Evidence(c)]
  /\ Return(c, Outcome(primary[c], task[c], NoDoubt))
  /\ over' = over \ {c} /\ UNCHANGED <<task, bidden, told, lateFor>>

(* The same for a watched future: it is never cancelled. *)
SettleFuture(c) ==
  /\ where[c] = "watching"
  /\ \/ Live(c) /\ Retain(c, TRUE)
     \/ Done(c) /\ Untouched
  /\ UNCHANGED <<task, bidden, told, over, lateFor, tomb>>
  /\ \E p \in Decision(c) : Return(c, Outcome(p, task[c], NoDoubt))

-----------------------------------------------------------------------------
(* observe_quarantine: a snapshot, cancellation of its active part, a bounded
   wait, and an acknowledgement that clears the evidence. *)
ObserveQuarantine ==
  /\ obs.at = "idle"
  /\ obs' = [at |-> "waiting", members |-> kept, passive |-> passive, changed |-> FALSE, complete |-> TRUE]
  /\ bidden' = bidden \cup {c \in kept \ passive : Live(c)}
  /\ over' = over \ {Observer} /\ lateFor' = [c \in Call |-> lateFor[c] \ {Observer}]
  /\ tomb' = [c \in Call |-> {[e EXCEPT !.late = @ \ {Observer}] : e \in tomb[c]}]
  /\ UNCHANGED <<where, primary, task, watched, told, kept, passive, outlived>>

ObserverBoundPasses ==
  /\ obs.at = "waiting" /\ Observer \notin over /\ over' = over \cup {Observer}
  /\ UNCHANGED <<where, primary, work, kept, passive, tomb, obs, outlived>>

Ended(c) == Done(c) /\ c \in told
ObserverSettles ==
  LET missing == {c \in obs.members : ~Done(c)}
      untimely == {c \in obs.members : Done(c) /\ ~InTime(c, Observer)} IN
  /\ obs.at = "waiting" /\ ((\A c \in obs.members : Ended(c)) \/ Observer \in over)
  /\ obs' = [obs EXCEPT !.at = "checking", !.complete =
       missing = {} /\ untimely = {} /\ \A c \in obs.members \ obs.passive : ~Bad(c)]
  /\ tomb' = [c \in Call |-> IF c \in untimely THEN Evidence(c) ELSE tomb[c]]
  /\ kept' = kept \ untimely /\ passive' = passive \ untimely
  /\ UNCHANGED <<where, primary, work, over, outlived>>

Clean(e) == ~e.bad /\ e.told /\ Observer \notin e.late
Acknowledged ==
  obs.complete /\ ~obs.changed /\ kept = {} /\ \A c \in Call : \A e \in tomb[c] : Clean(e)
ObserverChecks ==
  /\ obs.at = "checking" /\ obs' = Quiet
  /\ tomb' = IF Acknowledged THEN [c \in Call |-> NoEvidence] ELSE tomb
  /\ UNCHANGED <<where, primary, work, over, kept, passive, outlived>>

GuardNext ==
  \/ \E c \in Call : \/ \E f \in BOOLEAN : Admit(c, f)
                     \/ DiscardFuture(c) \/ DiscardCoroutine(c) \/ TaskEnds(c)
                     \/ RecordCompletion(c) \/ RaceEnds(c) \/ BoundPasses(c) \/ OwnerCancelled(c)
                     \/ Settle(c) \/ SettleFuture(c)
  \/ ObserveQuarantine \/ ObserverBoundPasses \/ ObserverSettles \/ ObserverChecks

GuardSpec == GuardInit /\ [][GuardNext]_guardVars

-----------------------------------------------------------------------------
Leaked == {c \in Call : where[c] = "done" /\ Live(c)}

(* Work that outlived its call is in quarantine until it ends, however the
   call, its cleanup, the loop's callbacks and the observer interleave. *)
LeaksAreKept == Leaked \subseteq kept

(* A quarantined operation that ended badly leaves evidence no observer
   clears: record_completion, _cancel_all_until and observe_quarantine
   hand it over without a gap. *)
BadEndingsStay == \A c \in outlived : Bad(c) => c \in kept \/ tomb[c] # NoEvidence

(* A call that returns its own result after its race, and an observer that
   acknowledges, leave nothing of an earlier call running. *)
CleanStep ==
  /\ \A c \in Call : /\ where[c] \in {"cleanup", "watching"} /\ where'[c] = "done"
                      /\ primary'[c] \in {"result", "exceeded"}
       => Leaked' = {}
  /\ (obs.at = "checking" /\ obs'.at = "idle" /\ Acknowledged) => Leaked = {}
CleanMeansQuiet == [][CleanStep]_guardVars

(* Nothing that outlived a call is forgotten before it ended well. *)
NothingLeaks == [](LeaksAreKept /\ BadEndingsStay) /\ CleanMeansQuiet

=============================================================================
