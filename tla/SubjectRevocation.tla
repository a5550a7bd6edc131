-------------------------- MODULE SubjectRevocation --------------------------
(***************************************************************************)
(* The outbox of subject revocations and the worker that drains it.        *)
(*                                                                         *)
(* Revoking a profile inserts an event in the same transaction.  A worker  *)
(* claims an event under a lease, has one handler per post-commit family   *)
(* apply its effect (each effect is claimed under a lease of its own, so   *)
(* that a repeated event does not repeat a finished effect), and completes *)
(* the event.  Both leases are renewed by heartbeats while the handlers    *)
(* run.  Before the identity runtime is ready it drains what earlier       *)
(* processes left behind.                                                  *)
(*                                                                         *)
(* One action is one transaction.  A lease is the time left until it       *)
(* expires.  A claim's owner is a fresh UUID and a worker holds one claim  *)
(* at a time, so the worker's name identifies the claim.                   *)
(***************************************************************************)
EXTENDS Integers, FiniteSets

CONSTANTS
    MaxEvent,   \* events, in occurred_at order
    MaxFamily,  \* POST_COMMIT_FAMILIES, in the order the processor runs them
    Worker,     \* processes that may hold a worker; a restart reuses the name
    Lease,      \* length of a lease; the heartbeat interval is shorter
    MaxBacklog, \* MAX_SAFE_STARTUP_BACKLOG
    MaxFault    \* crashes, failing handlers and heartbeats that come too late

\* There is a family to run, and "no owner" names no worker.
ASSUME OutboxConstants == MaxEvent \in Nat /\ MaxFamily \in Nat \ {0} /\ 0 \notin Worker

Event == 1..MaxEvent
Family == 1..MaxFamily
None == 0

VARIABLES
    evState, evOwner, evLeft,     \* subject_revocation_outbox
    effState, effOwner, effLeft,  \* subject_revocation_effects, per event and family
    applied,   \* effects whose downstream transaction has committed
    mode,      \* worker: "off", "startup" (draining before ready) or "periodic" (ready)
    pc, job,   \* where the worker is, and the event it has claimed
    family,    \* the family its processor is at
    wait,      \* a time it has read: a busy effect's lease, or the earliest expiry
    patience,  \* time left until the startup deadline
    backlog,   \* history: events the worker found unfinished when it started
    faults

evVars == <<evState, evOwner, evLeft>>
effVars == <<effState, effOwner, effLeft>>
workerVars == <<mode, pc, job, family, wait, patience, backlog>>
outboxVars == <<evVars, effVars, applied, workerVars, faults>>

Unfinished == {e \in Event : evState[e] \in {"pending", "processing"}}

OutboxInit ==
    /\ evState = [e \in Event |-> "none"]
    /\ evOwner = [e \in Event |-> None] /\ evLeft = [e \in Event |-> 0]
    /\ effState = [e \in Event |-> [f \in Family |-> "pending"]]
    /\ effOwner = [e \in Event |-> [f \in Family |-> None]]
    /\ effLeft = [e \in Event |-> [f \in Family |-> 0]]
    /\ applied = {}
    /\ mode = [w \in Worker |-> "off"]
    /\ pc = [w \in Worker |-> "off"]
    /\ job = [w \in Worker |-> None]
    /\ family = [w \in Worker |-> 1]
    /\ wait = [w \in Worker |-> 0]
    /\ patience = [w \in Worker |-> 0]
    /\ backlog = [w \in Worker |-> {}]
    /\ faults = 0

\* The transaction that revokes the profile inserts the event; the key makes it unique.
Enqueue(e) ==
    /\ evState[e] = "none" /\ \A x \in Event : x < e => evState[x] # "none"
    /\ evState' = [evState EXCEPT ![e] = "pending"]
    /\ UNCHANGED <<evOwner, evLeft, effVars, applied, workerVars, faults>>

----------------------------------------------------------------------------
(* The worker's control flow *)

Goto(w, label) == pc' = [pc EXCEPT ![w] = label]

\* The worker's task ends: readiness is withdrawn until the next start.
Dies(w) ==
    /\ mode' = [mode EXCEPT ![w] = "off"]
    /\ pc' = [pc EXCEPT ![w] = "off"]
    /\ job' = [job EXCEPT ![w] = None]
    /\ family' = [family EXCEPT ![w] = 1]
    /\ wait' = [wait EXCEPT ![w] = 0]
    /\ patience' = [patience EXCEPT ![w] = 0]
    /\ backlog' = [backlog EXCEPT ![w] = {}]

\* start_identity_runtime; a backlog that is too large refuses the start.
StartWorker(w) ==
    /\ mode[w] = "off" /\ Cardinality(Unfinished) <= MaxBacklog
    /\ mode' = [mode EXCEPT ![w] = "startup"]
    /\ Goto(w, "top")
    /\ patience' = [patience EXCEPT ![w] = Lease + 1]
    /\ backlog' = [backlog EXCEPT ![w] = Unfinished]
    /\ UNCHANGED <<evVars, effVars, applied, job, family, wait, faults>>

\* pending_count() = 0
Drained(w) == Unfinished = {}

BecomeReady(w) ==
    /\ Drained(w)
    /\ mode' = [mode EXCEPT ![w] = "periodic"]
    /\ Goto(w, "waiting")
    /\ patience' = [patience EXCEPT ![w] = 0]
    /\ UNCHANGED <<evVars, effVars, applied, job, family, wait, backlog, faults>>

\* The head of the startup loop, and the check after a drain.
CountPending(w) ==
    /\ pc[w] \in {"top", "drained"} /\ mode[w] = "startup"
    /\ \/ BecomeReady(w)
       \/ /\ ~Drained(w)
          /\ Goto(w, IF pc[w] = "top" THEN "recover" ELSE "expiry")
          /\ UNCHANGED <<evVars, effVars, applied, mode, job, family, wait,
                         patience, backlog, faults>>

\* earliest_live_expiry: sleep until then, or give the start up.
AwaitExpiry(w) ==
    LET held == {evLeft[e] : e \in {x \in Event : evState[x] = "processing"}}
    IN /\ pc[w] = "expiry"
       /\ \/ \E left \in held :
                /\ \A other \in held : left <= other
                /\ left <= patience[w]
                /\ Goto(w, "asleep") /\ wait' = [wait EXCEPT ![w] = left]
                /\ UNCHANGED <<evVars, effVars, applied, mode, job, family,
                               patience, backlog, faults>>
          \/ /\ \A left \in held : left > patience[w]
             /\ Dies(w) /\ UNCHANGED <<evVars, effVars, applied, faults>>

\* The sleep ends, or the kick or the 30 second timeout of run_periodically.
Wake(w) ==
    /\ \/ pc[w] = "asleep" /\ wait[w] = 0 /\ Goto(w, "top")
       \/ pc[w] = "waiting" /\ Goto(w, "recover")
    /\ UNCHANGED <<evVars, effVars, applied, mode, job, family, wait,
                   patience, backlog, faults>>

----------------------------------------------------------------------------
(* _drain_available *)

\* Mutant: only claims without an owner are recovered.
UnownedClaim(e) == evState[e] = "processing" /\ evLeft[e] = 0 /\ evOwner[e] = None

ExpiredClaim(e) == evState[e] = "processing" /\ evLeft[e] = 0

RecoverExpired(w) ==
    LET expired == {e \in Event : ExpiredClaim(e)}
    IN /\ pc[w] = "recover" /\ Goto(w, "stale")
       /\ evState' = [e \in Event |-> IF e \in expired THEN "pending" ELSE evState[e]]
       /\ evOwner' = [e \in Event |-> IF e \in expired THEN None ELSE evOwner[e]]
       /\ UNCHANGED <<evLeft, effVars, applied, mode, job, family, wait,
                      patience, backlog, faults>>

StaleEffect(e, f) == effState[e][f] = "applying" /\ effLeft[e][f] = 0

RecoverStale(w) ==
    /\ pc[w] = "stale" /\ Goto(w, "claim")
    /\ effState' = [e \in Event |-> [f \in Family |->
                       IF StaleEffect(e, f) THEN "pending" ELSE effState[e][f]]]
    /\ effOwner' = [e \in Event |-> [f \in Family |->
                       IF StaleEffect(e, f) THEN None ELSE effOwner[e][f]]]
    /\ UNCHANGED <<evVars, effLeft, applied, mode, job, family, wait,
                   patience, backlog, faults>>

\* claim_next: the oldest pending event, or the drain is over.
ClaimNext(w) ==
    LET pending == {e \in Event : evState[e] = "pending"}
    IN /\ pc[w] = "claim"
       /\ \/ /\ pending = {}
             /\ Goto(w, IF mode[w] = "startup" THEN "drained" ELSE "waiting")
             /\ UNCHANGED <<evVars, job, family>>
          \/ \E e \in pending :
                /\ \A x \in pending : e <= x
                /\ evState' = [evState EXCEPT ![e] = "processing"]
                /\ evOwner' = [evOwner EXCEPT ![e] = w]
                /\ evLeft' = [evLeft EXCEPT ![e] = Lease]
                /\ job' = [job EXCEPT ![w] = e]
                /\ family' = [family EXCEPT ![w] = 1]
                /\ Goto(w, "effect")
       /\ UNCHANGED <<effVars, applied, mode, wait, patience, backlog, faults>>

----------------------------------------------------------------------------
(* _process_claim and the handlers *)

\* The conditions of renew, complete, retry_pending and defer_until.
HoldsClaim(w) ==
    /\ evState[job[w]] = "processing" /\ evOwner[job[w]] = w /\ evLeft[job[w]] > 0

\* ... and of the effect's renew, complete and abandon.
HoldsEffect(w) ==
    /\ effState[job[w]][family[w]] = "applying"
    /\ effOwner[job[w]][family[w]] = w /\ effLeft[job[w]][family[w]] > 0

SetEffect(w, st, owner, left) ==
    /\ effState' = [effState EXCEPT ![job[w]][family[w]] = st]
    /\ effOwner' = [effOwner EXCEPT ![job[w]][family[w]] = owner]
    /\ effLeft' = [effLeft EXCEPT ![job[w]][family[w]] = left]

NextFamily(w) ==
    IF family[w] = MaxFamily
    THEN Goto(w, "complete") /\ UNCHANGED family
    ELSE Goto(w, "effect") /\ family' = [family EXCEPT ![w] = @ + 1]

Claimable(e, f) == effState[e][f] = "pending" \/ StaleEffect(e, f)

\* Mutant: an effect that another worker is applying counts as done.
BusyIsDone(w) == /\ NextFamily(w) /\ UNCHANGED wait

\* The processor returns DeferredRevocationProcessing with the effect's lease.
Busy(w) ==
    /\ Goto(w, "defer") /\ UNCHANGED family
    /\ wait' = [wait EXCEPT ![w] = effLeft[job[w]][family[w]]]

ClaimEffect(w) ==
    LET st == effState[job[w]][family[w]]
        free == Claimable(job[w], family[w])
    IN /\ pc[w] = "effect"
       /\ \/ /\ free /\ SetEffect(w, "applying", w, Lease)
             /\ Goto(w, "apply") /\ UNCHANGED <<family, wait>>
          \/ st = "completed" /\ NextFamily(w) /\ UNCHANGED <<effVars, wait>>
          \/ ~free /\ st = "applying" /\ Busy(w) /\ UNCHANGED effVars
       /\ UNCHANGED <<evVars, applied, mode, job, patience, backlog, faults>>

\* The downstream transaction of the family's handler commits, or raises.  A family
\* that is not installed only checks that it is not, and answers a receipt as well.
Apply(w) ==
    /\ pc[w] = "apply" /\ Goto(w, "applied")
    /\ applied' = applied \cup {<<job[w], family[w]>>}
    /\ UNCHANGED <<evVars, effVars, mode, job, family, wait, patience, backlog, faults>>

ApplyFails(w) ==
    /\ pc[w] = "apply" /\ faults < MaxFault
    /\ faults' = faults + 1
    /\ Goto(w, "abandon")
    /\ UNCHANGED <<evVars, effVars, applied, mode, job, family, wait, patience, backlog>>

CompleteEffect(w) ==
    /\ pc[w] = "applied"
    /\ IF HoldsEffect(w) THEN SetEffect(w, "completed", None, 0) /\ NextFamily(w)
       ELSE Goto(w, "retry") /\ UNCHANGED <<effVars, family>>
    /\ UNCHANGED <<evVars, applied, mode, job, wait, patience, backlog, faults>>

AbandonEffect(w) ==
    /\ pc[w] = "abandon" /\ Goto(w, "retry")
    /\ IF HoldsEffect(w) THEN SetEffect(w, "pending", None, 0) ELSE UNCHANGED effVars
    /\ UNCHANGED <<evVars, applied, mode, job, family, wait, patience, backlog, faults>>

\* What ends the claim: completion, deferral to the effect's lease, or back to pending.
SetEvent(w, st, owner, left) ==
    /\ evState' = [evState EXCEPT ![job[w]] = st]
    /\ evOwner' = [evOwner EXCEPT ![job[w]] = owner]
    /\ evLeft' = [evLeft EXCEPT ![job[w]] = left]

RetryPending(w) == SetEvent(w, "pending", None, 0)

DeferUntil(w) == SetEvent(w, "processing", w, wait[w])

CloseClaim(w) ==
    /\ pc[w] \in {"complete", "defer"}
    /\ IF HoldsClaim(w)
       THEN /\ IF pc[w] = "complete" THEN SetEvent(w, "completed", None, 0)
               ELSE DeferUntil(w)
            /\ Goto(w, "claim")
            /\ job' = [job EXCEPT ![w] = None]
            /\ family' = [family EXCEPT ![w] = 1]
            /\ wait' = [wait EXCEPT ![w] = 0]
       ELSE Goto(w, "retry") /\ UNCHANGED <<evVars, job, family, wait>>
    /\ UNCHANGED <<effVars, applied, mode, patience, backlog, faults>>

\* retry_pending, and then the error ends the worker in any case.
Retry(w) ==
    /\ pc[w] = "retry"
    /\ IF HoldsClaim(w) THEN RetryPending(w) ELSE UNCHANGED evVars
    /\ Dies(w) /\ UNCHANGED <<effVars, applied, faults>>

----------------------------------------------------------------------------
(* Heartbeats, crashes and time *)

Working == {"effect", "apply", "applied", "abandon"}

\* The heartbeat around the processor; losing the lease (LeaseFenceLost) ends the worker.
Renew(w) ==
    /\ pc[w] \in Working
    /\ IF HoldsClaim(w)
       THEN evLeft' = [evLeft EXCEPT ![job[w]] = Lease] /\ UNCHANGED workerVars
       ELSE Dies(w) /\ UNCHANGED evLeft
    /\ UNCHANGED <<evState, evOwner, effVars, applied, faults>>

\* The heartbeat around the handler.
RenewEffect(w) ==
    /\ pc[w] = "apply"
    /\ IF HoldsEffect(w)
       THEN effLeft' = [effLeft EXCEPT ![job[w]][family[w]] = Lease] /\ UNCHANGED workerVars
       ELSE Dies(w) /\ UNCHANGED effLeft
    /\ UNCHANGED <<evVars, effState, effOwner, applied, faults>>

\* The process dies, or the supervisor cancels the worker: the rows stay as they are.
Crash(w) ==
    /\ mode[w] # "off" /\ faults < MaxFault
    /\ faults' = faults + 1
    /\ Dies(w) /\ UNCHANGED <<evVars, effVars, applied>>

\* Workers whose lease the next tick would end under them.
Lapsing ==
    {w \in Worker :
        \/ /\ pc[w] \in Working \cup {"complete", "defer"}
           /\ HoldsClaim(w) /\ evLeft[job[w]] = 1
        \/ /\ pc[w] \in {"apply", "applied"}
           /\ HoldsEffect(w) /\ effLeft[job[w]][family[w]] = 1}

Less(n) == IF n > 0 THEN n - 1 ELSE 0

Tick ==
    /\ Lapsing = {} \/ faults < MaxFault
    /\ faults' = IF Lapsing = {} THEN faults ELSE faults + 1
    /\ evLeft' = [e \in Event |-> Less(evLeft[e])]
    /\ effLeft' = [e \in Event |-> [f \in Family |-> Less(effLeft[e][f])]]
    /\ wait' = [w \in Worker |-> Less(wait[w])]
    /\ patience' = [w \in Worker |-> Less(patience[w])]
    /\ UNCHANGED <<evState, evOwner, effState, effOwner, applied, mode, pc, job,
                   family, backlog>>

\* reconcile_started_once: claim the effect, apply it under a heartbeat, and complete
\* it, or abandon it when the handler raised.
ReconcileStartedOnce(w) ==
    ClaimEffect(w) \/ Apply(w) \/ CompleteEffect(w) \/ AbandonEffect(w)

WorkerStep(w) ==
    \/ CountPending(w) \/ AwaitExpiry(w) \/ Wake(w)
    \/ RecoverExpired(w) \/ RecoverStale(w) \/ ClaimNext(w)
    \/ ReconcileStartedOnce(w) \/ CloseClaim(w) \/ Retry(w)

OutboxNext ==
    \/ \E e \in Event : Enqueue(e)
    \/ \E w \in Worker : \/ StartWorker(w) \/ WorkerStep(w) \/ ApplyFails(w)
                         \/ Renew(w) \/ RenewEffect(w) \/ Crash(w)
    \/ Tick

OutboxSpec == OutboxInit /\ [][OutboxNext]_outboxVars

\* Started workers run, a worker that ended is started again, and time passes.
OutboxFairSpec ==
    /\ OutboxSpec
    /\ \A w \in Worker : WF_outboxVars(WorkerStep(w)) /\ WF_outboxVars(StartWorker(w))
    /\ WF_outboxVars(Tick)

----------------------------------------------------------------------------
(* Properties *)

\* A completed event has had every family's effect applied and recorded, whatever
\* crashes, takeovers and repeated claims came before.
CompletedMeansApplied ==
    /\ \A e \in Event : evState[e] = "completed" =>
            \A f \in Family : effState[e][f] = "completed"
    /\ \A e \in Event, f \in Family : effState[e][f] = "completed" => <<e, f>> \in applied

\* Nobody takes a claim away while its lease is live: it ends by the hand of the worker
\* that holds it.
LiveLeaseHonoured ==
    [][/\ \A e \in Event, w \in Worker :
             evOwner[e] = w /\ evLeft[e] > 0 /\ evOwner'[e] # w =>
                job[w] = e /\ pc[w] \in {"complete", "retry"}
       /\ \A e \in Event, f \in Family, w \in Worker :
             effOwner[e][f] = w /\ effLeft[e][f] > 0 /\ effOwner'[e][f] # w =>
                job[w] = e /\ family[w] = f /\ pc[w] \in {"applied", "abandon"}]_outboxVars

\* The runtime reports ready only when every event it found at its start is completed,
\* also those that a dead process had claimed.
ReadyMeansDrained ==
    \A w \in Worker : mode[w] = "periodic" =>
        \A e \in backlog[w] : evState[e] = "completed"

\* Every revocation that was committed is carried out in the end.
RevocationsComplete == \A e \in Event : evState[e] = "pending" ~> evState[e] = "completed"

\* What the revocation worker promises while claims expire, are taken over and repeated:
\* completed means applied, ready means drained, and a live claim is its holder's.
RevocationsAreApplied ==
    [](CompletedMeansApplied /\ ReadyMeansDrained) /\ LiveLeaseHonoured

=============================================================================
