---------------------------- MODULE ReachyMedia -----------------------------
(***************************************************************************)
(* What travels beside the control frames: the one camera window of a      *)
(* session (ReachySession), the three priority queues of outbound frames   *)
(* (PriorityControlQueues) and the consume-once audio of a finished turn   *)
(* (BoundedCompletedTurnAudio).  Claims are rows of idempotency_receipts   *)
(* and survive a restart; all the rest is memory.                          *)
(***************************************************************************)
EXTENDS Naturals, Sequences

CONSTANTS
    Call,       \* grant_camera calls
    Grant,      \* grant ids, fewer than calls: a grant may be presented twice
    Reader,     \* tasks that wait in PriorityControlQueues.get
    QueueMax,   \* bound of each queue
    MaxPut,     \* bound: frames queued
    MaxClose,   \* bound: close events and restarts
    Consumer    \* consume_once calls for one turn

VARIABLES
    camera, ticket, installed, generation,  \* ReachySession
    call,       \* each grant_camera call: stage, grant, ticket and generation
    claimedGrants, \* durable: grants that a call has claimed
    opened,     \* history: how often a window was installed for a grant
    overtaken,  \* history: calls that a close event came after
    queue, available,  \* the queues and the event; one lock guards both
    reader,     \* each reader: "running", "about" to wait, or "waiting"
    puts, closes,
    consumer,   \* each consume_once call
    audioClaim, \* durable: the turn's audio has been claimed
    streams     \* streams that consume_once has opened and not yet closed

cameraVars == <<camera, ticket, installed, generation, call, claimedGrants, opened, overtaken>>
queueVars == <<queue, available, reader, puts>>
audioVars == <<consumer, audioClaim, streams>>
mediaVars == <<cameraVars, queueVars, audioVars, closes>>

NoCall == "none"
NotCalled == [at |-> "idle"]
Lane == <<"safety", "control", "media">>

ASSUME MediaConstants == NoCall \notin Call

MediaTypes ==
    /\ camera \in Call \cup {NoCall} /\ ticket \in Nat /\ installed \in Nat /\ generation \in Nat
    /\ claimedGrants \subseteq Grant /\ opened \in [Grant -> Nat] /\ overtaken \subseteq Call
    /\ DOMAIN queue = {Lane[i] : i \in 1..3} /\ available \in BOOLEAN
    /\ reader \in [Reader -> {"running", "about", "waiting"}]
    /\ consumer \in [Consumer -> {"idle", "opened", "claimed", "returning", "failing", "returned", "failed"}]
    /\ audioClaim \in BOOLEAN /\ streams \subseteq Consumer

MediaInit ==
    /\ camera = NoCall /\ ticket = 0 /\ installed = 0 /\ generation = 0
    /\ call = [c \in Call |-> NotCalled] /\ claimedGrants = {} /\ overtaken = {}
    /\ opened = [g \in Grant |-> 0]
    /\ queue = [l \in {"safety", "control", "media"} |-> 0] /\ available = FALSE
    /\ reader = [r \in Reader |-> "running"] /\ puts = 0 /\ closes = 0
    /\ consumer = [c \in Consumer |-> "idle"] /\ audioClaim = FALSE /\ streams = {}

----------------------------------------------------------------------------
(* The camera window *)

GrantCamera(c, g) ==
    /\ call[c].at = "idle" /\ ticket' = ticket + 1
    /\ call' = [call EXCEPT ![c] = [at |-> "claiming", grant |-> g, ticket |-> ticket + 1,
                                    generation |-> generation]]
    /\ UNCHANGED <<camera, installed, generation, claimedGrants, opened, overtaken, queueVars, audioVars, closes>>

\* PersistentCameraGrantClaims.claim: the insert does nothing when the row exists.
ClaimGrant(c) ==
    /\ call[c].at = "claiming"
    /\ claimedGrants' = claimedGrants \cup {call[c].grant}
    /\ call' = [call EXCEPT ![c].at = IF call[c].grant \in claimedGrants THEN "refused" ELSE "claimed"]
    /\ UNCHANGED <<camera, ticket, installed, generation, opened, overtaken, queueVars, audioVars, closes>>

\* A later call that was faster keeps its window; a close event in between wins.
InstallWindow(c) ==
    /\ call[c].at = "claimed"
    /\ IF generation = call[c].generation /\ call[c].ticket >= installed
       THEN /\ camera' = c /\ installed' = call[c].ticket
            /\ opened' = [opened EXCEPT ![call[c].grant] = @ + 1]
            /\ call' = [call EXCEPT ![c].at = "open"]
       ELSE call' = [call EXCEPT ![c].at = "refused"] /\ UNCHANGED <<camera, installed, opened>>
    /\ UNCHANGED <<ticket, generation, claimedGrants, overtaken, queueVars, audioVars, closes>>

\* privacy, cancel, identity completion, expiry or disconnect.
CloseCamera ==
    /\ closes < MaxClose /\ closes' = closes + 1
    /\ generation' = generation + 1 /\ camera' = NoCall
    /\ overtaken' = overtaken \cup {c \in Call : call[c].at # "idle"}
    /\ UNCHANGED <<ticket, installed, call, claimedGrants, opened, queueVars, audioVars>>

----------------------------------------------------------------------------
(* The queues.  get looks and clears the event under the lock and waits     *)
(* after it; a put of any thread may come in between, and a reader that was *)
(* woken may find its frame taken by another.                               *)

\* Event.set: every waiter is woken, also if the event is cleared before it runs.
SetAvailable ==
    available' = TRUE /\ reader' = [r \in Reader |-> IF reader[r] = "waiting" THEN "running" ELSE reader[r]]

Total == queue["safety"] + queue["control"] + queue["media"]

\* A full safety or control lane refuses the frame.
PutStrict(l) ==
    /\ l # "media" /\ queue[l] < QueueMax /\ puts < MaxPut /\ puts' = puts + 1
    /\ queue' = [queue EXCEPT ![l] = @ + 1] /\ SetAvailable
    /\ UNCHANGED <<cameraVars, audioVars, closes>>

\* A full media lane drops its oldest frame.
PutMedia ==
    /\ puts < MaxPut /\ puts' = puts + 1
    /\ queue' = [queue EXCEPT !["media"] = IF @ < QueueMax THEN @ + 1 ELSE @] /\ SetAvailable
    /\ UNCHANGED <<cameraVars, audioVars, closes>>

FirstLane == IF queue["safety"] > 0 THEN "safety" ELSE IF queue["control"] > 0 THEN "control" ELSE "media"

\* A plausible bug: the event is cleared with every frame that is taken.
GetClears(r) ==
    /\ reader[r] = "running" /\ available' = FALSE
    /\ IF Total > 0 THEN queue' = [queue EXCEPT ![FirstLane] = @ - 1] /\ UNCHANGED reader
       ELSE reader' = [reader EXCEPT ![r] = "about"] /\ UNCHANGED queue
    /\ UNCHANGED <<puts, cameraVars, audioVars, closes>>

Get(r) ==
    /\ reader[r] = "running"
    /\ IF Total > 0
       THEN /\ queue' = [queue EXCEPT ![FirstLane] = @ - 1]
            /\ available' = (available /\ Total > 1) /\ UNCHANGED reader
       ELSE available' = FALSE /\ reader' = [reader EXCEPT ![r] = "about"] /\ UNCHANGED queue
    /\ UNCHANGED <<puts, cameraVars, audioVars, closes>>

AwaitAvailable(r) ==
    /\ reader[r] = "about"
    /\ reader' = [reader EXCEPT ![r] = IF available THEN "running" ELSE "waiting"]
    /\ UNCHANGED <<queue, available, puts, cameraVars, audioVars, closes>>

----------------------------------------------------------------------------
(* Completed audio *)

OpenCompleted(c) ==
    /\ consumer[c] = "idle" /\ consumer' = [consumer EXCEPT ![c] = "opened"]
    /\ streams' = streams \cup {c}
    /\ UNCHANGED <<audioClaim, cameraVars, queueVars, closes>>

\* The stream must be the turn's; the claim commits before the first chunk is read.
ClaimOnce(c) ==
    /\ consumer[c] = "opened"
    /\ \/ /\ ~audioClaim /\ audioClaim' = TRUE /\ consumer' = [consumer EXCEPT ![c] = "claimed"]
       \/ consumer' = [consumer EXCEPT ![c] = "failing"] /\ UNCHANGED audioClaim
    /\ UNCHANGED <<streams, cameraVars, queueVars, closes>>

\* Every chunk is within its bound and there is one, or the call fails or is cancelled.
ReadChunks(c) ==
    /\ consumer[c] = "claimed"
    /\ consumer' = [consumer EXCEPT ![c] = "returning"] \/ consumer' = [consumer EXCEPT ![c] = "failing"]
    /\ UNCHANGED <<audioClaim, streams, cameraVars, queueVars, closes>>

\* _close_and_wipe, which no cancellation interrupts: an error of the close turns a
\* result into a failure.
CloseAndWipe(c) ==
    /\ consumer[c] \in {"returning", "failing"} /\ streams' = streams \ {c}
    /\ \/ consumer[c] = "returning" /\ consumer' = [consumer EXCEPT ![c] = "returned"]
       \/ consumer' = [consumer EXCEPT ![c] = "failed"]
    /\ UNCHANGED <<audioClaim, cameraVars, queueVars, closes>>

----------------------------------------------------------------------------

\* The process dies and starts again; the claims remain.
CoreRestarts ==
    /\ closes < MaxClose /\ closes' = closes + 1
    /\ camera' = NoCall /\ ticket' = 0 /\ installed' = 0 /\ generation' = 0
    /\ call' = [c \in Call |-> IF call[c].at = "idle" THEN NotCalled ELSE [call[c] EXCEPT !.at = "refused"]]
    /\ queue' = [l \in DOMAIN queue |-> 0] /\ available' = FALSE
    /\ reader' = [r \in Reader |-> "running"]
    /\ consumer' = [c \in Consumer |-> IF consumer[c] \in {"idle", "returned"} THEN consumer[c] ELSE "failed"]
    /\ streams' = {}
    /\ UNCHANGED <<claimedGrants, opened, overtaken, audioClaim, puts>>

MediaNext ==
    \/ \E c \in Call : (\E g \in Grant : GrantCamera(c, g)) \/ ClaimGrant(c) \/ InstallWindow(c)
    \/ CloseCamera
    \/ (\E l \in {"safety", "control"} : PutStrict(l)) \/ PutMedia \/ (\E r \in Reader : Get(r) \/ AwaitAvailable(r))
    \/ \E c \in Consumer : OpenCompleted(c) \/ ClaimOnce(c) \/ ReadChunks(c) \/ CloseAndWipe(c)
    \/ CoreRestarts

MediaSpec == MediaInit /\ [][MediaNext]_mediaVars

----------------------------------------------------------------------------
(* Properties *)

\* The open window belongs to a grant that was never used before, was asked for after the
\* last close event, and no later request's window has been replaced by it.
CameraIsCurrent ==
    /\ \A g \in Grant : opened[g] <= 1
    /\ camera # NoCall => camera \notin overtaken /\ call[camera].ticket = installed

\* No wakeup is lost: a reader sleeps only while there is nothing to send, whatever puts
\* and other readers do between its look and its wait.
NoLostWakeup == Total > 0 => \A r \in Reader : reader[r] # "waiting"

\* The audio of a turn is handed out at most once, also across a restart, and only after
\* its stream was closed.
AudioReturnedOnce ==
    /\ \A c, d \in Consumer : consumer[c] = "returned" /\ consumer[d] = "returned" => c = d
    /\ \A c \in Consumer : consumer[c] \in {"returned", "failed"} => c \notin streams

\* What the media objects hand from one task to another arrives once and in time.
MediaIsHandedOver == CameraIsCurrent /\ NoLostWakeup /\ AudioReturnedOnce

=============================================================================
