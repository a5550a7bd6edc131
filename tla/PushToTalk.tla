----------------------------- MODULE PushToTalk -----------------------------
(***************************************************************************)
(* One supervised push-to-talk turn: the Core session supervisor, the Edge *)
(* session and the byte stream between them.  Each end runs the same       *)
(* duplex guard over the frames of both directions, in the order in which  *)
(* that end sees them, so the two guards see two different interleavings.  *)
(* A deadline is a step that may be taken while its wait lasts.  Audio is  *)
(* one frame in each direction; framing, sizes and rates are left out.     *)
(* The reasons a turn fails for are a cancellation and any other           *)
(* ("failed"); an outcome "incomplete" is a cleanup that was not proved.   *)
(***************************************************************************)
EXTENDS Naturals, Sequences, SequencesExt

(* The turns looked at: [mode, beats, faults], the latter two bounds on the *)
(* heartbeats and on the broken streams, failed sends and cancelled runs.   *)
CONSTANT Turns

VARIABLES mode, guards, core, lane, writer, edge, eout, c2e, e2c, lost, left

pttVars == <<mode, guards, core, lane, writer, edge, eout, c2e, e2c, lost, left>>
wire == <<c2e, e2c, lost>>

(***************************************************************************)
(* The duplex guard.                                                       *)
(***************************************************************************)
CoreKinds == {"open", "start", "submit", "beat", "pstart", "pcm", "pend", "abort", "ack"}
EdgeKinds == {"ready", "cstart", "pcm", "cend", "stop", "receipt", "error"}
CleanupKinds == {"stop", "abort", "error"}
Cleaning == {"cleanup_required", "receipt_received"}

NewGuard == [st |-> "wait_open", late |-> "wait_open", out |-> "completed",
             latched |-> FALSE, rec |-> "none", heard |-> FALSE, played |-> FALSE,
             nx |-> [d \in {"core", "edge"} |-> 0]]

Control(k, v) == [k |-> k, v |-> v, raw |-> FALSE]
Number(f, n) == [k |-> f.k, v |-> f.v, n |-> n]

(* The legal normal transitions: state, kind, next state. *)
Order(m) ==
  {<<"wait_open", "open", "wait_ready">>, <<"wait_ready", "ready", "ready">>,
   <<"capture_submit", "cend", "capture_closed">>,
   <<"capture_closed", "pstart", "playing">>, <<"playing", "pend", "playback_closed">>,
   <<"playback_closed", "receipt", "receipt_received">>}
  \cup (IF m = "terminal"
        THEN {<<"ready", "start", "arming">>, <<"arming", "submit", "arming_submit">>,
              <<"arming", "cstart", "capturing">>,
              <<"arming_submit", "cstart", "capture_submit">>,
              <<"capturing", "submit", "capture_submit">>}
        ELSE {<<"ready", "cstart", "capturing">>, <<"capturing", "cend", "capture_closed">>})

Aborted(g) == [g EXCEPT !.st = "aborted"]
PcmStates(d) == IF d = "edge" THEN {"capturing", "capture_submit"} ELSE {"playing"}

(* The stream of one direction holds samples once a PCM frame was admitted. *)
Sampled(g, d) == IF d = "edge" THEN [g EXCEPT !.heard = TRUE]
                               ELSE [g EXCEPT !.played = TRUE]

LatchCleanup(g, f) ==
  [g EXCEPT !.late = IF g.st \in Cleaning THEN @ ELSE g.st,
            !.out = IF g.latched THEN @ ELSE IF f.k = "stop" THEN "cancelled" ELSE f.v,
            !.latched = TRUE,
            !.st = IF g.st = "receipt_received" THEN @ ELSE "cleanup_required"]

(* An end without a sample is refused; a receipt records what it claims. *)
Progress(g, m, d, f) ==
  LET to == {o \in Order(m) : o[1] = g.st /\ o[2] = f.k}
      empty == \/ f.k = "cend" /\ ~g.heard
               \/ f.k = "pend" /\ ~g.played
  IN CASE f.k \in CleanupKinds -> LatchCleanup(g, f)
       [] f.k = "beat" -> IF g.st = "wait_open" THEN Aborted(g) ELSE g
       [] f.k = "pcm" -> IF g.st \in PcmStates(d) THEN Sampled(g, d) ELSE Aborted(g)
       [] OTHER -> IF to = {} \/ empty THEN Aborted(g)
                   ELSE [g EXCEPT !.st = (CHOOSE o \in to : TRUE)[3],
                                  !.rec = IF f.k = "receipt" THEN f.v ELSE @]

(* What was in flight when cleanup began advances the remembered state only. *)
LateProgress(g, m, d, f) ==
  LET h == Progress([g EXCEPT !.st = g.late], m, d, f)
  IN IF f.k \in {"open", "receipt", "ack"} \/ h.st = "aborted" THEN Aborted(g)
     ELSE [h EXCEPT !.st = g.st, !.late = h.st]

CleanupPhase(g, m, d, f) ==
  CASE f.k \in CleanupKinds -> LatchCleanup(g, f)
    [] f.k = "receipt" /\ g.st = "cleanup_required" ->
         [g EXCEPT !.rec = f.v, !.st = "receipt_received"]
    [] f.k = "ack" /\ g.st = "receipt_received" ->
         IF f.v = "yes" /\ g.rec # "yes" THEN Aborted(g)
         ELSE [g EXCEPT !.st = "acknowledged", !.out = IF f.v = "no" THEN "incomplete" ELSE @]
    [] OTHER -> LateProgress(g, m, d, f)

\* A plausible bug: the phase an orderly frame leaves behind is not remembered.
AcceptForgetting(g, m, d, f) ==
  IF \/ g.st \in {"aborted", "acknowledged", "finished"}
     \/ f.n # g.nx[d]
     \/ f.k \notin (IF d = "core" THEN CoreKinds ELSE EdgeKinds)
  THEN Aborted(g)
  ELSE [(IF g.st \in Cleaning THEN CleanupPhase(g, m, d, f) ELSE Progress(g, m, d, f)) EXCEPT !.nx[d] = @ + 1]

Accept(g, m, d, f) ==
  IF \/ g.st \in {"aborted", "acknowledged", "finished"}
     \/ f.n # g.nx[d]
     \/ f.k \notin (IF d = "core" THEN CoreKinds ELSE EdgeKinds)
  THEN Aborted(g)
  ELSE LET h == IF g.st \in Cleaning THEN CleanupPhase(g, m, d, f) ELSE Progress(g, m, d, f)
       IN [h EXCEPT !.nx[d] = @ + 1,
                    !.late = IF h.st \in Cleaning \cup {"acknowledged", "aborted"} THEN @ ELSE h.st]

(* GuardDisposition.LATE_DISCARDED. *)
Late(g, f) == g.st \in Cleaning /\ f.k \notin CleanupKinds \cup {"receipt", "ack"}

(***************************************************************************)
(* The Core: outbound lane, writer, reader and the turn itself.            *)
(***************************************************************************)
NoDraft == [f |-> Control("none", "-"), pri |-> FALSE, mine |-> FALSE]
Quiet == [d |-> NoDraft, before |-> NewGuard, inbound |-> <<>>, pre |-> NewGuard,
          wired |-> FALSE, on |-> TRUE, seq |-> 0]
Rest(n) == [Quiet EXCEPT !.seq = n]
Sending == writer.d # NoDraft

PttInit ==
  /\ left \in Turns /\ mode = left.mode
  /\ guards = [e \in {"core", "edge"} |-> NewGuard]
  /\ core = [pc |-> "begin", sent |-> "none", sig |-> "none", stop |-> FALSE, normal |-> TRUE,
             all |-> TRUE, fin |-> FALSE, req |-> "none", rec |-> "none", ready |-> FALSE,
             capS |-> FALSE, capE |-> FALSE, submitted |-> FALSE, fail |-> "none",
             ok |-> TRUE, acked |-> FALSE, reads |-> TRUE, closed |-> FALSE, out |-> "none"]
  /\ lane = [pri |-> <<>>, norm |-> <<>>, beat |-> FALSE, open |-> TRUE]
  /\ writer = Quiet
  /\ edge = [pc |-> "open", sent |-> "none", src |-> "none", why |-> "completed",
             opened |-> FALSE, started |-> FALSE, submitted |-> FALSE,
             play |-> "none", co |-> "none", tsent |-> "none", done |-> FALSE, joined |-> FALSE,
             ack |-> "none", poisoned |-> FALSE, mute |-> FALSE, tried |-> FALSE,
             canWrite |-> TRUE, reads |-> TRUE, closed |-> FALSE, final |-> "none"]
  /\ eout = [term |-> <<>>, norm |-> <<>>, now |-> <<>>, seq |-> 0]
  /\ c2e = <<>> /\ e2c = <<>> /\ lost = FALSE

Fault == left.faults > 0 /\ left' = [left EXCEPT !.faults = @ - 1]
Hard == {"peer", "adapter", "poisoned", "writer", "clock"}

(* _begin_bridge_close_once and _close_bridge_once: the first caller closes, a *)
(* later one finds the close begun.                                           *)
BridgeCloseBegun(c) == [c EXCEPT !.closed = TRUE]

(* _set_signal: output closes, a hard stop also begins closing the bridge. *)
Signalled(c, s) ==
  [(IF s \in Hard THEN BridgeCloseBegun(c) ELSE c) EXCEPT
            !.normal = FALSE,
            !.all = @ /\ s \notin Hard,
            !.sig = IF \/ @ = "none" \/ s = "poisoned" \/ (@ = "cleanup" /\ s \in Hard)
                    THEN s ELSE @,
            !.stop = TRUE]

(* A draft of the turn that is dropped tells its waiter so. *)
Rejected(c, mine) == IF mine THEN [c EXCEPT !.sent = "rejected"] ELSE c
DropsMine(l, poison) ==
  \/ \E i \in DOMAIN l.norm : l.norm[i].mine
  \/ poison /\ \E i \in DOMAIN l.pri : l.pri[i].mine
Shut(l, poison) == [pri |-> IF poison THEN <<>> ELSE l.pri, norm |-> <<>>,
                    beat |-> FALSE, open |-> FALSE]

SetSignal(c, s) ==
  /\ core' = Rejected(Signalled(c, s), DropsMine(lane, s \in Hard))
  /\ lane' = Shut(lane, s \in Hard)

LatchRequested(c, o) == IF c.req = "none" THEN [c EXCEPT !.req = o] ELSE c

(* A failure of the turn, with the reason it will send; its events are done. *)
Failed(r) == core' = [core EXCEPT !.pc = "failed", !.fail = r, !.ready = FALSE, !.capS = FALSE,
                                 !.capE = FALSE, !.submitted = FALSE]

PutNormal(k, pc) ==
  /\ lane' = IF k = "none" THEN lane
             ELSE [lane EXCEPT !.norm = Append(@, [f |-> Control(k, "-"), pri |-> FALSE, mine |-> TRUE])]
  /\ core' = [core EXCEPT !.pc = pc, !.sent = IF k = "none" THEN "none" ELSE "wait",
                          !.submitted = @ \/ k = "submit"]

CoreStays == UNCHANGED <<mode, guards, writer, edge, eout, wire, left>>

(* Once what the turn waits for has happened: the frame it then sends, if *)
(* any, and where it waits next.                                          *)
Proceeds ==
  LET sent == core.sent = "sent"
  IN CASE core.pc = "begin" -> <<"open", "opening">>
       [] core.pc = "opening" /\ sent -> <<"none", "handshake">>
       [] core.pc = "handshake" /\ core.ready ->
            <<"none", IF mode = "terminal" THEN "keys" ELSE "local">>
       [] core.pc = "starting" /\ sent -> <<"none", "arming">>
       [] core.pc = "arming" /\ core.capS ->
            <<"none", IF core.submitted THEN "closing" ELSE "capturing">>
       [] core.pc = "submitting" /\ sent -> <<"none", IF core.capS THEN "closing" ELSE "arming">>
       [] core.pc \in {"closing", "local"} /\ core.capE -> <<"none", "provider">>
       [] core.pc = "pstarting" /\ sent -> <<"pcm", "pcming">>
       [] core.pc = "pcming" /\ sent -> <<"pend", "pending">>
       [] core.pc = "pending" /\ sent -> <<"none", "receipt">>
       [] OTHER -> <<"none", "no">>

RunTurnProceeds ==
  /\ Proceeds[2] # "no" /\ ~core.stop
  /\ PutNormal(Proceeds[1], Proceeds[2])
  /\ CoreStays

(* Keys of the terminal: start, submit and cancel. *)
TerminalCapture(key) ==
  /\ core.pc \in {"keys", "arming", "capturing"} /\ ~core.stop
  /\ CASE key = "cancel" ->
            /\ core' = LET c == LatchRequested(core, "cancelled")
                        IN [c EXCEPT !.pc = "failed", !.fail = "cancelled", !.ready = FALSE,
                                     !.capS = FALSE, !.submitted = FALSE]
            /\ UNCHANGED lane
       [] key = "start" /\ core.pc = "keys" -> PutNormal("start", "starting")
       [] key = "submit" /\ core.pc # "keys" /\ ~core.submitted ->
            PutNormal("submit", "submitting")
       [] OTHER -> Failed("failed") /\ UNCHANGED lane
  /\ CoreStays

(* After the capture one more key is read: cancel, or a key out of place. *)
MonitorTerminalCancel(key) ==
  /\ mode = "terminal" /\ ~core.fin /\ core.req = "none"
  /\ core.pc \in {"provider", "pstarting", "pcming", "pending", "receipt"}
  /\ SetSignal(LatchRequested(core, IF key = "cancel" THEN "cancelled" ELSE "failed"), "cleanup")
  /\ CoreStays

Turning == {"begin", "opening", "handshake", "keys", "starting", "arming", "submitting",
            "capturing", "closing", "local", "provider", "pstarting", "pcming", "pending",
            "receipt", "acking"}

CollectPlayback ==
  /\ core.pc = "provider" /\ ~core.stop
  /\ PutNormal("pstart", "pstarting")
  /\ CoreStays

(* The provider's outcome when it fails. *)
ProviderFails ==
  /\ core.pc = "provider" /\ ~core.stop /\ Failed("failed") /\ UNCHANGED lane /\ CoreStays

Overdue == core.pc \in Turning \ {"begin", "provider"}

WaitOperationTimesOut ==
  /\ Overdue /\ ~core.stop /\ Failed("failed") /\ UNCHANGED lane /\ CoreStays

AdmissionClosed ==
  /\ core.sent = "rejected" /\ Overdue /\ core.pc \notin {"pstarting", "pcming", "pending"}
  /\ Failed("failed") /\ UNCHANGED lane /\ CoreStays

RaiseInterrupt ==
  /\ core.stop /\ core.pc \in Turning
  /\ Failed(CASE core.sig = "cleanup" -> core.req
              [] core.sig = "poisoned" -> "poison"
              [] OTHER -> "failed")
  /\ UNCHANGED lane /\ CoreStays

(* The lane closed just before a control was queued. *)
QueueClosed ==
  /\ core.stop /\ core.pc \in {"begin", "keys", "arming", "capturing"}
  /\ Failed("failed") /\ UNCHANGED lane /\ CoreStays

(* The run itself is cancelled: it cleans up all the same, then raises. *)
RunCancelled ==
  /\ core.pc \in Turning /\ Fault
  /\ core' = [core EXCEPT !.pc = "failed", !.fail = "cancelled", !.out = "raised"]
  /\ UNCHANGED lane /\ UNCHANGED <<mode, guards, writer, edge, eout, wire>>

(* _prepare_final_ack, then the one acknowledgement. *)
FinalAck(pc) ==
  LET d == [f |-> Control("ack", core.rec), pri |-> TRUE, mine |-> TRUE]
  IN IF core.all
     THEN /\ lane' = [Shut(lane, FALSE) EXCEPT !.pri = Append(lane.pri, d)]
          /\ core' = [core EXCEPT !.pc = pc, !.fin = TRUE, !.normal = FALSE, !.sent = "wait"]
     ELSE /\ lane' = Shut(lane, FALSE)
          /\ core' = [core EXCEPT !.pc = pc, !.fin = TRUE, !.normal = FALSE, !.sent = "rejected"]

ReceiptArrives ==
  /\ core.pc = "receipt" /\ core.rec # "none" /\ ~core.stop
  /\ FinalAck("acking") /\ CoreStays

(* guard.finish *)
Finish(e) == guards' = [guards EXCEPT ![e].st = IF @ = "acknowledged" THEN "finished" ELSE "aborted"]

TurnFinishes ==
  /\ core.pc = "acking" /\ core.sent = "sent" /\ ~core.stop
  /\ Finish("core")
  /\ IF guards["core"].st = "acknowledged"
     THEN core' = [core EXCEPT !.pc = "teardown", !.out = guards["core"].out]
     ELSE Failed("poison")
  /\ UNCHANGED <<mode, lane, writer, edge, eout, wire, left>>

Reports(o) == IF core.out = "raised" THEN "raised" ELSE o

(* _cleanup: abort over a usable transport, else nothing more is said. *)
Cleanup(provider) ==
  /\ core.pc = "failed"
  /\ LET unusable == core.sig \in Hard \/ ~core.all \/ core.fail = "poison"
     IN IF unusable
        THEN /\ core' = [core EXCEPT !.pc = "teardown", !.all = FALSE, !.normal = FALSE,
                                     !.out = Reports("incomplete")]
             /\ lane' = Shut(lane, core.sig = "poisoned" \/ core.fail = "poison")
        ELSE /\ core' = [core EXCEPT !.pc = "aborting", !.normal = FALSE, !.sent = "wait",
                                     !.ok = provider]
             /\ lane' = [Shut(lane, FALSE) EXCEPT
                           !.pri = Append([i \in DOMAIN lane.pri |-> [lane.pri[i] EXCEPT !.mine = FALSE]],
                                          [f |-> Control("abort", core.fail), pri |-> TRUE, mine |-> TRUE])]
  /\ writer' = [writer EXCEPT !.d.mine = FALSE]
  /\ UNCHANGED <<mode, guards, edge, eout, wire, left>>

AbortObserved(overdue) ==
  /\ core.pc = "aborting" /\ (overdue \/ core.sent # "wait")
  /\ core' = [core EXCEPT !.pc = "creceipt", !.ok = @ /\ core.sent = "sent", !.sent = "none"]
  /\ lane' = [lane EXCEPT !.pri = [i \in DOMAIN @ |-> [@[i] EXCEPT !.mine = FALSE]]]
  /\ writer' = [writer EXCEPT !.d.mine = FALSE]
  /\ UNCHANGED <<mode, guards, edge, eout, wire, left>>

CleanupReceipt ==
  /\ core.pc = "creceipt" /\ core.rec # "none"
  /\ FinalAck("cacking") /\ CoreStays

CleanupOverdue ==
  /\ core.pc \in {"creceipt", "cacking"}
  /\ core' = [core EXCEPT !.pc = "teardown", !.out = Reports("incomplete")]
  /\ UNCHANGED lane /\ CoreStays

\* A plausible bug: the outcome is reported although the receipt was not complete.
CleanupFinishesUnread ==
  /\ core.pc = "cacking" /\ core.sent \in {"sent", "rejected"}
  /\ core' = [core EXCEPT !.pc = "teardown",
       !.out = Reports(IF core.sent = "rejected" THEN "incomplete"
                       ELSE IF core.req # "none" THEN core.req ELSE guards["core"].out)]
  /\ UNCHANGED <<guards, mode, lane, writer, edge, eout, wire, left>>

CleanupFinishes ==
  /\ core.pc = "cacking" /\ core.sent \in {"sent", "rejected"}
  /\ LET good == core.sent = "sent" /\ core.ok /\ core.rec = "yes"
         g == guards["core"]
     IN /\ IF good THEN Finish("core") ELSE UNCHANGED guards
        /\ core' = [core EXCEPT !.pc = "teardown",
             !.out = Reports(IF ~good \/ g.st # "acknowledged" THEN "incomplete"
                             ELSE IF core.req # "none" THEN core.req ELSE g.out)]
  /\ UNCHANGED <<mode, lane, writer, edge, eout, wire, left>>

(* The bridge is closed, the lane stopped, every task cancelled and joined. *)
Teardown(complete) ==
  /\ core.pc = "teardown"
  /\ core' = [BridgeCloseBegun(core) EXCEPT !.pc = "done", !.reads = FALSE, !.all = FALSE,
                          !.normal = FALSE, !.sent = "none", !.stop = TRUE, !.ok = TRUE,
                          !.sig = IF @ \in {"poisoned", "clock"} THEN @ ELSE "none",
                          !.fail = "none", !.req = "none", !.rec = "none",
                          !.ready = FALSE, !.capS = FALSE, !.capE = FALSE, !.submitted = FALSE,
                          !.out = IF complete THEN @ ELSE Reports("incomplete")]
  /\ lane' = Shut(lane, TRUE) /\ writer' = [Quiet EXCEPT !.on = FALSE]
  /\ guards' = [guards EXCEPT !["core"] = NewGuard] /\ e2c' = <<>>
  /\ UNCHANGED <<mode, edge, eout, c2e, lost, left>>

(* One heartbeat at a time, while the lane admits.  The first is due a second *)
(* after the run began, when the writer has long taken the opening frame.    *)
HeartbeatDue ==
  /\ lane.open /\ left.beats > 0 /\ guards["core"].nx["core"] > 0
  /\ lane' = [lane EXCEPT !.beat = TRUE] /\ left' = [left EXCEPT !.beats = @ - 1]
  /\ UNCHANGED <<mode, guards, core, writer, edge, eout, wire>>

NextDraft ==
  CASE lane.pri # <<>> -> <<Head(lane.pri), [lane EXCEPT !.pri = Tail(@)]>>
    [] lane.pri = <<>> /\ lane.beat ->
         <<[f |-> Control("beat", "-"), pri |-> FALSE, mine |-> FALSE], [lane EXCEPT !.beat = FALSE]>>
    [] lane.pri = <<>> /\ ~lane.beat /\ lane.norm # <<>> ->
         <<Head(lane.norm), [lane EXCEPT !.norm = Tail(@)]>>
    [] OTHER -> <<NoDraft, lane>>

(* The writer asks the guard before it sends, and remembers how it was. *)
WriterAdmits ==
  LET d == NextDraft[1]
      g == guards["core"]
      h == Accept(g, mode, "core", Number(d.f, writer.seq))
  IN /\ writer.on /\ ~Sending /\ d # NoDraft
     /\ \/ /\ ~(core.all /\ (d.pri \/ core.normal)) \/ (Late(g, d.f) /\ h.st # "aborted")
           /\ core' = Rejected(core, d.mine) /\ lane' = NextDraft[2]
           /\ UNCHANGED <<guards, writer>>
        \/ /\ core.all /\ (d.pri \/ core.normal) /\ h.st = "aborted"
           /\ guards' = [guards EXCEPT !["core"] = h]
           /\ writer' = [writer EXCEPT !.on = FALSE]
           /\ core' = Rejected(Signalled(core, "clock"), d.mine \/ DropsMine(NextDraft[2], TRUE))
           /\ lane' = Shut(lane, TRUE)
        \/ /\ core.all /\ (d.pri \/ core.normal) /\ h.st # "aborted" /\ ~Late(g, d.f)
           /\ guards' = [guards EXCEPT !["core"] = h]
           /\ writer' = [writer EXCEPT !.d = d, !.before = g, !.pre = g]
           /\ lane' = NextDraft[2] /\ UNCHANGED core
     /\ UNCHANGED <<mode, edge, eout, wire, left>>

(* The draft left: its waiter learns so, and an acknowledgement is final. *)
IsAck == writer.d.f.k = "ack"
Committed ==
  /\ core' = [(IF writer.d.mine THEN [core EXCEPT !.sent = "sent"] ELSE core)
              EXCEPT !.acked = @ \/ IsAck]
  /\ guards' = IF IsAck
               THEN [guards EXCEPT !["core"] = Accept(writer.pre, mode, "core",
                       Number(writer.d.f, writer.seq))]
               ELSE guards
  /\ writer' = Rest(writer.seq + 1)

(* external: the bridge puts the frame on the stream and reports it so; the *)
(* report of the acknowledgement may follow the Edge's reaction to it.      *)
BridgeSends ==
  /\ Sending /\ ~writer.wired /\ ~core.closed /\ ~lost /\ ~edge.closed
  /\ c2e' = Append(c2e, Number(writer.d.f, writer.seq))
  /\ IF IsAck THEN writer' = [writer EXCEPT !.wired = TRUE] /\ UNCHANGED <<core, guards>>
              ELSE Committed
  /\ UNCHANGED <<mode, lane, edge, eout, e2c, lost, left>>

WriterCommits ==
  /\ Sending /\ writer.wired
  /\ Committed
  /\ UNCHANGED <<mode, lane, edge, eout, wire, left>>

(* Output closed under a send that had not left: the guard goes back. *)
Replayed == FoldLeft(LAMBDA g, f : Accept(g, mode, "edge", f), writer.before, writer.inbound)
OutputLatched == IF writer.d.pri THEN ~core.all ELSE ~core.normal

WriterUncommitted ==
  /\ Sending /\ ~writer.wired /\ OutputLatched
  /\ guards' = [guards EXCEPT !["core"] = IF IsAck THEN writer.pre ELSE Replayed]
  /\ core' = Rejected(core, writer.d.mine) /\ writer' = Rest(writer.seq)
  /\ UNCHANGED <<mode, lane, edge, eout, wire, left>>

WriterFails ==
  /\ Sending /\ ~writer.wired /\ (lost \/ edge.closed \/ core.closed)
  /\ core' = Rejected(Signalled(core, "writer"), writer.d.mine \/ DropsMine(lane, TRUE))
  /\ lane' = Shut(lane, TRUE) /\ writer' = [Quiet EXCEPT !.on = FALSE]
  /\ UNCHANGED <<mode, guards, edge, eout, wire, left>>

Dispatched(c, f) ==
  CASE f.k = "receipt" -> [c EXCEPT !.rec = f.v]
    [] f.k = "ready" /\ c.pc \in Turning -> [c EXCEPT !.ready = TRUE]
    [] f.k = "cstart" /\ c.pc \in Turning -> [c EXCEPT !.capS = TRUE]
    [] f.k = "cend" /\ c.pc \in Turning -> [c EXCEPT !.capE = TRUE]
    [] OTHER -> c

(* The reader: during the final acknowledgement it asks the guard as it was. *)
CoreReads ==
  /\ core.reads /\ ~core.closed /\ e2c # <<>>
  /\ LET f == Head(e2c)
         pre == Sending /\ IsAck /\ ~core.acked
         g == IF pre THEN writer.pre ELSE guards["core"]
         h == Accept(g, mode, "edge", f)
         bad == h.st = "aborted"
     IN /\ guards' = IF pre THEN guards ELSE [guards EXCEPT !["core"] = h]
        /\ writer' = IF Sending THEN [writer EXCEPT !.pre = IF pre THEN h ELSE @,
                                                    !.inbound = Append(@, f)]
                                ELSE writer
        /\ IF bad
           THEN SetSignal([core EXCEPT !.reads = FALSE], "poisoned")
           ELSE IF ~Late(g, f) /\ f.k \in {"stop", "error"}
           THEN LET c == LatchRequested(core, IF f.k = "stop" THEN "cancelled" ELSE f.v)
                IN IF core.fin THEN core' = c /\ UNCHANGED lane ELSE SetSignal(c, "cleanup")
           ELSE /\ core' = IF Late(g, f) THEN core ELSE Dispatched(core, f)
                /\ UNCHANGED lane
  /\ e2c' = Tail(e2c)
  /\ UNCHANGED <<mode, edge, eout, c2e, lost, left>>

CoreSeesEof ==
  /\ core.reads /\ ~core.closed /\ e2c = <<>> /\ (edge.closed \/ lost)
  /\ IF core.acked THEN core' = [core EXCEPT !.reads = FALSE] /\ UNCHANGED lane
                   ELSE SetSignal([core EXCEPT !.reads = FALSE], "peer")
  /\ CoreStays

CoreNext ==
  \/ RunTurnProceeds
  \/ \E key \in {"start", "submit", "cancel"} : TerminalCapture(key) \/ MonitorTerminalCancel(key)
  \/ CollectPlayback \/ ProviderFails
  \/ WaitOperationTimesOut \/ AdmissionClosed \/ RaiseInterrupt \/ QueueClosed \/ RunCancelled
  \/ ReceiptArrives \/ TurnFinishes
  \/ \E b \in BOOLEAN : Cleanup(b) \/ AbortObserved(b) \/ Teardown(b)
  \/ CleanupReceipt \/ CleanupOverdue \/ CleanupFinishes
  \/ HeartbeatDue \/ WriterAdmits \/ BridgeSends \/ WriterCommits \/ WriterUncommitted
  \/ WriterFails \/ CoreReads \/ CoreSeesEof

(***************************************************************************)
(* The Edge: turn, playback, stop inputs, reader, writer and coordinator.  *)
(***************************************************************************)
EdgeStays == UNCHANGED <<mode, core, lane, writer, left>>

(* _latch_cleanup_locked: once; the turn and the playback are cancelled. *)
Latched(e, src, why) ==
  IF e.src # "none" THEN e
  ELSE [e EXCEPT !.src = src, !.why = why, !.pc = "cancelled", !.play = "none",
                 !.sent = "none", !.started = FALSE, !.submitted = FALSE]
KeepTerminal(e, o) == IF e.src = "none" THEN [o EXCEPT !.norm = <<>>] ELSE o

RequestCleanup(e, src, why) ==
  /\ edge' = Latched(e, src, why)
  /\ eout' = KeepTerminal(e, eout)

Alive == edge.co # "done"

(* Stop input, cancellation and the watchdogs of the turn. *)
StopInput(why) ==
  /\ Alive /\ edge.src = "none"
  /\ RequestCleanup(edge, "own", why)
  /\ UNCHANGED <<guards, wire>> /\ EdgeStays

(* The turn of the Edge: once what it waits for has happened, the frame it  *)
(* sends, if any, and where it waits next.  The capture opens on a start,   *)
(* is read, and closes once submitted with audio.                           *)
EdgeProceeds ==
  LET sent == edge.sent = "sent"
  IN CASE edge.pc = "open" /\ edge.opened -> <<"ready", "readying">>
       [] edge.pc = "readying" /\ sent -> <<"none", "start">>
       [] edge.pc = "start" /\ (edge.started \/ mode = "local") -> <<"cstart", "cstarting">>
       [] edge.pc = "cstarting" /\ sent -> <<"pcm", "pcming">>
       [] edge.pc = "pcming" /\ sent -> <<"none", "capture">>
       [] edge.pc = "capture" /\ (edge.submitted \/ mode = "local") -> <<"cend", "cending">>
       [] edge.pc = "cending" /\ sent -> <<"none", "turned">>
       [] OTHER -> <<"none", "no">>

(* _enqueue_normal: admitted while nothing cleans up and the transport takes *)
(* frames; the caller waits until its frame left.                            *)
EnqueueNormal(k) ==
  edge.src = "none" /\ edge.canWrite /\ eout' = [eout EXCEPT !.norm = Append(@, Control(k, "-"))]

CaptureProceeds ==
  /\ edge.src = "none" /\ EdgeProceeds[2] # "no"
  /\ IF EdgeProceeds[1] = "none" THEN UNCHANGED eout ELSE EnqueueNormal(EdgeProceeds[1])
  /\ edge' = [edge EXCEPT !.pc = EdgeProceeds[2],
                          !.sent = IF EdgeProceeds[1] = "none" THEN "none" ELSE "wait"]
  /\ UNCHANGED <<guards, wire>> /\ EdgeStays

(* A deadline, a failed media call, an empty submit or a refused frame. *)
CaptureFails ==
  /\ edge.src = "none" /\ edge.pc \notin {"open", "turned"}
  /\ RequestCleanup(edge, "own", "failed")
  /\ UNCHANGED <<guards, wire>> /\ EdgeStays

(* The playback loop reaches the end of the stream, or a call fails. *)
PlaybackLoop(ok) ==
  /\ edge.play # "none" /\ (ok => edge.play = "ended")
  /\ RequestCleanup(edge, "own", IF ok THEN "completed" ELSE "failed")
  /\ UNCHANGED <<guards, wire>> /\ EdgeStays

(* Every queued draft fails and nothing is sent any more. *)
Unwritable(e) ==
  /\ edge' = [Latched(e, "own", "failed") EXCEPT
                !.canWrite = FALSE, !.tsent = IF @ = "wait" THEN "failed" ELSE @]
  /\ eout' = [eout EXCEPT !.term = <<>>, !.norm = <<>>, !.now = <<>>]

EdgeWriterTakes ==
  LET d == IF eout.term # <<>> THEN Head(eout.term) ELSE Head(eout.norm)
      g == guards["edge"]
      h == Accept(g, mode, "edge", Number(d, eout.seq))
  IN /\ Alive /\ edge.canWrite /\ eout.now = <<>> /\ (eout.term # <<>> \/ eout.norm # <<>>)
     /\ guards' = IF d.raw THEN guards ELSE [guards EXCEPT !["edge"] = h]
     /\ IF ~d.raw /\ h.st = "aborted" THEN Unwritable(edge)
        ELSE /\ eout' = [eout EXCEPT !.now = <<d>>,
                           !.term = IF @ # <<>> THEN Tail(@) ELSE @,
                           !.norm = IF eout.term = <<>> THEN Tail(@) ELSE @]
             /\ UNCHANGED edge
     /\ UNCHANGED wire /\ EdgeStays

(* external: the transport takes the frame; frames to a closed Core vanish. *)
EdgeTransportSends ==
  LET d == eout.now[1]
  IN /\ Alive /\ eout.now # <<>> /\ ~lost
     /\ e2c' = IF core.closed THEN e2c ELSE Append(e2c, Number(d, eout.seq))
     /\ eout' = [eout EXCEPT !.now = <<>>, !.seq = @ + 1]
     /\ edge' = IF d.k \in {"stop", "error", "receipt"}
                THEN [edge EXCEPT !.tsent = IF @ = "wait" THEN "sent" ELSE @]
                ELSE [edge EXCEPT !.sent = IF @ = "wait" THEN "sent" ELSE @]
     /\ UNCHANGED <<guards, c2e, lost>> /\ EdgeStays

EdgeSendFails ==
  /\ Alive /\ eout.now # <<>> /\ IF lost THEN UNCHANGED left ELSE Fault
  /\ Unwritable(edge)
  /\ UNCHANGED <<mode, guards, core, lane, writer, wire>>

(* _poison_protocol *)
Poisoned ==
  /\ edge' = [Latched(edge, "own", "failed") EXCEPT
                !.poisoned = TRUE, !.reads = FALSE,
                !.mute = eout.now # <<>> \/ edge.tried \/ ~edge.canWrite,
                !.tsent = IF @ = "wait" /\ eout.now = <<>> THEN "failed" ELSE @]
  /\ eout' = [KeepTerminal(edge, eout) EXCEPT !.term = SelectSeq(@, LAMBDA d : d.raw)]

EdgeDispatched(e, f) ==
  CASE f.k = "open" -> [e EXCEPT !.opened = e.src = "none"]
    [] f.k = "start" -> [e EXCEPT !.started = e.src = "none"]
    [] f.k = "submit" -> [e EXCEPT !.submitted = e.src = "none"]
    [] f.k \in {"pstart", "pend"} /\ e.src = "none" ->
         [e EXCEPT !.play = IF f.k = "pstart" THEN "playing" ELSE "ended"]
    [] f.k = "ack" -> [e EXCEPT !.ack = f.v, !.reads = FALSE]
    [] f.k = "abort" -> Latched(e, "abort", f.v)
    [] OTHER -> e

(* A frame that arrives past the turn's or the heartbeat's deadline is dropped. *)
EdgeReads(expired) ==
  /\ Alive /\ edge.reads /\ c2e # <<>>
  /\ expired => edge.src = "none"
  /\ LET f == Head(c2e)
         g == guards["edge"]
         h == Accept(g, mode, "core", f)
     IN IF h.st = "aborted"
        THEN /\ guards' = [guards EXCEPT !["edge"] = h]
             /\ Poisoned
        ELSE /\ guards' = [guards EXCEPT !["edge"] = h]
             /\ IF expired THEN RequestCleanup(edge, "own", "failed")
                ELSE /\ edge' = IF Late(g, f) THEN edge ELSE EdgeDispatched(edge, f)
                     /\ eout' = IF f.k = "abort" THEN KeepTerminal(edge, eout) ELSE eout
  /\ c2e' = Tail(c2e)
  /\ UNCHANGED <<e2c, lost>> /\ EdgeStays

EdgeSeesEof ==
  /\ Alive /\ edge.reads /\ c2e = <<>> /\ (core.closed \/ lost)
  /\ RequestCleanup([edge EXCEPT !.reads = FALSE], "own", "failed")
  /\ UNCHANGED <<guards, wire>> /\ EdgeStays

(* _normal_cleanup_control *)
CleanupControl ==
  CASE edge.src = "abort" \/ edge.why = "completed" -> "none"
    [] edge.why = "cancelled" -> "stop"
    [] OTHER -> "error"

EnqueueTerminal(k, v, raw, co) ==
  /\ eout' = [eout EXCEPT !.term = Append(@, [k |-> k, v |-> v, raw |-> raw])]
  /\ edge' = [edge EXCEPT !.co = co, !.tsent = "wait", !.tried = @ \/ raw]

Ends(f) == edge' = [edge EXCEPT !.co = "teardown", !.final = f] /\ UNCHANGED eout

CoordinatorStarts ==
  /\ edge.src # "none" /\ edge.co = "none"
  /\ IF edge.poisoned THEN edge' = [edge EXCEPT !.co = "poison"] /\ UNCHANGED eout
     ELSE IF CleanupControl # "none" /\ edge.canWrite
     THEN EnqueueTerminal(CleanupControl, edge.why, FALSE, "control")
     ELSE edge' = [edge EXCEPT !.co = "evidence"] /\ UNCHANGED eout
  /\ UNCHANGED <<guards, wire>> /\ EdgeStays

ControlSent ==
  /\ edge.co = "control" /\ edge.tsent # "wait"
  /\ edge' = [edge EXCEPT !.co = "evidence", !.canWrite = @ /\ (edge.tsent = "sent" \/ edge.poisoned)]
  /\ UNCHANGED <<guards, eout, wire>> /\ EdgeStays

Claim(b) == IF b THEN "yes" ELSE "no"

(* The four stops were observed or not; the cancelled effects ended or not. *)
EvidenceGathered(stopped, joined) ==
  /\ edge.co = "evidence" /\ ~edge.poisoned
  /\ IF edge.canWrite /\ ~edge.tried
     THEN /\ eout' = [eout EXCEPT !.term = Append(@, Control("receipt", Claim(stopped)))]
          /\ edge' = [edge EXCEPT !.co = "receipt", !.tsent = "wait", !.tried = TRUE,
                                  !.done = stopped, !.joined = joined]
     ELSE edge' = [edge EXCEPT !.co = "teardown", !.final = "incomplete"] /\ UNCHANGED eout
  /\ UNCHANGED <<guards, wire>> /\ EdgeStays

ReceiptSent ==
  /\ edge.co = "receipt" /\ edge.tsent # "wait"
  /\ IF edge.tsent = "failed" THEN Ends("incomplete")
     ELSE IF edge.opened THEN edge' = [edge EXCEPT !.co = "ack"] /\ UNCHANGED eout
     ELSE Ends(IF edge.done /\ edge.joined /\ edge.why # "completed" THEN edge.why ELSE "incomplete")
  /\ UNCHANGED <<guards, wire>> /\ EdgeStays

AckReceived ==
  /\ edge.co = "ack" /\ edge.ack # "none" /\ ~edge.poisoned
  /\ Finish("edge")
  /\ LET g == guards["edge"]
     IN Ends(IF ~(g.st = "acknowledged" /\ edge.done /\ edge.joined /\ edge.ack = "yes")
             THEN "incomplete" ELSE IF edge.why # "completed" THEN edge.why ELSE g.out)
  /\ UNCHANGED wire /\ EdgeStays

AckOverdueOrPoisoned ==
  /\ edge.co = "ack" /\ Ends("incomplete")
  /\ UNCHANGED <<guards, wire>> /\ EdgeStays

(* After poison: an error and a receipt past the guard, if nothing was begun. *)
CoordinatePoison(stopped) ==
  /\ \/ /\ edge.co \in {"poison", "evidence"} /\ edge.poisoned
        /\ IF edge.canWrite /\ ~edge.mute /\ ~edge.tried
           THEN EnqueueTerminal("error", "failed", TRUE, "perror")
           ELSE Ends("incomplete")
     \/ /\ edge.co = "perror" /\ edge.tsent # "wait"
        /\ IF edge.tsent = "sent" /\ edge.canWrite
           THEN /\ eout' = [eout EXCEPT !.term = Append(@, [Control("receipt", Claim(stopped))
                                                            EXCEPT !.raw = TRUE])]
                /\ edge' = [edge EXCEPT !.co = "preceipt", !.tsent = "wait", !.done = stopped]
           ELSE Ends("incomplete")
     \/ /\ edge.co = "preceipt" /\ edge.tsent # "wait" /\ Ends("incomplete")
  /\ UNCHANGED <<guards, wire>> /\ EdgeStays

TeardownRuntime(ok) ==
  /\ edge.co = "teardown"
  /\ edge' = [edge EXCEPT !.co = "done", !.closed = TRUE, !.reads = FALSE, !.tsent = "none",
                          !.ack = "none", !.mute = FALSE, !.joined = FALSE, !.src = "own",
                          !.canWrite = FALSE, !.final = IF ok THEN @ ELSE "incomplete"]
  /\ eout' = [term |-> <<>>, norm |-> <<>>, now |-> <<>>, seq |-> 0]
  /\ guards' = [guards EXCEPT !["edge"] = NewGuard] /\ c2e' = <<>>
  /\ UNCHANGED <<e2c, lost>> /\ EdgeStays

EdgeNext ==
  \/ \E why \in {"cancelled", "failed"} : StopInput(why)
  \/ CaptureProceeds \/ CaptureFails
  \/ EdgeWriterTakes \/ EdgeTransportSends \/ EdgeSendFails
  \/ EdgeSeesEof \/ CoordinatorStarts \/ ControlSent \/ ReceiptSent
  \/ AckReceived \/ AckOverdueOrPoisoned
  \/ \E b \in BOOLEAN : \/ PlaybackLoop(b) \/ EdgeReads(b) \/ CoordinatePoison(b)
                        \/ TeardownRuntime(b) \/ \E j \in BOOLEAN : EvidenceGathered(b, j)

(* external: the stream between the ends breaks and what was in it is lost. *)
LinkBreaks ==
  /\ Fault /\ ~lost
  /\ lost' = TRUE /\ c2e' = <<>> /\ e2c' = <<>>
  /\ UNCHANGED <<mode, guards, core, lane, writer, edge, eout>>

PttNext == CoreNext \/ EdgeNext \/ LinkBreaks

PttSpec == PttInit /\ [][PttNext]_pttVars

(***************************************************************************)
(* Properties.                                                             *)
(***************************************************************************)
Good == {"completed", "cancelled", "failed"}

(* Frames of two ends that each follow the grammar never make a guard      *)
(* reject, however they cross: abort and stop, a submit and the capture's  *)
(* start, a heartbeat and the receipt, a control taken back before it left.*)
(* Two exceptions are the code's own: the opening frame, at an Edge whose  *)
(* cleanup began before it arrived (_LATE_CONTROL_KINDS does not hold it), *)
(* and the abort of a turn whose deadline passed in the final acknowledge- *)
(* ment, queued behind that acknowledgement.                               *)
CrossingFramesAreAccepted ==
  /\ core.sig # "poisoned"
  /\ core.sig = "clock" => core.fin
  /\ edge.poisoned => ~edge.opened

(* The Core reports an outcome other than an incomplete cleanup only when  *)
(* the Edge stopped everything, said so in its receipt, and the Core's     *)
(* acceptance is on the stream.                                            *)
CoreOutcomeIsSafe ==
  core.pc = "done" /\ core.out \in Good => edge.tried /\ edge.done /\ core.acked

(* Neither end reports a completed turn on its own: the Core does so only  *)
(* when the Edge's own reason to clean up was the end of the playback, and *)
(* the Edge only when the Core was at its final acknowledgement.           *)
CompletionIsAgreed ==
  /\ core.pc = "done" /\ core.out = "completed" => edge.why = "completed"
  /\ edge.co = "done" /\ edge.final = "completed" => core.fin

(* What either end reports at the end of a turn, the other end has done.   *)
OutcomesAreAgreed == CoreOutcomeIsSafe /\ CompletionIsAgreed

=============================================================================
