----------------------------- MODULE ReachyLink -----------------------------
(***************************************************************************)
(* The authenticated control link between the core and the Reachy edge:    *)
(* the single admission slot and handshake of ReachyWssServer, the signed  *)
(* request and response exchanges of CoreReachySession and                 *)
(* EdgeReachyConnection, the current-session pointer, and the sequence     *)
(* counters and correlation rows that both sides keep on disk              *)
(* (CoreDuplexState, EdgeDuplexState).                                     *)
(*                                                                         *)
(* Only the core sends requests: no caller of the edge's event allocator   *)
(* exists.  Connections break, both processes crash and restart, and the   *)
(* edge's store thread outlives the cancelled task that waits for it.      *)
(***************************************************************************)
EXTENDS Naturals, Sequences, FiniteSets

CONSTANTS
    Corr,          \* correlation ids, one for each exchange
    StopAll,       \* the exchanges whose purpose is reachy.stop_all.v1
    PendingLimit,  \* rows that may be pending at once in a store
    Retention,     \* terminal rows that _prune_terminal_correlations keeps
    MaxConn,       \* bound: connections the edge dials
    MaxCrash       \* bound: crashes and shutdowns

\* The instance stays below the retention limit, so that the prune that ends every
\* transaction removes nothing.
ASSUME LinkConstants ==
    /\ IsFiniteSet(Corr) /\ StopAll \subseteq Corr
    /\ PendingLimit \in Nat /\ Retention \in Nat /\ Cardinality(Corr) <= Retention
    /\ MaxConn \in Nat /\ MaxCrash \in Nat

VARIABLES
    coreTx, coreRx, coreRow,  \* durable: reachy_core_tx_sequences, devices.last_sequence, correlations
    edgeTx, edgeRx, edgeRow,  \* durable: edge_duplex_sequences, edge_duplex_correlations
    c2e, e2c,    \* frames on their way, or in the reader's socket buffer
    paired,      \* the two sockets are the ends of one open connection
    slot,        \* the admission slot is claimed
    cs,          \* the core's connection handler
    cur, withdrawn, open, draining,  \* CurrentReachySessionChannel
    stale,       \* exchanges that started in an earlier _generation
    ex, exSeq,   \* each exchange_signed call, and its sequence until the frame is sent
    pend,        \* CoreReachySession._pending
    crecv, cerr, \* the core's receive loop and the error that ended it
    degraded,    \* a disconnect effect failed, or restart_required was latched
    core,        \* the core process
    es, erecv, eerr,   \* the edge's connection, its receive loop and error
    late,        \* edge transactions whose waiting task was cancelled
    executed,    \* history: how often the edge's handler ran each request
    conns, crashes

coreStore == <<coreTx, coreRx, coreRow>>
edgeStore == <<edgeTx, edgeRx, edgeRow>>
wire == <<c2e, e2c, paired>>
channel == <<cur, withdrawn, open, draining, stale>>
exchange == <<ex, exSeq, pend>>
coreSide == <<slot, cs, crecv, cerr, degraded, core>>
edgeSide == <<es, erecv, eerr, late, executed>>
vars == <<coreStore, edgeStore, wire, channel, exchange, coreSide, edgeSide, conns, crashes>>

RowState == {"none", "pending", "completed", "abandoned"}
Frame(s, c) == [seq |-> s, corr |-> c]
Idle == [at |-> "idle"]
At(stage, f) == [at |-> stage, f |-> f]

TypeOK ==
    /\ coreTx \in Nat /\ coreRx \in Nat /\ edgeTx \in Nat /\ edgeRx \in Nat
    /\ coreRow \in [Corr -> RowState] /\ edgeRow \in [Corr -> RowState]
    /\ paired \in BOOLEAN /\ slot \in BOOLEAN /\ cur \in BOOLEAN /\ withdrawn \in BOOLEAN
    /\ open \in BOOLEAN /\ draining \in BOOLEAN /\ degraded \in BOOLEAN
    /\ cs \in {"none", "handshake", "published", "serving", "ended", "cleaning", "clearing"}
    /\ ex \in [Corr -> {"idle", "reserving", "reserved", "waiting", "woken", "abandoning",
                        "answered", "delivered", "refused", "failed", "lost"}]
    /\ exSeq \in [Corr -> Nat] /\ stale \subseteq Corr /\ pend \subseteq Corr
    /\ crecv.at \in {"idle", "checked", "accepted", "matched"}
    /\ erecv.at \in {"idle", "accepting", "handling", "replying", "sending", "completing"}
    /\ core \in {"down", "up", "draining"}
    /\ es \in {"down", "dialing", "handshake", "serving", "ended", "cleaning", "backoff", "exited"}
    /\ executed \in [Corr -> Nat] /\ conns \in 0..MaxConn /\ crashes \in 0..MaxCrash

Init ==
    /\ coreTx = 0 /\ coreRx = 0 /\ edgeTx = 0 /\ edgeRx = 0
    /\ coreRow = [c \in Corr |-> "none"] /\ edgeRow = [c \in Corr |-> "none"]
    /\ c2e = <<>> /\ e2c = <<>> /\ paired = FALSE
    /\ slot = FALSE /\ cs = "none" /\ crecv = Idle /\ cerr = "none" /\ degraded = FALSE
    /\ cur = FALSE /\ stale = {} /\ withdrawn = TRUE /\ open = TRUE /\ draining = FALSE
    /\ ex = [c \in Corr |-> "idle"] /\ exSeq = [c \in Corr |-> 0]
    /\ pend = {} /\ core = "down"
    /\ es = "down" /\ erecv = Idle /\ eerr = "none" /\ late = {}
    /\ executed = [c \in Corr |-> 0] /\ conns = 0 /\ crashes = 0

----------------------------------------------------------------------------
(* The two stores *)

Pending(row) == {c \in Corr : row[c] = "pending"}
Abandoned(row) == [c \in Corr |-> IF row[c] = "pending" THEN "abandoned" ELSE row[c]]

\* The last number a counter may hold, JCS_MAX_SAFE_INTEGER, is out of reach of the bounds.
CoreNewRequest(c) == coreRow[c] = "none" /\ Cardinality(Pending(coreRow)) < PendingLimit

EdgeNewRequest(c) == edgeRow[c] = "none" /\ Cardinality(Pending(edgeRow)) < PendingLimit

\* accept_inbound of the core, for a response.
CoreAccepts(f) == f.seq = coreRx + 1 /\ coreRow[f.corr] = "pending"

\* accept_inbound of the edge, for a request.
EdgeAccepts(f) == f.seq = edgeRx + 1 /\ EdgeNewRequest(f.corr)

Refusal(f, last) ==
    CASE f.seq <= last -> "replayed" [] f.seq > last + 1 -> "sequence_gap" [] OTHER -> "correlation"

----------------------------------------------------------------------------
(* CurrentReachySessionChannel *)

Live(c) == ex[c] \in {"reserving", "reserved", "waiting", "woken", "abandoning", "answered"}

\* _generation += 1: every call that is under way belongs to the past.
NewGeneration == stale' = stale \cup {c \in Corr : Live(c)}

\* exchange_signed asks this before the exchange and again with its result.
MayUse(c) ==
    /\ cur
    /\ draining => c \in StopAll
    /\ withdrawn => draining /\ c \in StopAll

OpenPublicationGeneration ==
    /\ cur' = FALSE /\ withdrawn' = TRUE /\ open' = TRUE /\ draining' = FALSE /\ NewGeneration

BeginShutdownDrain ==
    /\ core = "up" /\ core' = "draining" /\ crashes < MaxCrash /\ crashes' = crashes + 1
    /\ open' = FALSE /\ draining' = TRUE /\ withdrawn' = TRUE
    /\ UNCHANGED <<cur, stale, coreStore, edgeStore, wire, exchange, edgeSide, conns,
                   slot, cs, crecv, cerr, degraded>>

WithdrawAuthority ==
    /\ cur' = FALSE /\ withdrawn' = TRUE /\ open' = FALSE /\ draining' = FALSE /\ NewGeneration

----------------------------------------------------------------------------
(* The core's exchanges.  An answer is looked at again when it comes back:  *)
(* the session may have been cleared, or the drain begun, in between.       *)

ExchangeStart(c) ==
    /\ ex[c] = "idle" /\ core # "down" /\ MayUse(c)
    /\ ex' = [ex EXCEPT ![c] = "reserving"]
    /\ UNCHANGED <<exSeq, pend, coreStore, edgeStore, wire, channel, coreSide, edgeSide, conns, crashes>>

\* A plausible bug: the number is used without being committed.
ReserveOutboundUnsaved(c) ==
    /\ ex[c] = "reserving" /\ CoreNewRequest(c)
    /\ coreRow' = [coreRow EXCEPT ![c] = "pending"] /\ UNCHANGED coreTx
    /\ ex' = [ex EXCEPT ![c] = "reserved"] /\ exSeq' = [exSeq EXCEPT ![c] = coreTx + 1]
    /\ UNCHANGED <<coreRx, pend, edgeStore, wire, channel, coreSide, edgeSide, conns, crashes>>

\* reserve_outbound: the number and the pending row are committed before the frame exists.
ReserveOutbound(c) ==
    /\ ex[c] = "reserving"
    /\ IF CoreNewRequest(c)
       THEN /\ coreTx' = coreTx + 1 /\ coreRow' = [coreRow EXCEPT ![c] = "pending"]
            /\ ex' = [ex EXCEPT ![c] = "reserved"] /\ exSeq' = [exSeq EXCEPT ![c] = coreTx + 1]
       ELSE /\ ex' = [ex EXCEPT ![c] = "failed"] /\ UNCHANGED <<coreTx, coreRow, exSeq>>
    /\ UNCHANGED <<coreRx, pend, edgeStore, wire, channel, coreSide, edgeSide, conns, crashes>>

\* Frames leave in the order of their numbers.  A socket that is no longer connected
\* raises, or takes a frame that nobody will read.
SendRequest(c) ==
    /\ ex[c] = "reserved" /\ \A d \in Corr : ex[d] = "reserved" => exSeq[c] <= exSeq[d]
    /\ pend' = pend \cup {c} /\ exSeq' = [exSeq EXCEPT ![c] = 0]
    /\ \/ /\ ex' = [ex EXCEPT ![c] = "waiting"]
          /\ c2e' = IF paired THEN Append(c2e, Frame(exSeq[c], c)) ELSE c2e
       \/ ~paired /\ ex' = [ex EXCEPT ![c] = "abandoning"] /\ UNCHANGED c2e
    /\ UNCHANGED <<e2c, paired, coreStore, edgeStore, channel, coreSide, edgeSide, conns, crashes>>

\* A plausible bug: an exchange has no timeout of its own.
ExchangeNeverTimesOut(c) == FALSE

\* The request timeout, or a cancellation of the caller.
ExchangeTimesOut(c) ==
    /\ ex[c] = "waiting" /\ ex' = [ex EXCEPT ![c] = "abandoning"]
    /\ UNCHANGED <<exSeq, pend, coreStore, edgeStore, wire, channel, coreSide, edgeSide, conns, crashes>>

\* A plausible bug: a store that does not answer is ignored.
AbandonCorrelationAtMost(c) ==
    /\ ex[c] \in {"woken", "abandoning"}
    /\ ex' = [ex EXCEPT ![c] = "failed"] /\ pend' = pend \ {c} /\ stale' = stale \ {c}
    /\ coreRow' \in {coreRow, [coreRow EXCEPT ![c] = "abandoned"]} /\ UNCHANGED degraded
    /\ UNCHANGED <<exSeq, coreTx, coreRx, edgeStore, wire, cur, withdrawn, open, draining, slot, cs, crecv, cerr, core,
                   edgeSide, conns, crashes>>

\* _abandon_exchange_correlation: a row that is no longer pending, or a store that does
\* not answer in time, latches restart_required.
AbandonCorrelation(c) ==
    /\ ex[c] \in {"woken", "abandoning"}
    /\ ex' = [ex EXCEPT ![c] = "failed"] /\ pend' = pend \ {c} /\ stale' = stale \ {c}
    /\ \/ /\ coreRow[c] = "pending"
          /\ coreRow' = [coreRow EXCEPT ![c] = "abandoned"] /\ UNCHANGED degraded
       \/ degraded' = TRUE /\ UNCHANGED coreRow
    /\ UNCHANGED <<exSeq, coreTx, coreRx, edgeStore, wire, cur, withdrawn, open, draining, slot, cs, crecv, cerr, core,
                   edgeSide, conns, crashes>>

ExchangeReturns(c) ==
    /\ ex[c] = "answered"
    /\ ex' = [ex EXCEPT ![c] = IF MayUse(c) /\ c \notin stale THEN "delivered" ELSE "refused"]
    /\ stale' = stale \ {c}
    /\ UNCHANGED <<exSeq, pend, coreStore, edgeStore, wire, cur, withdrawn, open, draining, coreSide, edgeSide, conns, crashes>>

----------------------------------------------------------------------------
(* The core's receive loop: four awaits for one response, each of which     *)
(* another task may pass.                                                   *)

CoreLoopFails(why) == crecv' = Idle /\ cerr' = why /\ cs' = "ended"

RequireLegalInbound ==
    /\ cs = "serving" /\ crecv = Idle /\ e2c # <<>> /\ e2c' = Tail(e2c)
    /\ LET f == Head(e2c)
       IN IF f.corr \in pend THEN crecv' = At("checked", f) /\ UNCHANGED <<cs, cerr>>
                             ELSE CoreLoopFails("correlation")
    /\ UNCHANGED <<c2e, paired, coreStore, edgeStore, channel, exchange, slot, degraded, core,
                   edgeSide, conns, crashes>>

CoreAcceptInbound ==
    /\ cs = "serving" /\ crecv.at = "checked"
    /\ IF CoreAccepts(crecv.f)
       THEN coreRx' = crecv.f.seq /\ crecv' = At("accepted", crecv.f) /\ UNCHANGED <<cs, cerr>>
       ELSE CoreLoopFails(Refusal(crecv.f, coreRx)) /\ UNCHANGED coreRx
    /\ UNCHANGED <<coreTx, coreRow, wire, edgeStore, channel, exchange, slot, degraded, core,
                   edgeSide, conns, crashes>>

AcceptResponse ==
    /\ cs = "serving" /\ crecv.at = "accepted"
    /\ IF crecv.f.corr \in pend /\ coreRow[crecv.f.corr] = "pending"
       THEN crecv' = At("matched", crecv.f) /\ UNCHANGED <<cs, cerr>>
       ELSE CoreLoopFails("correlation")
    /\ UNCHANGED <<coreStore, wire, edgeStore, channel, exchange, slot, degraded, core,
                   edgeSide, conns, crashes>>

\* complete, then the future is resolved unless it has failed in between.
CompleteResponse ==
    /\ cs = "serving" /\ crecv.at = "matched"
    /\ LET c == crecv.f.corr
       IN IF coreRow[c] = "pending"
          THEN /\ coreRow' = [coreRow EXCEPT ![c] = "completed"]
               /\ crecv' = Idle /\ UNCHANGED <<cs, cerr>>
               /\ IF ex[c] = "waiting"
                  THEN ex' = [ex EXCEPT ![c] = "answered"] /\ pend' = pend \ {c}
                  ELSE UNCHANGED <<ex, pend>>
          ELSE CoreLoopFails("correlation") /\ UNCHANGED <<coreRow, ex, pend>>
    /\ UNCHANGED <<coreTx, coreRx, exSeq, wire, edgeStore, channel, slot, degraded, core,
                   edgeSide, conns, crashes>>

----------------------------------------------------------------------------
(* The core's connection handler: ReachyWssServer.accept, then              *)
(* CoreReachySession.serve and its disconnect cleanup, then clear.          *)

\* The route, certificate and device checks of a claimed socket lead to the handshake.
Admit ==
    /\ core # "down" /\ es = "dialing" /\ ~slot
    /\ slot' = TRUE /\ cs' = "handshake" /\ es' = "handshake" /\ cerr' = "none" /\ eerr' = "none"
    /\ paired' = TRUE /\ c2e' = <<>> /\ e2c' = <<>>
    /\ UNCHANGED <<coreStore, edgeStore, channel, exchange, crecv, degraded, core, erecv, late, executed,
                   conns, crashes>>

\* A second socket is closed with 1013.  The edge sees a closed socket before its setup
\* is complete, which is no transient error, so its supervisor ends after the cleanup.
RejectBusy ==
    /\ core # "down" /\ es = "dialing" /\ slot
    /\ es' = "ended" /\ eerr' = "closed_in_setup"
    /\ UNCHANGED <<coreStore, edgeStore, wire, channel, exchange, coreSide, erecv, late, executed,
                   conns, crashes>>

\* _open_application_session: challenge, proof, accepted, publish.  Any failure closes the
\* socket, latches the reason, tombstones pending rows and releases the slot.
HandshakeFails ==
    /\ cs = "handshake"
    /\ cs' = "none" /\ slot' = FALSE /\ degraded' = TRUE /\ paired' = FALSE /\ e2c' = <<>>
    /\ coreRow' = Abandoned(coreRow)
    /\ UNCHANGED <<coreTx, coreRx, edgeStore, c2e, channel, exchange, crecv, cerr, core, edgeSide,
                   conns, crashes>>

\* publish refuses while the channel is closed or holds another session.
Publish ==
    /\ cs = "handshake" /\ open /\ ~draining /\ ~cur
    /\ cs' = "published" /\ cur' = TRUE /\ withdrawn' = FALSE
    /\ UNCHANGED <<stale, open, draining, coreStore, edgeStore, wire, exchange, slot, crecv, cerr,
                   degraded, core, edgeSide, conns, crashes>>

Serve ==
    /\ cs = "published" /\ cs' = "serving"
    /\ UNCHANGED <<coreStore, edgeStore, wire, channel, exchange, slot, crecv, cerr, degraded, core,
                   edgeSide, conns, crashes>>

\* The socket ends or two heartbeats are missed: the receive loop is cancelled where it
\* stands, its transaction committed or rolled back.
CoreConnectionLost ==
    /\ cs = "serving" /\ (~paired \/ core = "draining")
    /\ CoreLoopFails("closed")
    /\ UNCHANGED <<coreStore, edgeStore, wire, channel, exchange, slot, degraded, core, edgeSide,
                   conns, crashes>>

\* _prepare_disconnect_synchronously: every open exchange fails at once and is woken
\* before the cleanup task that it spawns runs.
PrepareDisconnect ==
    /\ cs = "ended" /\ cs' = "cleaning"
    /\ ex' = [c \in Corr |-> IF c \in pend /\ ex[c] = "waiting" THEN "woken" ELSE ex[c]]
    /\ pend' = {}
    /\ paired' = FALSE /\ e2c' = <<>>
    /\ UNCHANGED <<exSeq, c2e, coreStore, edgeStore, channel, slot, crecv, cerr, degraded, core,
                   edgeSide, conns, crashes>>

\* _disconnect_cleanup_once: the tombstone leg commits, fails or times out.
TombstoneConnection ==
    /\ cs = "cleaning" /\ \A c \in Corr : ex[c] # "woken"
    /\ cs' = "clearing"
    /\ \/ coreRow' = Abandoned(coreRow) /\ UNCHANGED degraded
       \/ degraded' = TRUE /\ UNCHANGED coreRow
    /\ UNCHANGED <<coreTx, coreRx, edgeStore, wire, channel, exchange, slot, crecv, cerr, core,
                   edgeSide, conns, crashes>>

\* clear, then the slot is released.
ClearSession ==
    /\ cs = "clearing" /\ cs' = "none" /\ slot' = FALSE /\ cerr' = "none"
    /\ IF cur THEN cur' = FALSE /\ withdrawn' = TRUE /\ NewGeneration
              ELSE UNCHANGED <<cur, withdrawn, stale>>
    /\ UNCHANGED <<open, draining, coreStore, edgeStore, wire, exchange, crecv, degraded, core,
                   edgeSide, conns, crashes>>

----------------------------------------------------------------------------
(* The core process *)

\* ReachyWssServer.start: nothing is accepted before the rows that the last process left
\* pending are tombstoned.
CoreStart ==
    /\ core = "down" /\ core' = "up"
    /\ coreRow' = Abandoned(coreRow) /\ OpenPublicationGeneration
    /\ degraded' = FALSE
    /\ UNCHANGED <<coreTx, coreRx, edgeStore, wire, exchange, slot, cs, crecv, cerr, edgeSide, conns, crashes>>

\* close, once the session it ended has been cleared, then withdraw_authority.
CoreStops ==
    /\ core = "draining" /\ cs = "none" /\ \A c \in Corr : ~Live(c)
    /\ core' = "down" /\ WithdrawAuthority
    /\ UNCHANGED <<coreStore, edgeStore, wire, exchange, slot, cs, crecv, cerr, degraded, edgeSide,
                   conns, crashes>>

CoreCrash ==
    /\ core # "down" /\ crashes < MaxCrash /\ crashes' = crashes + 1
    /\ core' = "down" /\ cs' = "none" /\ slot' = FALSE /\ crecv' = Idle /\ cerr' = "none"
    /\ cur' = FALSE /\ withdrawn' = TRUE /\ open' = TRUE /\ draining' = FALSE /\ stale' = {}
    /\ ex' = [c \in Corr |-> IF ex[c] \in {"idle", "delivered", "refused", "failed"} THEN ex[c] ELSE "lost"]
    /\ exSeq' = [c \in Corr |-> 0] /\ pend' = {} /\ paired' = FALSE /\ e2c' = <<>>
    /\ UNCHANGED <<coreStore, edgeStore, c2e, degraded, edgeSide, conns>>

----------------------------------------------------------------------------
(* The edge: ReachyWssClient.run and EdgeReachyConnection.  A transaction   *)
(* runs in a thread: when its task is cancelled the store's lock is         *)
(* released and the thread goes on (late).                                  *)

EdgeDials ==
    /\ es \in {"down", "backoff"} /\ conns < MaxConn /\ conns' = conns + 1
    /\ es' = "dialing" /\ eerr' = "none"
    /\ UNCHANGED <<coreStore, edgeStore, wire, channel, exchange, coreSide, erecv, late, executed, crashes>>

EdgeRefused ==
    /\ es = "dialing" /\ core = "down" /\ es' = "ended" /\ eerr' = "closed"
    /\ UNCHANGED <<coreStore, edgeStore, wire, channel, exchange, coreSide, erecv, late, executed,
                   conns, crashes>>

\* The accepted message has arrived, so the core is past its last handshake send.
EdgeConnected ==
    /\ es = "handshake" /\ paired /\ cs # "none" /\ es' = "serving"
    /\ UNCHANGED <<coreStore, edgeStore, wire, channel, exchange, coreSide, erecv, eerr, late, executed,
                   conns, crashes>>

EdgeHandshakeFails ==
    /\ es = "handshake" /\ ~paired /\ es' = "ended" /\ eerr' = "closed_in_setup"
    /\ UNCHANGED <<coreStore, edgeStore, wire, channel, exchange, coreSide, erecv, late, executed,
                   conns, crashes>>

EdgeLoopFails(why) == es' = "ended" /\ eerr' = why /\ erecv' = Idle

EdgeReads ==
    /\ es = "serving" /\ erecv = Idle /\ c2e # <<>>
    /\ erecv' = At("accepting", Head(c2e)) /\ c2e' = Tail(c2e)
    /\ UNCHANGED <<e2c, paired, coreStore, edgeStore, channel, exchange, coreSide, es, eerr, late, executed,
                   conns, crashes>>

EdgeAcceptInbound ==
    /\ es = "serving" /\ erecv.at = "accepting"
    /\ LET f == erecv.f
       IN IF EdgeAccepts(f)
          THEN /\ edgeRx' = f.seq /\ edgeRow' = [edgeRow EXCEPT ![f.corr] = "pending"]
               /\ erecv' = At("handling", f) /\ UNCHANGED <<es, eerr>>
          ELSE EdgeLoopFails(Refusal(f, edgeRx)) /\ UNCHANGED <<edgeRx, edgeRow>>
    /\ UNCHANGED <<edgeTx, coreStore, wire, channel, exchange, coreSide, late, executed, conns, crashes>>

\* handler.control: a refused or failed command is an answer too, an exception is not.
EdgeHandles ==
    /\ es = "serving" /\ erecv.at = "handling"
    /\ \/ /\ executed' = [executed EXCEPT ![erecv.f.corr] = @ + 1]
          /\ erecv' = At("replying", erecv.f) /\ UNCHANGED <<es, eerr>>
       \/ EdgeLoopFails("handler") /\ UNCHANGED executed
    /\ UNCHANGED <<coreStore, edgeStore, wire, channel, exchange, coreSide, late, conns, crashes>>

\* reserve_outbound for the response needs the request's row to be pending still.
EdgeReserveReply ==
    /\ es = "serving" /\ erecv.at = "replying"
    /\ IF edgeRow[erecv.f.corr] = "pending"
       THEN /\ edgeTx' = edgeTx + 1 /\ erecv' = At("sending", Frame(edgeTx + 1, erecv.f.corr))
            /\ UNCHANGED <<es, eerr>>
       ELSE EdgeLoopFails("correlation") /\ UNCHANGED edgeTx
    /\ UNCHANGED <<edgeRx, edgeRow, coreStore, wire, channel, exchange, coreSide, late, executed, conns, crashes>>

EdgeSendReply ==
    /\ es = "serving" /\ erecv.at = "sending"
    /\ IF paired THEN /\ e2c' = Append(e2c, erecv.f) /\ erecv' = At("completing", erecv.f)
                      /\ UNCHANGED <<es, eerr>>
                 ELSE EdgeLoopFails("closed") /\ UNCHANGED e2c
    /\ UNCHANGED <<c2e, paired, coreStore, edgeStore, channel, exchange, coreSide, late, executed, conns, crashes>>

EdgeCompletes ==
    /\ es = "serving" /\ erecv.at = "completing"
    /\ IF edgeRow[erecv.f.corr] = "pending"
       THEN /\ edgeRow' = [edgeRow EXCEPT ![erecv.f.corr] = "completed"]
            /\ erecv' = Idle /\ UNCHANGED <<es, eerr>>
       ELSE EdgeLoopFails("correlation") /\ UNCHANGED edgeRow
    /\ UNCHANGED <<edgeTx, edgeRx, coreStore, wire, channel, exchange, coreSide, late, executed, conns, crashes>>

\* The connection ends under the receive loop.  A transaction that its thread has not
\* finished stays behind.
EdgeConnectionLost ==
    /\ es = "serving" /\ ~paired
    /\ EdgeLoopFails("closed")
    /\ late' = IF erecv.at \in {"accepting", "replying", "completing"} THEN late \cup {erecv} ELSE late
    /\ UNCHANGED <<coreStore, edgeStore, wire, channel, exchange, coreSide, executed, conns, crashes>>

LateCommit ==
    \E t \in late :
        /\ late' = late \ {t}
        /\ CASE t.at = "accepting" /\ EdgeAccepts(t.f) ->
                  edgeRx' = t.f.seq /\ edgeRow' = [edgeRow EXCEPT ![t.f.corr] = "pending"] /\ UNCHANGED edgeTx
             [] t.at = "replying" /\ edgeRow[t.f.corr] = "pending" ->
                  edgeTx' = edgeTx + 1 /\ UNCHANGED <<edgeRx, edgeRow>>
             [] t.at = "completing" /\ edgeRow[t.f.corr] = "pending" ->
                  edgeRow' = [edgeRow EXCEPT ![t.f.corr] = "completed"] /\ UNCHANGED <<edgeTx, edgeRx>>
             [] OTHER -> UNCHANGED edgeStore
        /\ UNCHANGED <<coreStore, wire, channel, exchange, coreSide, es, erecv, eerr, executed, conns, crashes>>

\* The supervisor closes its socket, latches ERROR_SAFE and starts the cleanup.
EdgeCloses ==
    /\ es = "ended" /\ es' = "cleaning" /\ paired' = FALSE /\ c2e' = <<>>
    /\ UNCHANGED <<e2c, coreStore, edgeStore, channel, exchange, coreSide, erecv, eerr, late, executed,
                   conns, crashes>>

\* The tombstone leg commits, fails or times out; then the error decides: a connection
\* that was set up, and a plain transport error, are dialled again after the delay.
EdgeCleansUp ==
    /\ es = "cleaning"
    /\ edgeRow' \in {edgeRow, Abandoned(edgeRow)}
    /\ es' = IF eerr = "closed_in_setup" THEN "exited" ELSE "backoff"
    /\ eerr' = "none"
    /\ UNCHANGED <<edgeTx, edgeRx, coreStore, wire, channel, exchange, coreSide, erecv, late, executed,
                   conns, crashes>>

\* The process is started again.  Unlike the core's server, it tombstones nothing first.
EdgeRestarts ==
    /\ es = "exited" /\ es' = "down"
    /\ UNCHANGED <<coreStore, edgeStore, wire, channel, exchange, coreSide, erecv, eerr, late, executed,
                   conns, crashes>>

EdgeCrash ==
    /\ es # "exited" /\ crashes < MaxCrash /\ crashes' = crashes + 1
    /\ es' = "exited" /\ erecv' = Idle /\ eerr' = "none" /\ late' = {} /\ c2e' = <<>>
    /\ paired' = FALSE
    /\ UNCHANGED <<e2c, coreStore, edgeStore, channel, exchange, coreSide, executed, conns>>

\* The network drops the connection with what is on its way.
Sever ==
    /\ paired /\ paired' = FALSE /\ c2e' = <<>> /\ e2c' = <<>>
    /\ UNCHANGED <<coreStore, edgeStore, channel, exchange, coreSide, edgeSide, conns, crashes>>

----------------------------------------------------------------------------

CoreNext ==
    \/ \E c \in Corr : \/ ExchangeStart(c) \/ ReserveOutbound(c) \/ SendRequest(c) \/ ExchangeTimesOut(c)
                       \/ AbandonCorrelation(c) \/ ExchangeReturns(c)
    \/ RequireLegalInbound \/ CoreAcceptInbound \/ AcceptResponse \/ CompleteResponse
    \/ Admit \/ RejectBusy \/ HandshakeFails \/ Publish \/ Serve \/ CoreConnectionLost
    \/ PrepareDisconnect \/ TombstoneConnection \/ ClearSession
    \/ CoreStart \/ BeginShutdownDrain \/ CoreStops \/ CoreCrash

EdgeNext ==
    \/ EdgeDials \/ EdgeRefused \/ EdgeConnected \/ EdgeHandshakeFails \/ EdgeReads \/ EdgeAcceptInbound
    \/ EdgeHandles \/ EdgeReserveReply \/ EdgeSendReply \/ EdgeCompletes \/ EdgeConnectionLost \/ LateCommit
    \/ EdgeCloses \/ EdgeCleansUp \/ EdgeRestarts \/ EdgeCrash

Next == CoreNext \/ EdgeNext \/ Sever

Spec == Init /\ [][Next]_vars

\* An exchange that has begun is carried on by its task: the store answers, the socket
\* takes the frame or raises, and the request timeout fires.
ExchangeFairness ==
    \A c \in Corr : WF_vars(\/ ReserveOutbound(c) \/ SendRequest(c) \/ ExchangeTimesOut(c)
                            \/ AbandonCorrelation(c) \/ ExchangeReturns(c))

\* The handler of an admitted socket runs to its end once the connection is lost.
HandlerFairness ==
    /\ WF_vars(HandshakeFails \/ Publish) /\ WF_vars(Serve) /\ WF_vars(CoreConnectionLost)
    /\ WF_vars(PrepareDisconnect) /\ WF_vars(TombstoneConnection) /\ WF_vars(ClearSession)

FairSpec == Spec /\ ExchangeFairness /\ HandlerFairness

----------------------------------------------------------------------------
(* Properties *)

\* A receiver is never ahead of its sender, also across crashes: the counters on disk
\* are advanced before a frame is sent and never run backwards.
ReceiverNeverAhead ==
    /\ edgeRx <= coreTx /\ coreRx <= edgeTx
    /\ \A i \in DOMAIN c2e : c2e[i].seq <= coreTx
    /\ \A i \in DOMAIN e2c : e2c[i].seq <= edgeTx

\* The body that exchange_signed returns answers that very request: the edge ran it, once,
\* and the row is completed, whatever was abandoned, lost or retried around it.
DeliveredWasExecuted ==
    \A c \in Corr :
        /\ executed[c] <= 1
        /\ ex[c] \in {"answered", "delivered"} => executed[c] = 1 /\ coreRow[c] = "completed"

InFlight(c) == ex[c] \in {"reserved", "waiting", "woken", "abandoning"}

\* When no connection is being handled, a row is pending only for a call that will still
\* abandon it, unless a failed cleanup has withdrawn readiness.
TombstonesAreComplete ==
    core = "up" /\ cs = "none" /\ ~degraded =>
        \A c \in Corr : coreRow[c] = "pending" => InFlight(c)

\* The published session is the one that holds the slot: a cleared or cleaned-up session
\* is never the current one, and the pointer outlives no connection handler.
CurrentHoldsSlot ==
    cur => slot /\ cs \in {"published", "serving", "ended", "cleaning", "clearing"}

\* Every exchange ends: it delivers, is refused, fails, or dies with the process.
ExchangeEnds ==
    \A c \in Corr : ex[c] = "reserving" ~> ex[c] \in {"delivered", "refused", "failed", "lost"}

\* A handler whose connection is gone gives the slot back.
SlotIsReleased == slot /\ ~paired ~> ~slot

\* Neither a caller nor the handler of a lost connection waits for ever.
LinkWaitsEnd == ExchangeEnds /\ SlotIsReleased

\* What both ends know of an exchange stays true through lost connections, timeouts,
\* late answers and crashes: an answer was executed once, nothing is pending without
\* somebody who ends it, and the current session is the admitted one.
ExchangesAreAccounted == DeliveredWasExecuted /\ TombstonesAreComplete /\ CurrentHoldsSlot

=============================================================================
