--------------------------- MODULE ReachyLinkProofs ---------------------------
(***************************************************************************)
(* Proofs about ReachyLink, for any number of exchanges, connections and   *)
(* crashes.                                                                *)
(*                                                                         *)
(* A number travels from the counter that reserved it through the sending  *)
(* task, the wire, the reader and possibly a store thread that outlives    *)
(* its reader, before it is compared with the receiver's counter.  The     *)
(* invariant bounds it at each of these places, and in the same way says   *)
(* at each place that an answer was executed.                              *)
(***************************************************************************)
EXTENDS ReachyLink, TLAPS

Frames == [seq : Nat, corr : Corr]

\* Frames that a counter which stands at n has numbered.
Below(n) == {f \in Frames : f.seq <= n}

\* Wherever a number is, the counter it came from has been advanced to it.
Numbers ==
    /\ coreTx \in Nat /\ coreRx \in 0..edgeTx /\ edgeTx \in Nat /\ edgeRx \in 0..coreTx
    /\ exSeq \in [Corr -> 0..coreTx]
    /\ c2e \in Seq(Below(coreTx)) /\ e2c \in Seq(Below(edgeTx))
    /\ crecv \in {Idle} \cup [at : {"checked", "accepted", "matched"}, f : Below(edgeTx)]
    /\ erecv \in {Idle} \cup [at : {"accepting"}, f : Below(coreTx)]
                        \cup [at : {"handling", "replying"}, f : Frames]
                        \cup [at : {"sending", "completing"}, f : Below(edgeTx)]
    /\ late \subseteq [at : {"accepting"}, f : Below(coreTx)]
                 \cup [at : {"replying", "completing"}, f : Frames]

Rows ==
    /\ coreRow \in [Corr -> RowState] /\ edgeRow \in [Corr -> RowState]
    /\ ex \in [Corr -> {"idle", "reserving", "reserved", "waiting", "woken", "abandoning",
                        "answered", "delivered", "refused", "failed", "lost"}]
    /\ executed \in [Corr -> 0..1]

\* The answers to requests that were executed.
Answers(done) == {f \in Frames : done[f.corr] = 1}

\* Wherever an answer is, its request was executed, and once.
Executions ==
    /\ \A c \in Corr : edgeRow[c] = "none" => executed[c] = 0
    /\ erecv.at = "handling" => executed[erecv.f.corr] = 0 /\ edgeRow[erecv.f.corr] # "none"
    /\ erecv.at \in {"replying", "sending", "completing"} => erecv.f \in Answers(executed)
    /\ e2c \in Seq(Answers(executed))
    /\ crecv # Idle => crecv.f \in Answers(executed)
    /\ \A c \in Corr : coreRow[c] = "completed" => executed[c] = 1
    /\ \A c \in Corr : ex[c] \in {"answered", "delivered"} => coreRow[c] = "completed"

\* A pending row has a caller that will end it, and the pointer a handler.
Owners ==
    /\ core # "down" /\ ~degraded => \A c \in Corr : coreRow[c] = "pending" => InFlight(c)
    /\ slot <=> cs # "none"
    /\ cur => cs \in {"published", "serving", "ended", "cleaning", "clearing"}

LinkInv == Numbers /\ Rows /\ Executions /\ Owners

(* A sequence over a set is one over every larger set. *)
LEMMA SeqGrows == ASSUME NEW S, NEW T, S \subseteq T, NEW q \in Seq(S) PROVE q \in Seq(T)
  OBVIOUS

(* What a counter has numbered, it has numbered when it stands higher. *)
LEMMA BelowGrows == ASSUME NEW m \in Nat, NEW n \in Nat, m <= n PROVE Below(m) \subseteq Below(n)
  BY DEF Below, Frames

(* A reader that is busy, and a store call left behind, hold a frame. *)
LEMMA Readers ==
    Numbers => /\ erecv.at # "idle" => erecv.f \in Frames /\ erecv.f.corr \in Corr
               /\ crecv.at # "idle" => crecv.f \in Frames /\ crecv.f.corr \in Corr
               /\ \A t \in late : t.f.corr \in Corr
  BY DEF Numbers, Below, Frames, Idle

(* The invariant holds when both sides are new. *)
LEMMA LinkInvInit == Init => LinkInv
<1> SUFFICES ASSUME Init PROVE LinkInv
  BY Zenon
<1> USE DEF Init, Idle
<1>1. Numbers
  BY DEF Numbers
<1>2. Rows
  BY DEF Rows, RowState
<1>3. Executions
  BY DEF Executions
<1>4. Owners
  BY SMTT(20) DEF Owners
<1>5. QED
  BY Zenon, <1>1, <1>2, <1>3, <1>4 DEF LinkInv

numberVars == <<coreTx, coreRx, edgeTx, edgeRx, exSeq, c2e, e2c, crecv, erecv, late>>

(* A number given to one exchange is the next one of the counter. *)
LEMMA SequenceAdvances ==
  ASSUME NEW n \in Nat, NEW seqs \in [Corr -> 0..n], NEW c \in Corr
  PROVE  n + 1 \in Nat /\ n <= n + 1 /\ [seqs EXCEPT ![c] = n + 1] \in [Corr -> 0..(n + 1)]
<1>1. \A d \in Corr : seqs[d] \in 0..(n + 1)
  OBVIOUS
<1> QED
  BY <1>1

(* Every step keeps the numbers bounded: only the counter that numbers a frame
   makes new ones, and it advances before the frame exists. *)
LEMMA NumberStep == Numbers /\ [Next]_vars => Numbers'
<1> SUFFICES ASSUME Numbers, [Next]_vars PROVE Numbers'
  BY Zenon
<1> USE DEF Numbers, Idle,
            coreStore, edgeStore, wire, channel, exchange, coreSide, edgeSide
<1>1. CASE UNCHANGED numberVars
  BY Zenon, <1>1 DEF numberVars
<1>2. UNCHANGED vars => UNCHANGED numberVars
  BY Zenon DEF vars, numberVars
<1>3. ASSUME NEW c \in Corr, ExchangeStart(c) \/ ExchangeTimesOut(c) \/ AbandonCorrelation(c) \/
      ExchangeReturns(c) PROVE UNCHANGED numberVars
  BY SMTT(20), <1>3 DEF ExchangeStart, ExchangeTimesOut, AbandonCorrelation, ExchangeReturns, numberVars
<1>4. RejectBusy \/ Publish \/ Serve \/ TombstoneConnection \/ ClearSession \/ CoreStart \/
      BeginShutdownDrain \/ CoreStops \/ EdgeDials \/ EdgeRefused \/ EdgeConnected \/
      EdgeHandshakeFails \/ EdgeCleansUp \/ EdgeRestarts => UNCHANGED numberVars
  BY Zenon DEF RejectBusy, Publish, Serve, TombstoneConnection, ClearSession, CoreStart,
       BeginShutdownDrain, CoreStops, EdgeDials, EdgeRefused, EdgeConnected, EdgeHandshakeFails,
       EdgeCleansUp, EdgeRestarts, Abandoned, OpenPublicationGeneration, WithdrawAuthority,
       numberVars
<1>5. ASSUME NEW c \in Corr, ReserveOutbound(c) PROVE Numbers'
  <2>1. coreTx' \in Nat /\ coreTx <= coreTx' /\ exSeq' \in [Corr -> 0..coreTx']
    <3>1. \/ coreTx' = coreTx + 1 /\ exSeq' = [exSeq EXCEPT ![c] = coreTx + 1]
          \/ UNCHANGED <<coreTx, exSeq>>
      BY Zenon, <1>5 DEF ReserveOutbound
    <3>2. coreTx \in Nat /\ exSeq \in [Corr -> 0..coreTx]
      BY Zenon
    <3> QED
      BY <3>1, <3>2, SequenceAdvances
  <2>2. UNCHANGED <<coreRx, edgeTx, edgeRx, c2e, e2c, crecv, erecv, late>>
    BY Zenon, <1>5 DEF ReserveOutbound
  <2>3. Below(coreTx) \subseteq Below(coreTx')
    BY Zenon, <2>1, BelowGrows
  <2>4. c2e \in Seq(Below(coreTx'))
    BY Zenon, <2>3, SeqGrows
  <2>5. QED
    BY <2>1, <2>2, <2>3, <2>4
<1>6. ASSUME NEW c \in Corr, SendRequest(c) PROVE Numbers'
  <2>1. Frame(exSeq[c], c) \in Below(coreTx)
    BY DEF Frame, Frames, Below
  <2>2. Append(c2e, Frame(exSeq[c], c)) \in Seq(Below(coreTx))
    BY <2>1
  <2>3. /\ c2e' \in {c2e, Append(c2e, Frame(exSeq[c], c))} /\ exSeq' = [exSeq EXCEPT ![c] = 0]
        /\ UNCHANGED <<coreTx, coreRx, edgeTx, edgeRx, e2c, crecv, erecv, late>>
    BY Zenon, <1>6 DEF SendRequest
  <2>4. exSeq' \in [Corr -> 0..coreTx]
    BY <2>3
  <2>5. c2e' \in Seq(Below(coreTx))
    BY Zenon, <2>2, <2>3
  <2>6. QED
    BY Zenon, <2>3, <2>4, <2>5
<1>7. CASE RequireLegalInbound
  BY <1>7 DEF RequireLegalInbound, CoreLoopFails, At
<1>8. CASE CoreAcceptInbound
  <2>1. crecv.f \in Below(edgeTx) /\ crecv.f.seq \in 0..edgeTx
    BY <1>8 DEF CoreAcceptInbound, Below, Frames
  <2>2. QED
    BY <1>8, <2>1 DEF CoreAcceptInbound, CoreLoopFails, At
<1>9. CASE AcceptResponse
  BY <1>9 DEF AcceptResponse, CoreLoopFails, At
<1>10. CASE CompleteResponse
  BY Zenon, <1>10 DEF CompleteResponse, CoreLoopFails
<1>11. CASE Admit
  BY <1>11 DEF Admit
<1>12. CASE HandshakeFails
  BY <1>12 DEF HandshakeFails, Abandoned
<1>13. CASE CoreConnectionLost
  BY Zenon, <1>13 DEF CoreConnectionLost, CoreLoopFails
<1>14. CASE PrepareDisconnect
  BY <1>14 DEF PrepareDisconnect
<1>15. CASE CoreCrash
  BY <1>15 DEF CoreCrash
<1>16. CASE EdgeReads
  BY <1>16 DEF EdgeReads, At
<1>17. CASE EdgeAcceptInbound
  <2>1. erecv.f \in Below(coreTx) /\ erecv.f.seq \in 0..coreTx /\ erecv.f \in Frames
    BY <1>17 DEF EdgeAcceptInbound, Below, Frames
  <2>2. QED
    BY <1>17, <2>1 DEF EdgeAcceptInbound, EdgeLoopFails, At
<1>18. CASE EdgeHandles
  BY <1>18 DEF EdgeHandles, EdgeLoopFails, At
<1>19. CASE EdgeReserveReply
  <2>1. erecv.f \in Frames /\ Frame(edgeTx + 1, erecv.f.corr) \in Below(edgeTx + 1)
    BY <1>19 DEF EdgeReserveReply, Below, Frames, Frame
  <2>2. Below(edgeTx) \subseteq Below(edgeTx + 1)
    BY BelowGrows
  <2>3. e2c \in Seq(Below(edgeTx + 1))
    BY Zenon, <2>2, SeqGrows
  <2>4. QED
    BY <1>19, <2>1, <2>2, <2>3 DEF EdgeReserveReply, EdgeLoopFails, At
<1>20. CASE EdgeSendReply
  <2>1. erecv.f \in Below(edgeTx) /\ Append(e2c, erecv.f) \in Seq(Below(edgeTx))
    BY <1>20 DEF EdgeSendReply
  <2>2. /\ e2c' \in Seq(Below(edgeTx)) /\ erecv' \in {Idle, At("completing", erecv.f)}
        /\ UNCHANGED <<coreTx, coreRx, edgeTx, edgeRx, exSeq, c2e, crecv, late>>
    BY Zenon, <1>20, <2>1 DEF EdgeSendReply, EdgeLoopFails
  <2>3. QED
    BY <2>1, <2>2 DEF At
<1>21. CASE EdgeCompletes
  BY Zenon, <1>21 DEF EdgeCompletes, EdgeLoopFails
<1>22. CASE EdgeConnectionLost
  <2>1. erecv.f \in Frames \/ erecv = Idle
    BY Zenon DEF Below
  <2>2. erecv.at = "accepting" => erecv \in [at : {"accepting"}, f : Below(coreTx)]
    OBVIOUS
  <2>3. erecv.at \in {"replying", "completing"} => erecv \in [at : {"replying", "completing"},
        f : Frames]
    BY <2>1
  <2>4. QED
    BY Zenon, <1>22, <2>2, <2>3 DEF EdgeConnectionLost, EdgeLoopFails
<1>23. CASE LateCommit
  <2>1. PICK t \in late :
          /\ late' = late \ {t}
          /\ \/ t.at = "accepting" /\ edgeRx' = t.f.seq /\ edgeTx' = edgeTx
             \/ edgeRx' = edgeRx /\ edgeTx' \in {edgeTx, edgeTx + 1}
    BY Zenon, <1>23 DEF LateCommit
  <2>2. UNCHANGED <<coreTx, coreRx, exSeq, c2e, e2c, crecv, erecv>>
    BY Zenon, <1>23 DEF LateCommit
  <2>3. t.at = "accepting" => t.f.seq \in 0..coreTx
    <3>1. t.at = "accepting" => t.f \in Below(coreTx)
      BY Zenon
    <3>2. QED
      BY <3>1 DEF Below, Frames
  <2>4. edgeRx' \in 0..coreTx /\ edgeTx' \in Nat /\ edgeTx <= edgeTx'
    BY <2>1, <2>3
  <2>5. Below(edgeTx) \subseteq Below(edgeTx')
    BY Zenon, <2>4, BelowGrows
  <2>6. e2c \in Seq(Below(edgeTx'))
    BY Zenon, <2>5, SeqGrows
  <2>7. QED
    BY <2>1, <2>2, <2>4, <2>5, <2>6
<1>24. CASE EdgeCloses
  BY <1>24 DEF EdgeCloses
<1>25. CASE EdgeCrash
  BY <1>25 DEF EdgeCrash
<1>26. CASE Sever
  BY <1>26 DEF Sever
<1>27. QED
  BY Zenon, <1>1, <1>2, <1>3, <1>4, <1>5, <1>6, <1>7, <1>8, <1>9, <1>10, <1>11, <1>12, <1>13, <1>14,
     <1>15, <1>16, <1>17, <1>18, <1>19, <1>20, <1>21, <1>22, <1>23, <1>24, <1>25, <1>26
  DEF Next, CoreNext, EdgeNext

rowVars == <<coreRow, edgeRow, ex, executed>>

(* Every step keeps the rows of both stores, and executes a request once. *)
LEMMA RowStep == Numbers /\ Rows /\ Executions /\ [Next]_vars => Rows'
<1> SUFFICES ASSUME Numbers, Rows, Executions, [Next]_vars PROVE Rows'
  BY Zenon
<1> USE DEF Rows, RowState,
            coreStore, edgeStore, wire, channel, exchange, coreSide, edgeSide
<1>1. CASE UNCHANGED rowVars
  BY Zenon, <1>1 DEF rowVars
<1>2. UNCHANGED vars => UNCHANGED rowVars
  BY SMTT(20) DEF vars, rowVars
<1>3. RequireLegalInbound \/ CoreAcceptInbound \/ AcceptResponse \/ Admit \/ RejectBusy \/
      Publish \/ Serve \/ CoreConnectionLost \/ ClearSession \/ BeginShutdownDrain \/ CoreStops \/
      EdgeDials \/ EdgeRefused \/ EdgeConnected \/ EdgeHandshakeFails \/ EdgeReads \/
      EdgeReserveReply \/ EdgeSendReply \/ EdgeConnectionLost \/ EdgeCloses \/ EdgeRestarts \/
      EdgeCrash \/ Sever => UNCHANGED rowVars
  BY Zenon DEF RequireLegalInbound, CoreAcceptInbound, AcceptResponse, Admit, RejectBusy, Publish, Serve,
       CoreConnectionLost, ClearSession, BeginShutdownDrain, CoreStops, EdgeDials, EdgeRefused,
       EdgeConnected, EdgeHandshakeFails, EdgeReads, EdgeReserveReply, EdgeSendReply,
       EdgeConnectionLost, EdgeCloses, EdgeRestarts, EdgeCrash, Sever, CoreLoopFails, At,
       CoreAccepts, WithdrawAuthority, EdgeLoopFails, rowVars
<1>4. ASSUME NEW c \in Corr, ExchangeStart(c) PROVE Rows'
  BY Zenon, <1>4 DEF ExchangeStart
<1>5. ASSUME NEW c \in Corr, ReserveOutbound(c) PROVE Rows'
  BY Zenon, <1>5 DEF ReserveOutbound, CoreNewRequest
<1>6. ASSUME NEW c \in Corr, SendRequest(c) PROVE Rows'
  BY Zenon, <1>6 DEF SendRequest
<1>7. ASSUME NEW c \in Corr, ExchangeTimesOut(c) PROVE Rows'
  BY Zenon, <1>7 DEF ExchangeTimesOut
<1>8. ASSUME NEW c \in Corr, AbandonCorrelation(c) PROVE Rows'
  BY Zenon, <1>8 DEF AbandonCorrelation
<1>9. ASSUME NEW c \in Corr, ExchangeReturns(c) PROVE Rows'
  BY Zenon, <1>9 DEF ExchangeReturns
<1>10. CASE CompleteResponse
  BY Zenon, <1>10 DEF CompleteResponse, CoreLoopFails
<1>11. CASE HandshakeFails
  BY Zenon, <1>11 DEF HandshakeFails, Abandoned
<1>12. CASE PrepareDisconnect
  BY Zenon, <1>12 DEF PrepareDisconnect
<1>13. CASE TombstoneConnection
  BY Zenon, <1>13 DEF TombstoneConnection, Abandoned
<1>14. CASE CoreStart
  BY Zenon, <1>14 DEF CoreStart, Abandoned, OpenPublicationGeneration
<1>15. CASE CoreCrash
  BY Zenon, <1>15 DEF CoreCrash
<1>16. CASE EdgeAcceptInbound
  BY Zenon, <1>16 DEF EdgeAcceptInbound, EdgeLoopFails, EdgeAccepts, EdgeNewRequest, At
<1>17. CASE EdgeHandles
  <2>1. erecv.f.corr \in Corr /\ executed[erecv.f.corr] = 0
    BY <1>17 DEF EdgeHandles, Executions, Numbers, Frames, Idle
  <2>2. QED
    BY <1>17, <2>1 DEF EdgeHandles
<1>18. CASE EdgeCompletes
  BY Zenon, <1>18 DEF EdgeCompletes, EdgeLoopFails
<1>19. CASE LateCommit
  BY <1>19 DEF LateCommit, EdgeAccepts, EdgeNewRequest
<1>20. CASE EdgeCleansUp
  BY SMTT(20), <1>20 DEF EdgeCleansUp, Abandoned
<1>21. QED
  BY Zenon, <1>1, <1>2, <1>3, <1>4, <1>5, <1>6, <1>7, <1>8, <1>9, <1>10, <1>11, <1>12, <1>13, <1>14,
     <1>15, <1>16, <1>17, <1>18, <1>19, <1>20
  DEF Next, CoreNext, EdgeNext

execVars == <<rowVars, e2c, crecv, erecv>>

(* Every step keeps it that an answer, wherever it is, was executed. *)
LEMMA ExecutionStep == Numbers /\ Rows /\ Executions /\ [Next]_vars => Executions'
<1> SUFFICES ASSUME Numbers, Rows, Executions, [Next]_vars PROVE Executions'
  BY Zenon
<1> USE DEF Rows, Executions, RowState, Idle, rowVars,
            coreStore, edgeStore, wire, channel, exchange, coreSide, edgeSide
<1> USE Readers
<1>1. CASE UNCHANGED execVars
  BY Zenon, <1>1 DEF execVars
<1>2. UNCHANGED vars => UNCHANGED execVars
  BY SMTT(20) DEF vars, execVars
<1>3. RejectBusy \/ Publish \/ Serve \/ ClearSession \/ BeginShutdownDrain \/ CoreStops \/
      EdgeDials \/ EdgeRefused \/ EdgeConnected \/ EdgeHandshakeFails \/ EdgeCloses \/ EdgeRestarts
      => UNCHANGED execVars
  BY ZenonT(40) DEF RejectBusy, Publish, Serve, ClearSession, BeginShutdownDrain, CoreStops, EdgeDials,
       EdgeRefused, EdgeConnected, EdgeHandshakeFails, EdgeCloses, EdgeRestarts, WithdrawAuthority,
       execVars
<1>4. ASSUME NEW c \in Corr, ExchangeStart(c) PROVE Executions'
  BY ZenonT(40), <1>4 DEF ExchangeStart
<1>5. ASSUME NEW c \in Corr, ReserveOutbound(c) PROVE Executions'
  BY ZenonT(40), <1>5 DEF ReserveOutbound, CoreNewRequest
<1>6. ASSUME NEW c \in Corr, SendRequest(c) PROVE Executions'
  BY ZenonT(40), <1>6 DEF SendRequest
<1>7. ASSUME NEW c \in Corr, ExchangeTimesOut(c) PROVE Executions'
  BY Zenon, <1>7 DEF ExchangeTimesOut
<1>8. ASSUME NEW c \in Corr, AbandonCorrelation(c) PROVE Executions'
  BY Zenon, <1>8 DEF AbandonCorrelation
<1>9. ASSUME NEW c \in Corr, ExchangeReturns(c) PROVE Executions'
  BY Zenon, <1>9 DEF ExchangeReturns
<1>10. CASE RequireLegalInbound
  BY <1>10 DEF RequireLegalInbound, CoreLoopFails, At
<1>11. CASE CoreAcceptInbound
  BY <1>11 DEF CoreAcceptInbound, CoreLoopFails, CoreAccepts, At
<1>12. CASE AcceptResponse
  BY <1>12 DEF AcceptResponse, CoreLoopFails, At
<1>13. CASE CompleteResponse
  <2> DEFINE c == crecv.f.corr
  <2>1. c \in Corr /\ executed[c] = 1
    BY <1>13 DEF CompleteResponse, Answers
  <2>2. /\ \/ coreRow' = coreRow /\ ex' = ex
           \/ /\ coreRow' = [coreRow EXCEPT ![c] = "completed"]
              /\ ex' \in {ex, [ex EXCEPT ![c] = "answered"]}
        /\ crecv' = Idle /\ UNCHANGED <<edgeRow, executed, e2c, erecv>>
    BY Zenon, <1>13 DEF CompleteResponse, CoreLoopFails
  <2>3. QED
    BY ZenonT(40), <2>1, <2>2
<1>14. CASE Admit
  BY <1>14 DEF Admit
<1>15. CASE HandshakeFails
  BY <1>15 DEF HandshakeFails, Abandoned
<1>16. CASE CoreConnectionLost
  BY Zenon, <1>16 DEF CoreConnectionLost, CoreLoopFails
<1>17. CASE PrepareDisconnect
  BY <1>17 DEF PrepareDisconnect
<1>18. CASE TombstoneConnection
  BY <1>18 DEF TombstoneConnection, Abandoned
<1>19. CASE CoreStart
  BY Zenon, <1>19 DEF CoreStart, Abandoned, OpenPublicationGeneration
<1>20. CASE CoreCrash
  BY <1>20 DEF CoreCrash
<1>21. CASE EdgeReads
  BY SMTT(20), <1>21 DEF EdgeReads, At
<1>22. CASE EdgeAcceptInbound
  <2> DEFINE c == erecv.f.corr
  <2>1. c \in Corr /\ UNCHANGED <<coreRow, ex, executed, e2c, crecv>>
    BY Zenon, <1>22 DEF EdgeAcceptInbound, Numbers, Frames
  <2>2. \/ erecv' = Idle /\ edgeRow' = edgeRow
        \/ /\ edgeRow[c] = "none" /\ edgeRow' = [edgeRow EXCEPT ![c] = "pending"]
           /\ erecv' = At("handling", erecv.f)
    BY Zenon, <1>22 DEF EdgeAcceptInbound, EdgeLoopFails, EdgeAccepts, EdgeNewRequest
  <2>3. CASE erecv' = Idle /\ edgeRow' = edgeRow
    BY Zenon, <2>1, <2>3
  <2>4. CASE /\ edgeRow[c] = "none" /\ edgeRow' = [edgeRow EXCEPT ![c] = "pending"]
             /\ erecv' = At("handling", erecv.f)
    BY Zenon, <2>1, <2>4 DEF At
  <2>5. QED
    BY Zenon, <2>2, <2>3, <2>4
<1>23. CASE EdgeHandles
  <2> DEFINE c == erecv.f.corr
  <2>1. c \in Corr /\ executed[c] = 0 /\ edgeRow[c] # "none"
    BY Zenon, <1>23 DEF EdgeHandles
  <2>2. /\ \/ executed' = [executed EXCEPT ![c] = 1] /\ erecv' = At("replying", erecv.f)
           \/ executed' = executed /\ erecv' = Idle
        /\ UNCHANGED <<coreRow, edgeRow, ex, e2c, crecv>>
    BY <1>23, <2>1 DEF EdgeHandles, EdgeLoopFails
  <2>3. \A d \in Corr : executed[d] = 1 => executed'[d] = 1
    BY Zenon, <2>1, <2>2
  <2>4. Answers(executed) \subseteq Answers(executed')
    BY SMTT(20), <2>3 DEF Answers, Frames
  <2>5. e2c \in Seq(Answers(executed'))
    BY Zenon, <2>4, SeqGrows
  <2>6. executed' = [executed EXCEPT ![c] = 1] => erecv.f \in Answers(executed')
    BY Zenon, <1>23, <2>1 DEF Answers, EdgeHandles
  <2>7. CASE executed' = executed /\ erecv' = Idle
    BY Zenon, <2>2, <2>7
  <2>8. CASE executed' = [executed EXCEPT ![c] = 1] /\ erecv' = At("replying", erecv.f)
    <3>1. /\ \A d \in Corr : edgeRow'[d] = "none" => executed'[d] = 0
          /\ \A d \in Corr : coreRow'[d] = "completed" => executed'[d] = 1
          /\ \A d \in Corr : ex'[d] \in {"answered", "delivered"} => coreRow'[d] = "completed"
      BY ZenonT(40), <2>1, <2>2, <2>3, <2>8
    <3>2. crecv' # Idle => crecv'.f \in Answers(executed')
      BY Zenon, <2>2, <2>4
    <3>3. QED
      BY Zenon, <2>2, <2>5, <2>6, <2>8, <3>1, <3>2 DEF At
  <2>9. QED
    BY Zenon, <2>2, <2>7, <2>8
<1>24. CASE EdgeReserveReply
  <2> DEFINE f == Frame(edgeTx + 1, erecv.f.corr)
  <2>1. f \in Answers(executed)
    <3>1. erecv.f \in Answers(executed)
      BY Zenon, <1>24 DEF EdgeReserveReply
    <3>2. edgeTx + 1 \in Nat
      BY DEF Numbers
    <3>3. QED
      BY Zenon, <3>1, <3>2 DEF Answers, Frames, Frame
  <2>2. /\ erecv' \in {Idle, At("sending", f)}
        /\ UNCHANGED <<coreRow, edgeRow, ex, executed, e2c, crecv>>
    BY Zenon, <1>24 DEF EdgeReserveReply, EdgeLoopFails
  <2>3. QED
    BY SMTT(20), <2>1, <2>2 DEF At
<1>25. CASE EdgeSendReply
  <2>1. erecv.f \in Answers(executed) /\ Append(e2c, erecv.f) \in Seq(Answers(executed))
    <3>1. erecv.f \in Answers(executed) /\ e2c \in Seq(Answers(executed))
      BY Zenon, <1>25 DEF EdgeSendReply
    <3>2. QED
      BY <3>1
  <2>2. /\ e2c' \in Seq(Answers(executed)) /\ erecv' \in {Idle, At("completing", erecv.f)}
        /\ UNCHANGED <<coreRow, edgeRow, ex, executed, crecv>>
    BY Zenon, <1>25, <2>1 DEF EdgeSendReply, EdgeLoopFails
  <2>3. QED
    BY <2>1, <2>2 DEF At
<1>26. CASE EdgeCompletes
  BY <1>26 DEF EdgeCompletes, EdgeLoopFails
<1>27. CASE EdgeConnectionLost
  BY Zenon, <1>27 DEF EdgeConnectionLost, EdgeLoopFails
<1>28. CASE LateCommit
  BY <1>28 DEF LateCommit, EdgeAccepts, EdgeNewRequest
<1>29. CASE EdgeCleansUp
  BY SMTT(20), <1>29 DEF EdgeCleansUp, Abandoned
<1>30. CASE EdgeCrash
  BY Zenon, <1>30 DEF EdgeCrash
<1>31. CASE Sever
  BY SMTT(20), <1>31 DEF Sever
<1>32. QED
  BY Zenon, <1>1, <1>2, <1>3, <1>4, <1>5, <1>6, <1>7, <1>8, <1>9, <1>10, <1>11, <1>12, <1>13, <1>14,
     <1>15, <1>16, <1>17, <1>18, <1>19, <1>20, <1>21, <1>22, <1>23, <1>24, <1>25, <1>26,
     <1>27, <1>28, <1>29, <1>30, <1>31
  DEF Next, CoreNext, EdgeNext

ownerVars == <<coreRow, ex, core, degraded, slot, cs, cur>>

(* Every step keeps a caller for each pending row and a handler for the slot. *)
LEMMA OwnerStep == Numbers /\ Rows /\ Owners /\ [Next]_vars => Owners'
<1> SUFFICES ASSUME Numbers, Rows, Owners, [Next]_vars PROVE Owners'
  BY Zenon
<1> USE DEF Rows, Owners, RowState, InFlight,
            coreStore, edgeStore, wire, channel, exchange, coreSide, edgeSide
<1>1. CASE UNCHANGED ownerVars
  BY Zenon, <1>1 DEF ownerVars
<1>2. UNCHANGED vars => UNCHANGED ownerVars
  BY SMTT(20) DEF vars, ownerVars
<1>3. RejectBusy \/ EdgeDials \/ EdgeRefused \/ EdgeConnected \/ EdgeHandshakeFails \/ EdgeReads \/
      EdgeAcceptInbound \/ EdgeHandles \/ EdgeReserveReply \/ EdgeSendReply \/ EdgeCompletes \/
      EdgeConnectionLost \/ LateCommit \/ EdgeCloses \/ EdgeCleansUp \/ EdgeRestarts \/
      EdgeCrash \/ Sever => UNCHANGED ownerVars
  BY Zenon DEF RejectBusy, EdgeDials, EdgeRefused, EdgeConnected, EdgeHandshakeFails, EdgeReads,
       EdgeAcceptInbound, EdgeHandles, EdgeReserveReply, EdgeSendReply, EdgeCompletes,
       EdgeConnectionLost, LateCommit, EdgeCloses, EdgeCleansUp, EdgeRestarts, EdgeCrash, Sever,
       At, EdgeLoopFails, EdgeAccepts, EdgeNewRequest, Abandoned, ownerVars
<1>4. ASSUME NEW c \in Corr, ExchangeStart(c) PROVE Owners'
  BY Zenon, <1>4 DEF ExchangeStart
<1>5. ASSUME NEW c \in Corr, ReserveOutbound(c) PROVE Owners'
  BY Zenon, <1>5 DEF ReserveOutbound, CoreNewRequest
<1>6. ASSUME NEW c \in Corr, SendRequest(c) PROVE Owners'
  BY Zenon, <1>6 DEF SendRequest
<1>7. ASSUME NEW c \in Corr, ExchangeTimesOut(c) PROVE Owners'
  BY Zenon, <1>7 DEF ExchangeTimesOut
<1>8. ASSUME NEW c \in Corr, AbandonCorrelation(c) PROVE Owners'
  BY <1>8 DEF AbandonCorrelation
<1>9. ASSUME NEW c \in Corr, ExchangeReturns(c) PROVE Owners'
  BY Zenon, <1>9 DEF ExchangeReturns
<1>10. CASE RequireLegalInbound
  BY Zenon, <1>10 DEF RequireLegalInbound, CoreLoopFails, At
<1>11. CASE CoreAcceptInbound
  BY Zenon, <1>11 DEF CoreAcceptInbound, CoreLoopFails, CoreAccepts, At
<1>12. CASE AcceptResponse
  BY Zenon, <1>12 DEF AcceptResponse, CoreLoopFails, At
<1>13. CASE CompleteResponse
  BY Zenon, <1>13 DEF CompleteResponse, CoreLoopFails
<1>14. CASE Admit
  BY Zenon, <1>14 DEF Admit
<1>15. CASE HandshakeFails
  BY Zenon, <1>15 DEF HandshakeFails, Abandoned
<1>16. CASE Publish
  BY Zenon, <1>16 DEF Publish
<1>17. CASE Serve
  BY Zenon, <1>17 DEF Serve
<1>18. CASE CoreConnectionLost
  BY Zenon, <1>18 DEF CoreConnectionLost, CoreLoopFails
<1>19. CASE PrepareDisconnect
  BY Zenon, <1>19 DEF PrepareDisconnect
<1>20. CASE TombstoneConnection
  BY Zenon, <1>20 DEF TombstoneConnection, Abandoned
<1>21. CASE ClearSession
  BY Zenon, <1>21 DEF ClearSession
<1>22. CASE CoreStart
  BY Zenon, <1>22 DEF CoreStart, Abandoned, OpenPublicationGeneration
<1>23. CASE BeginShutdownDrain
  BY Zenon, <1>23 DEF BeginShutdownDrain
<1>24. CASE CoreStops
  BY Zenon, <1>24 DEF CoreStops, WithdrawAuthority
<1>25. CASE CoreCrash
  BY Zenon, <1>25 DEF CoreCrash
<1>26. QED
  BY Zenon, <1>1, <1>2, <1>3, <1>4, <1>5, <1>6, <1>7, <1>8, <1>9, <1>10, <1>11, <1>12, <1>13, <1>14,
     <1>15, <1>16, <1>17, <1>18, <1>19, <1>20, <1>21, <1>22, <1>23, <1>24, <1>25
  DEF Next, CoreNext, EdgeNext

(* The invariant holds in every state of the link, for all its crashes, lost
   frames and store calls that finish late. *)
THEOREM LinkInvAlways == Spec => []LinkInv
<1>1. LinkInv /\ [Next]_vars => LinkInv'
  BY Zenon, NumberStep, RowStep, ExecutionStep, OwnerStep DEF LinkInv
<1>2. QED
  BY <1>1, LinkInvInit, PTL DEF Spec

(* For all constants: no receiver's durable counter, and no frame, is ahead of
   the durable counter of the side that sent it. *)
THEOREM NeverAhead == Spec => []ReceiverNeverAhead
<1>1. LinkInv => ReceiverNeverAhead
  BY DEF LinkInv, Numbers, Below, Frames, ReceiverNeverAhead
<1>2. QED
  BY <1>1, LinkInvAlways, PTL

(* For all constants: an answer that is delivered was executed by the edge
   exactly once, a pending row has a caller or readiness is withdrawn, and the
   current session holds the admission slot. *)
THEOREM Accounted == Spec => []ExchangesAreAccounted
<1>1. LinkInv => ExchangesAreAccounted
  BY DEF LinkInv, Rows, Executions, Owners, ExchangesAreAccounted, DeliveredWasExecuted,
         TombstonesAreComplete, CurrentHoldsSlot
<1>2. QED
  BY <1>1, LinkInvAlways, PTL
=============================================================================
