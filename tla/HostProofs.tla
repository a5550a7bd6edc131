----------------------------- MODULE HostProofs -----------------------------
(***************************************************************************)
(* Proofs about the Core's units of work on its database, its bounded      *)
(* calls and its receipts of answers, for any number of tasks, calls and   *)
(* faults: Transactions, DeadlineGuard and ResponseReceipts. The three     *)
(* share no state; each has an inductive invariant of its own.             *)
(***************************************************************************)
EXTENDS Transactions, DeadlineGuard, ResponseReceipts, FiniteSetTheorems, TLAPS

-----------------------------------------------------------------------------
(***************************************************************************)
(* DeadlineGuard. An operation can outlive its call only through _retain,  *)
(* which puts it in quarantine; it leaves quarantine only when it has      *)
(* ended, and then with evidence of how. The evidence tells a bad end from *)
(* a good one, so the observer that clears it clears only good ones.       *)
(***************************************************************************)

Bounds == Call \cup {Observer}

GuardTypes ==
    /\ where \in [Call -> {"idle", "racing", "watching", "cleanup", "done"}]
    /\ task \in [Call -> {"none", "live"} \cup Ends]
    /\ primary \in [Call -> {"none", "result", "bad", "exceeded", "cancelled", "incomplete",
                              "refused"}]
    /\ tomb \in [Call -> SUBSET [bad : BOOLEAN, told : BOOLEAN, late : SUBSET Bounds]]
    /\ lateFor \in [Call -> SUBSET Bounds]
    /\ kept \subseteq outlived /\ outlived \subseteq Call

(* What outlives a call has left it; evidence is about an end, and true. *)
Custody ==
    /\ \A c \in Call : where[c] = "idle" => task[c] = "none"
    /\ \A c \in outlived : where[c] = "done" /\ task[c] # "none"
    /\ \A c \in Call : \A e \in tomb[c] : Done(c) /\ (e.bad <=> Bad(c))

Kept == LeaksAreKept /\ BadEndingsStay

GuardInv == GuardTypes /\ Custody /\ Kept

(* The invariant holds before any call. *)
LEMMA GuardInvInit == GuardInit => GuardInv
  BY Zenon DEF GuardInit, GuardInv, GuardTypes, Custody, Kept, LeaksAreKept, BadEndingsStay, Leaked,
         Live, NoEvidence, Ends

(* Every step of a call, of its operation, of the loop's callbacks and of the
   observer preserves the invariant. *)
LEMMA GuardInvStep == GuardInv /\ [GuardNext]_guardVars => GuardInv'
<1> SUFFICES ASSUME GuardInv, [GuardNext]_guardVars PROVE GuardInv'
  BY Zenon
<1>1. CASE UNCHANGED guardVars
  BY Zenon, <1>1 DEF guardVars, GuardInv, GuardTypes, Custody, Kept, LeaksAreKept, BadEndingsStay, Leaked,
              Live, Done, Bad
<1>2. ASSUME NEW c \in Call, NEW f \in BOOLEAN, Admit(c, f) PROVE GuardInv'
  <2>1. GuardTypes'
    BY Zenon, <1>2 DEF Admit, Untouched, GuardInv, GuardTypes, Ends, Bounds
  <2>2. Custody'
    BY Zenon, <1>2 DEF Admit, Untouched, GuardInv, GuardTypes, Custody, Done, Bad, Ends
  <2>3. Kept'
    BY Zenon, <1>2 DEF Admit, Untouched, GuardInv, GuardTypes, Custody, Kept, LeaksAreKept,
         BadEndingsStay, Leaked, NoEvidence, Live, Done, Bad, Ends
  <2>4. QED
    BY Zenon, <2>1, <2>2, <2>3 DEF GuardInv
<1>3. ASSUME NEW c \in Call, DiscardFuture(c) PROVE GuardInv'
  <2>1. GuardTypes'
    BY Zenon, <1>3 DEF DiscardFuture, Retain, Return, GuardInv, GuardTypes, Ends, Bounds
  <2>2. Custody'
    BY Zenon, <1>3 DEF DiscardFuture, Retain, Return, GuardInv, GuardTypes, Custody, Done, Bad, Ends
  <2>3. Kept'
    BY Zenon, <1>3 DEF DiscardFuture, Retain, Return, GuardInv, GuardTypes, Custody, Kept, LeaksAreKept,
         BadEndingsStay, Leaked, NoEvidence, Live, Done, Bad, Ends
  <2>4. QED
    BY Zenon, <2>1, <2>2, <2>3 DEF GuardInv
<1>4. ASSUME NEW c \in Call, DiscardCoroutine(c) PROVE GuardInv'
  <2>1. GuardTypes'
    BY Zenon, <1>4 DEF DiscardCoroutine, Untouched, Return, GuardInv, GuardTypes, Ends, Bounds
  <2>2. Custody'
    BY ZenonT(40), <1>4 DEF DiscardCoroutine, Untouched, Return, GuardInv, GuardTypes, Custody, Done, Bad, Ends
  <2>3. Kept'
    BY Zenon, <1>4 DEF DiscardCoroutine, Untouched, Return, GuardInv, GuardTypes, Custody, Kept,
         LeaksAreKept, BadEndingsStay, Leaked, NoEvidence, Live, Done, Bad, Ends
  <2>4. QED
    BY Zenon, <2>1, <2>2, <2>3 DEF GuardInv
<1>5. ASSUME NEW c \in Call, TaskEnds(c) PROVE GuardInv'
  <2>1. GuardTypes'
    BY Zenon, <1>5 DEF TaskEnds, Untouched, Live, GuardInv, GuardTypes, Ends, Bounds
  <2>2. Custody'
    BY ZenonT(40), <1>5 DEF TaskEnds, Untouched, Live, GuardInv, GuardTypes, Custody, Done, Bad, Ends
  <2>3. Kept'
    BY Zenon, <1>5 DEF TaskEnds, Untouched, GuardInv, GuardTypes, Custody, Kept, LeaksAreKept,
         BadEndingsStay, Leaked, NoEvidence, Live, Done, Bad, Ends
  <2>4. QED
    BY Zenon, <2>1, <2>2, <2>3 DEF GuardInv
<1>6. ASSUME NEW c \in Call, RecordCompletion(c) PROVE GuardInv'
  <2>1. GuardTypes'
    BY <1>6 DEF RecordCompletion, Bad, Done, Live, GuardInv, GuardTypes, Ends, Bounds
  <2>2. Custody'
    <3>1. \A d \in Call : \A e \in tomb'[d] : e \in tomb[d] \/ (Done(d) /\ e.bad = Bad(d))
      BY <1>6 DEF RecordCompletion, GuardInv, GuardTypes
    <3>2. UNCHANGED task
      BY Zenon, <1>6 DEF RecordCompletion
    <3>3. QED
      BY Zenon, <1>6, <3>1, <3>2 DEF RecordCompletion, GuardInv, GuardTypes, Custody, Done, Bad
  <2>3. Kept'
    BY Zenon, <1>6 DEF RecordCompletion, GuardInv, GuardTypes, Custody, Kept, LeaksAreKept,
         BadEndingsStay, Leaked, NoEvidence, Live, Done, Bad, Ends
  <2>4. QED
    BY Zenon, <2>1, <2>2, <2>3 DEF GuardInv
<1>7. ASSUME NEW c \in Call, RaceEnds(c) PROVE GuardInv'
  <2>1. GuardTypes'
    BY Zenon, <1>7 DEF RaceEnds, Decision, Live, Done, GuardInv, GuardTypes, Ends, Bounds
  <2>2. Custody'
    BY Zenon, <1>7 DEF RaceEnds, Decision, Live, GuardInv, GuardTypes, Custody, Done, Bad, Ends
  <2>3. Kept'
    BY Zenon, <1>7 DEF RaceEnds, Decision, GuardInv, GuardTypes, Custody, Kept, LeaksAreKept,
         BadEndingsStay, Leaked, NoEvidence, Live, Done, Bad, Ends
  <2>4. QED
    BY Zenon, <2>1, <2>2, <2>3 DEF GuardInv
<1>8. ASSUME NEW c \in Call, BoundPasses(c) PROVE GuardInv'
  <2>1. GuardTypes'
    BY Zenon, <1>8 DEF BoundPasses, work, GuardInv, GuardTypes, Ends, Bounds
  <2>2. Custody'
    BY Zenon, <1>8 DEF BoundPasses, work, GuardInv, GuardTypes, Custody, Done, Bad, Ends
  <2>3. Kept'
    BY Zenon, <1>8 DEF BoundPasses, work, GuardInv, GuardTypes, Custody, Kept, LeaksAreKept,
         BadEndingsStay, Leaked, NoEvidence, Live, Done, Bad, Ends
  <2>4. QED
    BY Zenon, <2>1, <2>2, <2>3 DEF GuardInv
<1>9. ASSUME NEW c \in Call, OwnerCancelled(c) PROVE GuardInv'
  <2>1. GuardTypes'
    BY Zenon, <1>9 DEF OwnerCancelled, work, GuardInv, GuardTypes, Ends, Bounds
  <2>2. Custody'
    BY Zenon, <1>9 DEF OwnerCancelled, work, GuardInv, GuardTypes, Custody, Done, Bad, Ends
  <2>3. Kept'
    BY Zenon, <1>9 DEF OwnerCancelled, work, GuardInv, GuardTypes, Custody, Kept, LeaksAreKept,
         BadEndingsStay, Leaked, NoEvidence, Live, Done, Bad, Ends
  <2>4. QED
    BY Zenon, <2>1, <2>2, <2>3 DEF GuardInv
<1>10. ASSUME NEW c \in Call, Settle(c) PROVE GuardInv'
  <2>1. GuardTypes'
    <3>1. Evidence(c) \subseteq [bad : BOOLEAN, told : BOOLEAN, late : SUBSET Bounds]
      BY DEF Evidence, Bad, GuardInv, GuardTypes
    <3>2. tomb' \in [Call -> SUBSET [bad : BOOLEAN, told : BOOLEAN, late : SUBSET Bounds]]
      BY Zenon, <1>10, <3>1 DEF Settle, GuardInv, GuardTypes
    <3>3. \E clean \in BOOLEAN : Return(c, Outcome(primary[c], task[c], clean))
      BY Zenon, <1>10 DEF Settle, NoDoubt
    <3>4. QED
      BY Zenon, <1>10, <3>2, <3>3 DEF Settle, Retain, Untouched, Return, Outcome, GuardInv, GuardTypes
  <2>2. Custody'
    <3>1. tomb' = tomb \/ (Done(c) /\ tomb' = [tomb EXCEPT ![c] = Evidence(c)])
      BY Zenon, <1>10 DEF Settle
    <3>2. \A d \in Call : \A e \in tomb'[d] : e \in tomb[d] \/ (Done(d) /\ e.bad = Bad(d))
      BY <3>1 DEF Evidence, GuardInv, GuardTypes
    <3>3. /\ UNCHANGED task /\ where' = [where EXCEPT ![c] = "done"]
          /\ outlived' = outlived \/ (Live(c) /\ outlived' = outlived \cup {c})
      BY Zenon, <1>10 DEF Settle, Return, Retain, Untouched
    <3>4. \A d \in Call : \A e \in tomb'[d] : Done(d)' /\ (e.bad <=> Bad(d)')
      BY Zenon, <3>2, <3>3 DEF GuardInv, Custody, Done, Bad
    <3>5. \A d \in Call : where'[d] = "idle" => task'[d] = "none"
      BY Zenon, <3>3 DEF GuardInv, GuardTypes, Custody
    <3>6. \A d \in outlived' : where'[d] = "done" /\ task'[d] # "none"
      BY Zenon, <3>3 DEF GuardInv, GuardTypes, Custody, Live
    <3>7. QED
      BY Zenon, <3>4, <3>5, <3>6 DEF Custody
  <2>3. Kept'
    BY Zenon, <1>10 DEF Settle, Retain, Untouched, Evidence, InTime, Return, Outcome, GuardInv,
         GuardTypes, Custody, Kept, LeaksAreKept, BadEndingsStay, Leaked, NoEvidence, Live, Done,
         Bad, Ends
  <2>4. QED
    BY Zenon, <2>1, <2>2, <2>3 DEF GuardInv
<1>11. ASSUME NEW c \in Call, SettleFuture(c) PROVE GuardInv'
  <2>1. GuardTypes'
    BY Zenon, <1>11 DEF SettleFuture, Live, Done, Retain, Untouched, Return, Outcome, Decision, GuardInv,
         GuardTypes, Ends, Bounds
  <2>2. Custody'
    BY ZenonT(40), <1>11 DEF SettleFuture, Live, Retain, Untouched, Return, Outcome, Decision, GuardInv,
         GuardTypes, Custody, Done, Bad, Ends
  <2>3. Kept'
    BY Zenon, <1>11 DEF SettleFuture, Retain, Untouched, Return, Outcome, Decision, GuardInv, GuardTypes,
         Custody, Kept, LeaksAreKept, BadEndingsStay, Leaked, NoEvidence, Live, Done, Bad, Ends
  <2>4. QED
    BY Zenon, <2>1, <2>2, <2>3 DEF GuardInv
<1>12. CASE ObserveQuarantine
  <2>1. GuardTypes'
    BY <1>12 DEF ObserveQuarantine, NoEvidence, Live, GuardInv, GuardTypes, Ends, Bounds
  <2>2. Custody'
    BY <1>12 DEF ObserveQuarantine, NoEvidence, Live, GuardInv, GuardTypes, Custody, Done, Bad, Ends
  <2>3. Kept'
    <3>1. \A c \in Call : tomb[c] # {} => tomb'[c] # {}
      BY Zenon, <1>12 DEF ObserveQuarantine
    <3>2. QED
      BY Zenon, <1>12, <3>1 DEF ObserveQuarantine, GuardInv, GuardTypes, Kept, LeaksAreKept, BadEndingsStay,
                         Leaked, NoEvidence, Live, Bad
  <2>4. QED
    BY Zenon, <2>1, <2>2, <2>3 DEF GuardInv
<1>13. CASE ObserverBoundPasses
  <2>1. GuardTypes'
    BY Zenon, <1>13 DEF ObserverBoundPasses, work, GuardInv, GuardTypes, Ends, Bounds
  <2>2. Custody'
    BY Zenon, <1>13 DEF ObserverBoundPasses, work, GuardInv, GuardTypes, Custody, Done, Bad, Ends
  <2>3. Kept'
    BY Zenon, <1>13 DEF ObserverBoundPasses, work, GuardInv, GuardTypes, Custody, Kept, LeaksAreKept,
         BadEndingsStay, Leaked, NoEvidence, Live, Done, Bad, Ends
  <2>4. QED
    BY Zenon, <2>1, <2>2, <2>3 DEF GuardInv
<1>14. CASE ObserverSettles
  <2>1. GuardTypes'
    BY <1>14 DEF ObserverSettles, work, Evidence, InTime, Done, Bad, GuardInv, GuardTypes, Ends, Bounds
  <2>2. Custody'
    <3>1. \A d \in Call : \A e \in tomb'[d] : e \in tomb[d] \/ (Done(d) /\ e.bad = Bad(d))
      BY <1>14 DEF ObserverSettles, Evidence, GuardInv, GuardTypes
    <3>2. UNCHANGED task
      BY Zenon, <1>14 DEF ObserverSettles, work
    <3>3. QED
      BY ZenonT(40), <1>14, <3>1, <3>2 DEF ObserverSettles, work, GuardInv, GuardTypes, Custody, Done, Bad
  <2>3. Kept'
    BY Zenon, <1>14 DEF ObserverSettles, work, Evidence, InTime, GuardInv, GuardTypes, Custody, Kept,
         LeaksAreKept, BadEndingsStay, Leaked, NoEvidence, Live, Done, Bad, Ends
  <2>4. QED
    BY Zenon, <2>1, <2>2, <2>3 DEF GuardInv
<1>15. CASE ObserverChecks
  <2>1. GuardTypes'
    BY Zenon, <1>15 DEF ObserverChecks, work, NoEvidence, Acknowledged, Clean, GuardInv, GuardTypes, Ends,
         Bounds
  <2>2. Custody'
    BY Zenon, <1>15 DEF ObserverChecks, work, NoEvidence, Acknowledged, Clean, GuardInv, GuardTypes,
         Custody, Done, Bad, Ends
  <2>3. Kept'
    BY Zenon, <1>15 DEF ObserverChecks, work, Acknowledged, Clean, GuardInv, GuardTypes, Custody, Kept,
         LeaksAreKept, BadEndingsStay, Leaked, NoEvidence, Live, Done, Bad, Ends
  <2>4. QED
    BY Zenon, <2>1, <2>2, <2>3 DEF GuardInv
<1>16. QED
  BY Zenon, <1>1, <1>2, <1>3, <1>4, <1>5, <1>6, <1>7, <1>8, <1>9, <1>10, <1>11, <1>12, <1>13, <1>14,
       <1>15 DEF GuardNext

(* A call that returns its own outcome after its cleanup found the quarantine
   empty, and so did an observer that acknowledged. *)
LEMMA CleanSteps == GuardInv /\ GuardInv' /\ [GuardNext]_guardVars => [CleanStep]_guardVars
<1> SUFFICES ASSUME GuardInv, GuardInv', GuardNext PROVE CleanStep
  BY Zenon
<1>1. ASSUME NEW c \in Call, where[c] \in {"cleanup", "watching"}, where'[c] = "done",
             primary'[c] \in {"result", "exceeded"}
      PROVE Leaked' = {}
  <2>1. Settle(c) \/ SettleFuture(c)
    <3>1. ASSUME NEW d \in Call,
                 \/ \E f \in BOOLEAN : Admit(d, f)
                 \/ DiscardFuture(d) \/ DiscardCoroutine(d) \/ RaceEnds(d)
          PROVE FALSE
      BY Zenon, <1>1, <3>1 DEF GuardInv, GuardTypes, Admit, DiscardFuture, DiscardCoroutine, RaceEnds,
                        Return
    <3>2. ASSUME NEW d \in Call,
                 TaskEnds(d) \/ RecordCompletion(d) \/ BoundPasses(d) \/ OwnerCancelled(d)
          PROVE FALSE
      BY Zenon, <1>1, <3>2 DEF TaskEnds, RecordCompletion, BoundPasses, OwnerCancelled
    <3>3. ASSUME NEW d \in Call, Settle(d) \/ SettleFuture(d) PROVE d = c
      BY Zenon, <1>1, <3>3 DEF GuardInv, GuardTypes, Settle, SettleFuture, Return
    <3>4. ~(ObserveQuarantine \/ ObserverBoundPasses \/ ObserverSettles \/ ObserverChecks)
      BY Zenon, <1>1 DEF ObserveQuarantine, ObserverBoundPasses, ObserverSettles, ObserverChecks
    <3>5. QED
      BY Zenon, <3>1, <3>2, <3>3, <3>4 DEF GuardNext
  <2>2. kept' = {}
    BY Zenon, <1>1, <2>1 DEF GuardInv, GuardTypes, Settle, SettleFuture, Return, Outcome, NoDoubt
  <2>3. QED
    BY Zenon, <2>2 DEF GuardInv, Kept, LeaksAreKept, Leaked
<1>2. Acknowledged => Leaked = {}
  BY Zenon DEF Acknowledged, GuardInv, Kept, LeaksAreKept
<1>3. QED
  BY Zenon, <1>1, <1>2 DEF CleanStep

(* For any number of calls: work that outlived its call stays in quarantine
   until it ends, a bad end is never forgotten, and a clean answer leaves
   nothing of an earlier call running. *)
THEOREM NothingLeaksEver == GuardSpec => NothingLeaks
<1>1. GuardInv => LeaksAreKept /\ BadEndingsStay
  BY Zenon DEF GuardInv, Kept
<1>2. QED
  BY <1>1, GuardInvInit, GuardInvStep, CleanSteps, PTL DEF GuardSpec, NothingLeaks, CleanMeansQuiet

-----------------------------------------------------------------------------
(***************************************************************************)
(* Transactions. The task that holds the writer lock is the one whose unit *)
(* of work is between the lock and its release, and the thread works for   *)
(* nobody else. An open handle belongs to that task; a handle that would   *)
(* not close may be anybody's, but then the registry counts it and nothing *)
(* more opens.                                                             *)
(***************************************************************************)

Calls == {"begin", "work", "commit", "rollback", "exit"}
Opened == {"active", "work", "commit", "rollback", "leaving", "exit"}
After == {"leaving", "exit", "stuck", "done"}
Holding == Opened \cup {"locked", "begin", "stuck"}

TxTypes ==
    /\ phase \in [Task -> Holding \cup {"new", "waiting", "done"}]
    /\ handle \in [Task -> {"none", "open", "failed"}]
    /\ sync \in [Task -> [begun : BOOLEAN, finished : BOOLEAN, closed : BOOLEAN]]
    /\ thread \in {NoCall} \cup [task : Task, op : Calls]
    /\ asked \subseteq Task /\ committed \subseteq Task /\ offered \subseteq Task

(* One task between the lock and its release; the thread works for it; and
   after the shutdown there is none. *)
Locking ==
    /\ \A t \in Task : phase[t] \in Holding <=> holder = t
    /\ thread # NoCall => phase[thread.task] = thread.op
    /\ \A t \in Task : phase[t] \in Calls => thread = [task |-> t, op |-> phase[t]]
    /\ closed => holder = Nobody /\ queue = << >>

(* No handle, or the handle of one task, with the registry's counts. *)
Handles ==
    \/ /\ \A t \in Task : handle[t] = "none"
       /\ registry = [live |-> 0, failed |-> 0]
    \/ \E t \in Task :
         /\ handle[t] # "none" /\ \A u \in Task \ {t} : handle[u] = "none"
         /\ registry = [live |-> 1, failed |-> IF handle[t] = "failed" THEN 1 ELSE 0]

OpenIsHeld == \A t \in Task : handle[t] = "open" => phase[t] \in Opened

(* What is committed is over, and announced if that was asked for. *)
Signals ==
    /\ offered \subseteq committed /\ committed \cap asked \subseteq offered
    /\ \A t \in committed : phase[t] \in After

TxInv == TxTypes /\ Locking /\ Handles /\ OpenIsHeld /\ Signals

(* The name that stands for no task is not a task. *)
NobodyApart == Nobody \notin Task

(* The invariant holds before any unit of work is entered. *)
LEMMA TxInvInit == NobodyApart /\ TxInit => TxInv
  BY DEF NobodyApart, TxInit, TxInv, TxTypes, Locking, Handles, OpenIsHeld, Signals, NoSync,
         Holding, Opened, Calls

(* A call that returns returns to the task that holds the lock. *)
LEMMA ReturnsToHolder ==
  ASSUME TxInv, NEW t \in Task, NEW op \in Calls, Returned(t, op)
  PROVE  phase[t] = op /\ holder = t
<1>1. thread = [task |-> t, op |-> op] /\ thread # NoCall
  BY Zenon DEF Returned, NoCall, Calls
<1>2. phase[t] = op
  BY Zenon, <1>1 DEF TxInv, Locking
<1>3. QED
  BY Zenon, <1>2 DEF TxInv, Locking, Holding, Opened, Calls

(* When nothing failed to close, a task about to open finds no handle. *)
LEMMA NoHandle ==
  ASSUME TxInv, NEW t \in Task, phase[t] = "begin", holder = t, registry.failed = 0
  PROVE  (\A u \in Task : handle[u] = "none") /\ registry = [live |-> 0, failed |-> 0]
<1>1. \A u \in Task : handle[u] # "open"
  BY Zenon DEF TxInv, Locking, OpenIsHeld, Holding, Opened
<1>2. \A u \in Task : handle[u] # "failed"
  BY DEF TxInv, Handles
<1>3. QED
  BY Zenon, <1>1, <1>2 DEF TxInv, TxTypes, Handles

(* Every step of a task, of the thread, of the finalizer and of the factory
   preserves the invariant. *)
LEMMA TxInvStep == NobodyApart /\ TxInv /\ [TxNext]_txVars => TxInv'
<1> SUFFICES ASSUME NobodyApart, TxInv, [TxNext]_txVars PROVE TxInv'
  BY Zenon
<1>1. CASE UNCHANGED txVars
  BY SMTT(20), <1>1 DEF txVars, TxInv, TxTypes, Locking, Handles, OpenIsHeld, Signals
<1>2. ASSUME NEW t \in Task, Enter(t) PROVE TxInv'
  <2>1. TxTypes'
    BY Zenon, <1>2 DEF Enter, Goes, EntryAllowed, data, factory, TxInv, TxTypes, NoCall, Holding, Opened,
         Calls
  <2>2. Locking'
    BY <1>2 DEF Enter, Goes, EntryAllowed, data, factory, TxInv, TxTypes, Locking, NobodyApart,
         NoCall, Holding, Opened, Calls
  <2>3. Handles'
    BY Zenon, <1>2 DEF Enter, Goes, EntryAllowed, data, factory, TxInv, TxTypes, Locking, Handles,
         OpenIsHeld, NoCall, Holding, Opened, Calls
  <2>4. OpenIsHeld'
    BY Zenon, <1>2 DEF Enter, Goes, EntryAllowed, data, factory, TxInv, TxTypes, Locking, OpenIsHeld,
         NoCall, Holding, Opened, Calls
  <2>5. Signals'
    BY Zenon, <1>2 DEF Enter, Goes, EntryAllowed, data, factory, TxInv, TxTypes, Locking, Signals, After,
         NoCall, Holding, Opened, Calls
  <2>6. QED
    BY Zenon, <2>1, <2>2, <2>3, <2>4, <2>5 DEF TxInv
<1>3. ASSUME NEW t \in Task, Granted(t) PROVE TxInv'
  <2>1. TxTypes'
    BY Zenon, <1>3 DEF Granted, Goes, data, factory, TxInv, TxTypes, NoCall, Holding, Opened, Calls
  <2>2. Locking'
    BY Zenon, <1>3 DEF Granted, Goes, data, factory, TxInv, TxTypes, Locking, NobodyApart, NoCall, Holding,
         Opened, Calls
  <2>3. Handles'
    BY Zenon, <1>3 DEF Granted, Goes, data, factory, TxInv, TxTypes, Locking, Handles, OpenIsHeld, NoCall,
         Holding, Opened, Calls
  <2>4. OpenIsHeld'
    BY Zenon, <1>3 DEF Granted, Goes, data, factory, TxInv, TxTypes, Locking, OpenIsHeld, NoCall, Holding,
         Opened, Calls
  <2>5. Signals'
    BY Zenon, <1>3 DEF Granted, Goes, data, factory, TxInv, TxTypes, Locking, Signals, After, NoCall,
         Holding, Opened, Calls
  <2>6. QED
    BY Zenon, <2>1, <2>2, <2>3, <2>4, <2>5 DEF TxInv
<1>4. ASSUME NEW t \in Task, Begin(t) PROVE TxInv'
  <2>1. TxTypes'
    BY <1>4 DEF Begin, Goes, EntryAllowed, Submit, Release, data, factory, TxInv, TxTypes, NoCall,
         Holding, Opened, Calls
  <2>2. Locking'
    BY <1>4 DEF Begin, Goes, EntryAllowed, Submit, Release, data, factory, TxInv, TxTypes, Locking,
         NobodyApart, NoCall, Holding, Opened, Calls
  <2>3. Handles'
    BY Zenon, <1>4 DEF Begin, Goes, EntryAllowed, Submit, Release, data, factory, TxInv, TxTypes, Locking,
         Handles, OpenIsHeld, NoCall, Holding, Opened, Calls
  <2>4. OpenIsHeld'
    BY Zenon, <1>4 DEF Begin, Goes, EntryAllowed, Submit, Release, data, factory, TxInv, TxTypes, Locking,
         OpenIsHeld, NoCall, Holding, Opened, Calls
  <2>5. Signals'
    BY Zenon, <1>4 DEF Begin, Goes, EntryAllowed, Submit, Release, data, factory, TxInv, TxTypes, Locking,
         Signals, After, NoCall, Holding, Opened, Calls
  <2>6. QED
    BY Zenon, <2>1, <2>2, <2>3, <2>4, <2>5 DEF TxInv
<1>5. ASSUME NEW t \in Task, ThreadBegins(t) PROVE TxInv'
  <2>0. phase[t] = "begin" /\ holder = t
    BY Zenon, <1>5, ReturnsToHolder DEF ThreadBegins, Calls
  <2>1. TxTypes'
    <3>1. sync' \in [Task -> [begun : BOOLEAN, finished : BOOLEAN, closed : BOOLEAN]]
      BY Zenon, <1>5, <2>0 DEF ThreadBegins, TxInv, TxTypes
    <3>2. handle' \in [Task -> {"none", "open", "failed"}]
      BY Zenon, <1>5, <2>0 DEF ThreadBegins, OpenSqlcipher, Guard, Count, Unblocked, TxInv, TxTypes
    <3>3. QED
      BY Zenon, <1>5, <2>0, <3>1, <3>2 DEF ThreadBegins, Returned, OpenSqlcipher, Guard, Count, Unblocked,
           Goes, factory, TxInv, TxTypes, Holding, Opened, Calls
  <2>2. Locking'
    BY Zenon, <1>5, <2>0 DEF ThreadBegins, Returned, OpenSqlcipher, Guard, Count, Unblocked, Goes, factory,
         TxInv, TxTypes, Locking, NobodyApart, NoCall, Holding, Opened, Calls
  <2>3. Handles'
    <3>1. (\A u \in Task : handle[u] = "none") /\ registry = [live |-> 0, failed |-> 0]
      BY Zenon, <1>5, <2>0, NoHandle DEF ThreadBegins, OpenSqlcipher, Guard, Count, Unblocked
    <3>2. registry' = [live |-> 1, failed |-> 0] /\ handle' = [handle EXCEPT ![t] = "open"]
      BY <1>5, <3>1 DEF ThreadBegins, OpenSqlcipher, Guard, Count, Unblocked
    <3>3. QED
      BY Zenon, <3>1, <3>2 DEF TxInv, TxTypes, Handles
  <2>4. OpenIsHeld'
    BY Zenon, <1>5, <2>0 DEF ThreadBegins, Returned, OpenSqlcipher, Guard, Count, Unblocked, Goes, factory,
         TxInv, TxTypes, Locking, OpenIsHeld, Holding, Opened, Calls
  <2>5. Signals'
    BY Zenon, <1>5, <2>0 DEF ThreadBegins, Returned, OpenSqlcipher, Guard, Count, Unblocked, Goes, factory,
         TxInv, TxTypes, Locking, Signals, After, Holding, Opened, Calls
  <2>6. QED
    BY Zenon, <2>1, <2>2, <2>3, <2>4, <2>5 DEF TxInv
<1>6. ASSUME NEW t \in Task, ThreadCannotOpen(t) PROVE TxInv'
  <2>0. phase[t] = "begin" /\ holder = t
    BY Zenon, <1>6, ReturnsToHolder DEF ThreadCannotOpen, Unblocked, Calls
  <2>1. TxTypes'
    <3>1. sync' \in [Task -> [begun : BOOLEAN, finished : BOOLEAN, closed : BOOLEAN]]
      BY Zenon, <1>6, <2>0 DEF ThreadCannotOpen, Unblocked, TxInv, TxTypes
    <3>2. handle' \in [Task -> {"none", "open", "failed"}]
      BY Zenon, <1>6, <2>0 DEF ThreadCannotOpen, Unblocked, LeaveOpen, Guard, Count, TxInv, TxTypes
    <3>3. QED
      BY Zenon, <1>6, <2>0, <3>1, <3>2 DEF ThreadCannotOpen, Unblocked, Returned, Release, Goes, LeaveOpen,
           Guard, Count, factory, TxInv, TxTypes, Holding, Opened, Calls
  <2>2. Locking'
    BY Zenon, <1>6, <2>0 DEF ThreadCannotOpen, Unblocked, Returned, Release, Goes, LeaveOpen, Guard, Count,
         factory, TxInv, TxTypes, Locking, NobodyApart, NoCall, Holding, Opened, Calls
  <2>3. Handles'
    <3>1. CASE UNCHANGED <<handle, registry>>
      BY Zenon, <3>1 DEF TxInv, Handles
    <3>2. CASE registry.failed = 0 /\ LeaveOpen(t)
      <4>1. (\A u \in Task : handle[u] = "none") /\ registry = [live |-> 0, failed |-> 0]
        BY Zenon, <2>0, <3>2, NoHandle
      <4>2. registry' = [live |-> 1, failed |-> 1] /\ handle' = [handle EXCEPT ![t] = "failed"]
        BY <3>2, <4>1 DEF LeaveOpen, Guard, Count
      <4>3. QED
        BY Zenon, <4>1, <4>2 DEF TxInv, TxTypes, Handles
    <3>3. QED
      BY Zenon, <1>6, <3>1, <3>2 DEF ThreadCannotOpen, Unblocked
  <2>4. OpenIsHeld'
    BY Zenon, <1>6, <2>0 DEF ThreadCannotOpen, Unblocked, Returned, Release, Goes, LeaveOpen, Guard, Count,
         factory, TxInv, TxTypes, Locking, OpenIsHeld, Holding, Opened, Calls
  <2>5. Signals'
    BY Zenon, <1>6, <2>0 DEF ThreadCannotOpen, Unblocked, Returned, Release, Goes, LeaveOpen, Guard, Count,
         factory, TxInv, TxTypes, Locking, Signals, After, Holding, Opened, Calls
  <2>6. QED
    BY Zenon, <2>1, <2>2, <2>3, <2>4, <2>5 DEF TxInv
<1>7. ASSUME NEW t \in Task, ThreadCannotBegin(t) PROVE TxInv'
  <2>0. phase[t] = "begin" /\ holder = t
    BY Zenon, <1>7, ReturnsToHolder DEF ThreadCannotBegin, Calls
  <2>1. TxTypes'
    BY Zenon, <1>7, <2>0 DEF ThreadCannotBegin, Returned, LeaveOpen, Guard, Count, Goes, factory, TxInv,
         TxTypes, Holding, Opened, Calls
  <2>2. Locking'
    BY SMTT(20), <1>7, <2>0 DEF ThreadCannotBegin, Returned, LeaveOpen, Guard, Count, Goes, factory, TxInv,
         TxTypes, Locking, NobodyApart, NoCall, Holding, Opened, Calls
  <2>3. Handles'
    <3>1. (\A u \in Task : handle[u] = "none") /\ registry = [live |-> 0, failed |-> 0]
      BY Zenon, <1>7, <2>0, NoHandle DEF ThreadCannotBegin, Unblocked
    <3>2. registry' = [live |-> 1, failed |-> 1] /\ handle' = [handle EXCEPT ![t] = "failed"]
      BY <1>7, <3>1 DEF ThreadCannotBegin, LeaveOpen, Guard, Count
    <3>3. QED
      BY Zenon, <3>1, <3>2 DEF TxInv, TxTypes, Handles
  <2>4. OpenIsHeld'
    BY Zenon, <1>7, <2>0 DEF ThreadCannotBegin, Returned, LeaveOpen, Guard, Count, Goes, factory, TxInv,
         TxTypes, Locking, OpenIsHeld, Holding, Opened, Calls
  <2>5. Signals'
    BY Zenon, <1>7, <2>0 DEF ThreadCannotBegin, Returned, LeaveOpen, Guard, Count, Goes, factory, TxInv,
         TxTypes, Locking, Signals, After, Holding, Opened, Calls
  <2>6. QED
    BY Zenon, <2>1, <2>2, <2>3, <2>4, <2>5 DEF TxInv
<1>8. ASSUME NEW t \in Task, RunSync(t) PROVE TxInv'
  <2>1. TxTypes'
    BY Zenon, <1>8 DEF RunSync, Submit, Goes, data, factory, TxInv, TxTypes, NoCall, Holding, Opened, Calls
  <2>2. Locking'
    BY Zenon, <1>8 DEF RunSync, Submit, Goes, data, factory, TxInv, TxTypes, Locking, NobodyApart, NoCall,
         Holding, Opened, Calls
  <2>3. Handles'
    BY Zenon, <1>8 DEF RunSync, Submit, Goes, data, factory, TxInv, TxTypes, Locking, Handles, OpenIsHeld,
         NoCall, Holding, Opened, Calls
  <2>4. OpenIsHeld'
    BY Zenon, <1>8 DEF RunSync, Submit, Goes, data, factory, TxInv, TxTypes, Locking, OpenIsHeld, NoCall,
         Holding, Opened, Calls
  <2>5. Signals'
    BY Zenon, <1>8 DEF RunSync, Submit, Goes, data, factory, TxInv, TxTypes, Locking, Signals, After,
         NoCall, Holding, Opened, Calls
  <2>6. QED
    BY Zenon, <2>1, <2>2, <2>3, <2>4, <2>5 DEF TxInv
<1>9. ASSUME NEW t \in Task, ThreadWorked(t) PROVE TxInv'
  <2>0. phase[t] = "work" /\ holder = t
    BY SMTT(20), <1>9, ReturnsToHolder DEF ThreadWorked, Calls
  <2>1. TxTypes'
    BY Zenon, <1>9, <2>0 DEF ThreadWorked, Returned, Goes, data, factory,
         TxInv, TxTypes, NoCall, Holding, Opened, Calls
  <2>2. Locking'
    BY Zenon, <1>9, <2>0 DEF ThreadWorked, Returned, Goes, data, factory,
         TxInv, TxTypes, Locking, NobodyApart, NoCall, Holding, Opened, Calls
  <2>3. Handles' /\ OpenIsHeld'
    BY ZenonT(40), <1>9, <2>0 DEF ThreadWorked, Returned, Goes, data, factory,
         TxInv, TxTypes, Locking, Handles, OpenIsHeld, NoCall, Holding, Opened, Calls
  <2>4. Signals'
    BY Zenon, <1>9, <2>0 DEF ThreadWorked, Returned, Goes, data, factory,
         TxInv, TxTypes, Locking, Signals, After, NoCall, Holding, Opened, Calls
  <2>5. QED
    BY Zenon, <2>1, <2>2, <2>3, <2>4 DEF TxInv
<1>10. ASSUME NEW t \in Task, ResultRejected(t) PROVE TxInv'
  <2>1. TxTypes'
    BY Zenon, <1>10 DEF ResultRejected, QuarantineBoundaryRejection, Returned, Goes, TxInv, TxTypes,
         NoCall, Holding, Opened, Calls
  <2>2. Locking'
    BY Zenon, <1>10 DEF ResultRejected, QuarantineBoundaryRejection, Returned, Goes, TxInv, TxTypes,
         Locking, NobodyApart, NoCall, Holding, Opened, Calls
  <2>3. Handles'
    BY ZenonT(40), <1>10 DEF ResultRejected, QuarantineBoundaryRejection, Returned, Goes, TxInv, TxTypes,
         Locking, Handles, OpenIsHeld, NoCall, Holding, Opened, Calls
  <2>4. OpenIsHeld'
    BY Zenon, <1>10 DEF ResultRejected, QuarantineBoundaryRejection, Returned, Goes, TxInv, TxTypes,
         Locking, OpenIsHeld, NoCall, Holding, Opened, Calls
  <2>5. Signals'
    BY Zenon, <1>10 DEF ResultRejected, QuarantineBoundaryRejection, Returned, Goes, TxInv, TxTypes,
         Locking, Signals, After, NoCall, Holding, Opened, Calls
  <2>6. QED
    BY Zenon, <2>1, <2>2, <2>3, <2>4, <2>5 DEF TxInv
<1>11. ASSUME NEW t \in Task, SignalAfterCommit(t) PROVE TxInv'
  <2>1. TxTypes'
    BY Zenon, <1>11 DEF SignalAfterCommit, factory, TxInv, TxTypes, NoCall, Holding, Opened, Calls
  <2>2. Locking'
    BY Zenon, <1>11 DEF SignalAfterCommit, factory, TxInv, TxTypes, Locking, NobodyApart, NoCall, Holding,
         Opened, Calls
  <2>3. Handles'
    BY Zenon, <1>11 DEF SignalAfterCommit, factory, TxInv, TxTypes, Locking, Handles, OpenIsHeld, NoCall,
         Holding, Opened, Calls
  <2>4. OpenIsHeld'
    BY Zenon, <1>11 DEF SignalAfterCommit, factory, TxInv, TxTypes, Locking, OpenIsHeld, NoCall, Holding,
         Opened, Calls
  <2>5. Signals'
    BY Zenon, <1>11 DEF SignalAfterCommit, factory, TxInv, TxTypes, Locking, Signals, After, NoCall,
         Holding, Opened, Calls
  <2>6. QED
    BY Zenon, <2>1, <2>2, <2>3, <2>4, <2>5 DEF TxInv
<1>12. ASSUME NEW t \in Task, Commit(t) PROVE TxInv'
  <2>1. TxTypes'
    BY Zenon, <1>12 DEF Commit, Submit, Goes, data, factory, TxInv, TxTypes, NoCall, Holding, Opened, Calls
  <2>2. Locking'
    BY Zenon, <1>12 DEF Commit, Submit, Goes, data, factory, TxInv, TxTypes, Locking, NobodyApart, NoCall,
         Holding, Opened, Calls
  <2>3. Handles'
    BY Zenon, <1>12 DEF Commit, Submit, Goes, data, factory, TxInv, TxTypes, Locking, Handles, OpenIsHeld,
         NoCall, Holding, Opened, Calls
  <2>4. OpenIsHeld'
    BY Zenon, <1>12 DEF Commit, Submit, Goes, data, factory, TxInv, TxTypes, Locking, OpenIsHeld, NoCall,
         Holding, Opened, Calls
  <2>5. Signals'
    BY Zenon, <1>12 DEF Commit, Submit, Goes, data, factory, TxInv, TxTypes, Locking, Signals, After,
         NoCall, Holding, Opened, Calls
  <2>6. QED
    BY Zenon, <2>1, <2>2, <2>3, <2>4, <2>5 DEF TxInv
<1>13. ASSUME NEW t \in Task, ThreadCommits(t) PROVE TxInv'
  <2>0. phase[t] = "commit" /\ holder = t
    BY Zenon, <1>13, ReturnsToHolder DEF ThreadCommits, Calls
  <2>1. TxTypes'
    <3>1. sync' \in [Task -> [begun : BOOLEAN, finished : BOOLEAN, closed : BOOLEAN]]
      BY ZenonT(40), <1>13, <2>0 DEF ThreadCommits, TxInv, TxTypes
    <3>2. handle' \in [Task -> {"none", "open", "failed"}]
      BY Zenon, <1>13, <2>0 DEF ThreadCommits, TxInv, TxTypes
    <3>3. QED
      BY Zenon, <1>13, <2>0, <3>1, <3>2 DEF ThreadCommits, Returned, Goes, factory, TxInv, TxTypes,
           Holding, Opened, Calls
  <2>2. Locking'
    BY Zenon, <1>13, <2>0 DEF ThreadCommits, Returned, Goes, factory, TxInv, TxTypes, Locking, NobodyApart,
         NoCall, Holding, Opened, Calls
  <2>3. Handles'
    BY Zenon, <1>13, <2>0 DEF ThreadCommits, Returned, Goes, factory, TxInv, TxTypes, Locking, Handles,
         OpenIsHeld, NobodyApart, Holding, Opened, Calls
  <2>4. OpenIsHeld'
    BY Zenon, <1>13, <2>0 DEF ThreadCommits, Returned, Goes, factory, TxInv, TxTypes, Locking, OpenIsHeld,
         Holding, Opened, Calls
  <2>5. Signals'
    BY <1>13, <2>0 DEF ThreadCommits, Returned, Goes, factory, TxInv, TxTypes, Locking, Signals,
         After, Holding, Opened, Calls
  <2>6. QED
    BY Zenon, <2>1, <2>2, <2>3, <2>4, <2>5 DEF TxInv
<1>14. ASSUME NEW t \in Task, ThreadCannotCommit(t) PROVE TxInv'
  <2>1. TxTypes'
    BY Zenon, <1>14 DEF ThreadCannotCommit, Returned, Goes, data, factory, TxInv, TxTypes, NoCall, Holding,
         Opened, Calls
  <2>2. Locking'
    BY ZenonT(40), <1>14 DEF ThreadCannotCommit, Returned, Goes, data, factory, TxInv, TxTypes, Locking,
         NobodyApart, NoCall, Holding, Opened, Calls
  <2>3. Handles'
    BY Zenon, <1>14 DEF ThreadCannotCommit, Returned, Goes, data, factory, TxInv, TxTypes, Locking,
         Handles, OpenIsHeld, NoCall, Holding, Opened, Calls
  <2>4. OpenIsHeld'
    BY Zenon, <1>14 DEF ThreadCannotCommit, Returned, Goes, data, factory, TxInv, TxTypes, Locking,
         OpenIsHeld, NoCall, Holding, Opened, Calls
  <2>5. Signals'
    BY Zenon, <1>14 DEF ThreadCannotCommit, Returned, Goes, data, factory, TxInv, TxTypes, Locking,
         Signals, After, NoCall, Holding, Opened, Calls
  <2>6. QED
    BY Zenon, <2>1, <2>2, <2>3, <2>4, <2>5 DEF TxInv
<1>15. ASSUME NEW t \in Task, Rollback(t) PROVE TxInv'
  <2>1. TxTypes'
    BY Zenon, <1>15 DEF Rollback, Submit, Goes, factory, TxInv, TxTypes, NoCall, Holding, Opened, Calls
  <2>2. Locking'
    BY Zenon, <1>15 DEF Rollback, Submit, Goes, factory, TxInv, TxTypes, Locking, NobodyApart, NoCall,
         Holding, Opened, Calls
  <2>3. Handles'
    BY Zenon, <1>15 DEF Rollback, Submit, Goes, factory, TxInv, TxTypes, Locking, Handles, OpenIsHeld,
         NoCall, Holding, Opened, Calls
  <2>4. OpenIsHeld'
    BY Zenon, <1>15 DEF Rollback, Submit, Goes, factory, TxInv, TxTypes, Locking, OpenIsHeld, NoCall,
         Holding, Opened, Calls
  <2>5. Signals'
    BY Zenon, <1>15 DEF Rollback, Submit, Goes, factory, TxInv, TxTypes, Locking, Signals, After, NoCall,
         Holding, Opened, Calls
  <2>6. QED
    BY Zenon, <2>1, <2>2, <2>3, <2>4, <2>5 DEF TxInv
<1>16. ASSUME NEW t \in Task, Exit(t) PROVE TxInv'
  <2>1. TxTypes'
    BY Zenon, <1>16 DEF Exit, Submit, Goes, data, factory, TxInv, TxTypes, NoCall, Holding, Opened, Calls
  <2>2. Locking'
    BY Zenon, <1>16 DEF Exit, Submit, Goes, data, factory, TxInv, TxTypes, Locking, NobodyApart, NoCall,
         Holding, Opened, Calls
  <2>3. Handles'
    BY Zenon, <1>16 DEF Exit, Submit, Goes, data, factory, TxInv, TxTypes, Locking, Handles, OpenIsHeld,
         NoCall, Holding, Opened, Calls
  <2>4. OpenIsHeld'
    BY Zenon, <1>16 DEF Exit, Submit, Goes, data, factory, TxInv, TxTypes, Locking, OpenIsHeld, NoCall,
         Holding, Opened, Calls
  <2>5. Signals'
    BY Zenon, <1>16 DEF Exit, Submit, Goes, data, factory, TxInv, TxTypes, Locking, Signals, After, NoCall,
         Holding, Opened, Calls
  <2>6. QED
    BY Zenon, <2>1, <2>2, <2>3, <2>4, <2>5 DEF TxInv
<1>17. ASSUME NEW t \in Task, Aclose(t) PROVE TxInv'
  <2>1. TxTypes'
    BY Zenon, <1>17 DEF Aclose, Submit, Goes, data, factory, TxInv, TxTypes, NoCall, Holding, Opened, Calls
  <2>2. Locking'
    BY Zenon, <1>17 DEF Aclose, Submit, Goes, data, factory, TxInv, TxTypes, Locking, NobodyApart, NoCall,
         Holding, Opened, Calls
  <2>3. Handles'
    BY Zenon, <1>17 DEF Aclose, Submit, Goes, data, factory, TxInv, TxTypes, Locking, Handles, OpenIsHeld,
         NoCall, Holding, Opened, Calls
  <2>4. OpenIsHeld'
    BY Zenon, <1>17 DEF Aclose, Submit, Goes, data, factory, TxInv, TxTypes, Locking, OpenIsHeld, NoCall,
         Holding, Opened, Calls
  <2>5. Signals'
    BY Zenon, <1>17 DEF Aclose, Submit, Goes, data, factory, TxInv, TxTypes, Locking, Signals, After,
         NoCall, Holding, Opened, Calls
  <2>6. QED
    BY Zenon, <2>1, <2>2, <2>3, <2>4, <2>5 DEF TxInv
<1>18. ASSUME NEW t \in Task, ThreadCloses(t) PROVE TxInv'
  <2>0. phase[t] = "exit" /\ holder = t
    BY Zenon, <1>18, ReturnsToHolder DEF ThreadCloses, Calls
  <2>1. TxTypes'
    <3>1. sync' \in [Task -> [begun : BOOLEAN, finished : BOOLEAN, closed : BOOLEAN]]
      BY Zenon, <1>18, <2>0 DEF ThreadCloses, TxInv, TxTypes
    <3>2. handle' \in [Task -> {"none", "open", "failed"}]
      BY Zenon, <1>18, <2>0 DEF ThreadCloses, CloseSqlcipher, Guard, Count, Failed, TxInv, TxTypes
    <3>3. QED
      BY <1>18, <2>0, <3>1, <3>2 DEF ThreadCloses, Returned, CloseSqlcipher, Guard, Count, Failed,
           ReleaseTerminalOwnership, Release, Goes, factory, TxInv, TxTypes, Holding, Opened, Calls
  <2>2. Locking'
    <3>1. sync'[t].closed
      BY Zenon, <1>18 DEF ThreadCloses, TxInv, TxTypes
    <3>2. holder' = Nobody /\ phase' = [phase EXCEPT ![t] = "done"]
      BY Zenon, <1>18, <3>1 DEF ThreadCloses, ReleaseTerminalOwnership, Release, Goes
    <3>3. UNCHANGED <<queue, closed>> /\ thread' = NoCall
      BY Zenon, <1>18 DEF ThreadCloses, Returned, factory
    <3>4. thread = [task |-> t, op |-> "exit"]
      BY Zenon, <1>18 DEF ThreadCloses, Returned
    <3>5. QED
      BY Zenon, <2>0, <3>2, <3>3, <3>4
      DEF TxInv, TxTypes, Locking, NobodyApart, Holding, Opened, Calls
  <2>3. Handles'
    BY <1>18, <2>0 DEF ThreadCloses, Returned, CloseSqlcipher, Guard, Count, Failed,
         ReleaseTerminalOwnership, Release, Goes, factory, TxInv, TxTypes, Locking, Handles,
         OpenIsHeld, NobodyApart, Holding, Opened, Calls
  <2>4. OpenIsHeld'
    BY Zenon, <1>18, <2>0 DEF ThreadCloses, Returned, CloseSqlcipher, Guard, Count, Failed,
         ReleaseTerminalOwnership, Release, Goes, factory, TxInv, TxTypes, Locking, OpenIsHeld,
         Holding, Opened, Calls
  <2>5. Signals'
    BY SMTT(20), <1>18, <2>0 DEF ThreadCloses, Returned, CloseSqlcipher, Guard, Count, Failed,
         ReleaseTerminalOwnership, Release, Goes, factory, TxInv, TxTypes, Locking, Signals, After,
         Holding, Opened, Calls
  <2>6. QED
    BY Zenon, <2>1, <2>2, <2>3, <2>4, <2>5 DEF TxInv
<1>19. ASSUME NEW t \in Task, Finalize(t) PROVE TxInv'
  <2>1. TxTypes'
    BY Zenon, <1>19 DEF Finalize, CloseSqlcipher, Guard, Count, Failed, factory, TxInv, TxTypes, NoCall,
         Holding, Opened, Calls
  <2>2. Locking'
    BY Zenon, <1>19 DEF Finalize, CloseSqlcipher, Guard, Count, Failed, factory, TxInv, TxTypes, Locking,
         NobodyApart, NoCall, Holding, Opened, Calls
  <2>3. Handles'
    BY <1>19 DEF Finalize, CloseSqlcipher, Guard, Count, Failed, factory, TxInv, TxTypes, Locking,
         Handles, OpenIsHeld, NoCall, Holding, Opened, Calls
  <2>4. OpenIsHeld'
    BY ZenonT(40), <1>19 DEF Finalize, CloseSqlcipher, Guard, Count, Failed, factory, TxInv, TxTypes, Locking,
         OpenIsHeld, NoCall, Holding, Opened, Calls
  <2>5. Signals'
    BY Zenon, <1>19 DEF Finalize, CloseSqlcipher, Guard, Count, Failed, factory, TxInv, TxTypes, Locking,
         Signals, After, NoCall, Holding, Opened, Calls
  <2>6. QED
    BY Zenon, <2>1, <2>2, <2>3, <2>4, <2>5 DEF TxInv
<1>20. ASSUME NEW t \in Task, Cancel(t) PROVE TxInv'
  <2>1. TxTypes'
    BY Zenon, <1>20 DEF Cancel, Goes, data, factory, TxInv, TxTypes, Holding, Opened, Calls
  <2>2. Locking'
    <3>1. UNCHANGED <<holder, thread, closed>>
      BY Zenon, <1>20 DEF Cancel, factory
    <3>2. CASE phase[t] = "waiting" /\ Goes(t, "done") /\ ~closed
      BY Zenon, <3>1, <3>2 DEF Goes, TxInv, TxTypes, Locking, Holding, Opened, Calls
    <3>3. CASE phase[t] = "active" /\ Goes(t, "leaving") /\ UNCHANGED queue
      BY Zenon, <3>1, <3>3 DEF Goes, TxInv, TxTypes, Locking, Holding, Opened, Calls
    <3>4. CASE UNCHANGED <<phase, queue>>
      BY Zenon, <3>1, <3>4 DEF TxInv, Locking
    <3>5. closed => 1..Len(queue) = {}
      BY DEF TxInv, Locking
    <3>6. \/ phase[t] = "waiting" /\ Goes(t, "done") /\ 1..Len(queue) # {}
          \/ phase[t] = "active" /\ Goes(t, "leaving") /\ UNCHANGED queue
          \/ UNCHANGED <<phase, queue>>
      BY Zenon, <1>20, Zenon DEF Cancel
    <3>7. QED
      BY Zenon, <3>2, <3>3, <3>4, <3>5, <3>6, Zenon
  <2>3. Handles'
    BY Zenon, <1>20 DEF Cancel, Goes, data, factory, TxInv, TxTypes, Locking, Handles, OpenIsHeld,
         NobodyApart, Holding, Opened, Calls
  <2>4. OpenIsHeld'
    BY Zenon, <1>20 DEF Cancel, Goes, data, factory, TxInv, TxTypes, Locking, OpenIsHeld, Holding, Opened,
         Calls
  <2>5. Signals'
    BY Zenon, <1>20 DEF Cancel, Goes, data, factory, TxInv, TxTypes, Locking, Signals, After, Holding,
         Opened, Calls
  <2>6. QED
    BY Zenon, <2>1, <2>2, <2>3, <2>4, <2>5 DEF TxInv
<1>21. ASSUME NEW t \in Task, NEW b \in BOOLEAN, ThreadRollsBack(t, b) PROVE TxInv'
  <2>1. TxTypes'
    BY <1>21 DEF ThreadRollsBack, Returned, Goes, data, factory,
         TxInv, TxTypes, NoCall, Holding, Opened, Calls
  <2>2. Locking'
    BY Zenon, <1>21 DEF ThreadRollsBack, Returned, Goes, data, factory,
         TxInv, TxTypes, Locking, NobodyApart, NoCall, Holding, Opened, Calls
  <2>3. Handles' /\ OpenIsHeld'
    BY <1>21 DEF ThreadRollsBack, Returned, Goes, data, factory,
         TxInv, TxTypes, Locking, Handles, OpenIsHeld, NoCall, Holding, Opened, Calls
  <2>4. Signals'
    BY Zenon, <1>21 DEF ThreadRollsBack, Returned, Goes, data, factory,
         TxInv, TxTypes, Locking, Signals, After, NoCall, Holding, Opened, Calls
  <2>5. QED
    BY Zenon, <2>1, <2>2, <2>3, <2>4 DEF TxInv
<1>22. ASSUME NEW t \in Task, NEW b \in BOOLEAN, ThreadCannotClose(t, b) PROVE TxInv'
  <2>0. phase[t] = "exit" /\ holder = t
    BY Zenon, <1>22, ReturnsToHolder DEF ThreadCannotClose, Calls
  <2>1. TxTypes'
    BY SMTT(20), <1>22, <2>0 DEF ThreadCannotClose, Returned, CloseFails, Guard, Count, Failed,
         ReleaseTerminalOwnership, Release, Goes, factory, TxInv, TxTypes, Holding, Opened, Calls
  <2>2. Locking'
    BY <1>22, <2>0 DEF ThreadCannotClose, Returned, CloseFails, Guard, Count, Failed,
         ReleaseTerminalOwnership, Release, Goes, factory, TxInv, TxTypes, Locking, NobodyApart,
         NoCall, Holding, Opened, Calls
  <2>3. Handles'
    <3>1. /\ handle[t] # "none" /\ handle' = [handle EXCEPT ![t] = "failed"]
          /\ registry' = [live |-> registry.live + 0, failed |-> registry.failed + (1 - Failed(t))]
      BY Zenon, <1>22 DEF ThreadCannotClose, CloseFails, Guard, Count
    <3>2. /\ \A u \in Task \ {t} : handle[u] = "none"
          /\ registry = [live |-> 1, failed |-> IF handle[t] = "failed" THEN 1 ELSE 0]
      BY Zenon, <3>1 DEF TxInv, Handles
    <3>3. registry' = [live |-> 1, failed |-> 1]
      BY <3>1, <3>2 DEF Failed
    <3>4. QED
      BY Zenon, <3>1, <3>2, <3>3 DEF TxInv, TxTypes, Handles
  <2>4. OpenIsHeld'
    BY Zenon, <1>22, <2>0 DEF ThreadCannotClose, Returned, CloseFails, Guard, Count, Failed,
         ReleaseTerminalOwnership, Release, Goes, factory, TxInv, TxTypes, Locking, OpenIsHeld,
         Holding, Opened, Calls
  <2>5. Signals'
    BY SMTT(20), <1>22, <2>0 DEF ThreadCannotClose, Returned, CloseFails, Guard, Count, Failed,
         ReleaseTerminalOwnership, Release, Goes, factory, TxInv, TxTypes, Locking, Signals, After,
         Holding, Opened, Calls
  <2>6. QED
    BY Zenon, <2>1, <2>2, <2>3, <2>4, <2>5 DEF TxInv
<1>23. CASE CloseFactory
  <2>1. UNCHANGED <<phase, holder, queue, thread, sync, handle, registry, asked, committed, offered, closed>>
    BY Zenon, <1>23 DEF CloseFactory, data
  <2>2. TxTypes' /\ Locking'
    BY Zenon, <2>1 DEF TxInv, TxTypes, Locking
  <2>3. Handles' /\ OpenIsHeld' /\ Signals'
    BY Zenon, <2>1 DEF TxInv, Handles, OpenIsHeld, Signals
  <2>4. QED
    BY Zenon, <2>2, <2>3 DEF TxInv
<1>24. CASE ShutDown
  <2>1. /\ UNCHANGED <<phase, holder, queue, thread, sync, handle, registry, asked, committed, offered>>
        /\ holder = Nobody /\ queue = << >>
    BY Zenon, <1>24 DEF ShutDown, data
  <2>2. TxTypes' /\ Locking'
    BY Zenon, <2>1 DEF TxInv, TxTypes, Locking
  <2>3. Handles' /\ OpenIsHeld' /\ Signals'
    BY Zenon, <2>1 DEF TxInv, Handles, OpenIsHeld, Signals
  <2>4. QED
    BY Zenon, <2>2, <2>3 DEF TxInv
<1>25. QED
  BY Zenon, <1>1, <1>2, <1>3, <1>4, <1>5, <1>6, <1>7, <1>8, <1>9, <1>10, <1>11, <1>12, <1>13, <1>14,
       <1>15, <1>16, <1>17, <1>18, <1>19, <1>20, <1>21, <1>22, <1>23, <1>24
  DEF TxNext

(* The invariant says what the property counts. *)
LEMMA TxInvSound == NobodyApart /\ TxInv => TransactionsAreSound
<1> SUFFICES ASSUME NobodyApart, TxInv PROVE TransactionsAreSound
  BY Zenon
<1> DEFINE Alive == {t \in Task : handle[t] # "none"}
           Faulted == {t \in Task : handle[t] = "failed"}
           Counted == /\ Cardinality(Alive) <= 1 /\ registry.live = Cardinality(Alive)
                      /\ registry.failed = Cardinality(Faulted)
<1>1. Counted
  <2>1. CASE \A t \in Task : handle[t] = "none"
    <3>1. Alive = {} /\ Faulted = {}
      BY Zenon, <2>1
    <3>2. registry = [live |-> 0, failed |-> 0]
      BY Zenon, <2>1 DEF TxInv, Handles
    <3>3. QED
      BY <3>1, <3>2, FS_EmptySet
  <2>2. ASSUME NEW t \in Task, handle[t] # "none", \A u \in Task \ {t} : handle[u] = "none",
               registry = [live |-> 1, failed |-> IF handle[t] = "failed" THEN 1 ELSE 0]
        PROVE Counted
    <3>1. Alive = {t} /\ Faulted = IF handle[t] = "failed" THEN {t} ELSE {}
      BY <2>2
    <3>2. Cardinality(Alive) = 1
      BY Zenon, <3>1, FS_Singleton
    <3>3. Cardinality(Faulted) = IF handle[t] = "failed" THEN 1 ELSE 0
      BY Zenon, <3>1, FS_EmptySet, FS_Singleton
    <3>4. QED
      BY <2>2, <3>2, <3>3
  <2>3. QED
    BY Zenon, <2>1, <2>2 DEF TxInv, Handles
<1>2. OneWriter
  <2>1. \A t \in Task : handle[t] = "open" => holder = t
    BY Zenon DEF TxInv, OpenIsHeld, Locking, Holding
  <2>2. closed => thread = NoCall
    BY Zenon DEF TxInv, TxTypes, Locking, Holding, Opened, Calls, NobodyApart
  <2>3. QED
    BY Zenon, <1>1, <2>1, <2>2 DEF OneWriter
<1>3. CommittedIsAnnounced
  BY Zenon DEF TxInv, Signals, CommittedIsAnnounced
<1>4. QED
  BY Zenon, <1>1, <1>2, <1>3 DEF TransactionsAreSound, HandlesAreCounted

(* For any number of tasks, faults and cancellations: at most one connection
   is alive and only the holder of the lock has a usable one, a change is
   announced exactly when it was committed, and every handle is counted. *)
THEOREM SoundAlways == NobodyApart => (TxSpec => []TransactionsAreSound)
<1> SUFFICES ASSUME NobodyApart PROVE TxSpec => []TransactionsAreSound
  BY Zenon
<1>1. TxInit => TxInv
  BY Zenon, TxInvInit
<1>2. TxInv /\ [TxNext]_txVars => TxInv'
  BY Zenon, TxInvStep
<1>3. TxInv => TransactionsAreSound
  BY Zenon, TxInvSound
<1>4. QED
  BY <1>1, <1>2, <1>3, PTL DEF TxSpec

-----------------------------------------------------------------------------
(***************************************************************************)
(* The receipts of spoken answers, for any tasks, authorizations, answers, *)
(* keys, failures and restarts.                                            *)
(***************************************************************************)

Commitments == [key : ReceiptKey, answer : AnswerText]
Receipts == [commit : Commitments, key : ReceiptKey]
Tables == [usage : [Authorization -> {NoUsage, 1}], bound : [Authorization -> SUBSET Commitments],
           rows : [Authorization -> SUBSET Receipts], audits : [Authorization -> Seq(Commitments)]]

InTx == {"load", "insert", "audit", "commit"}
Places == InTx \cup {"record", "recorded", "verified", "refused", "done"}
Request == [at : Places, auth : Authorization, answer : AnswerText, usage : UsageIds, said : Nat]

ReceiptTypes ==
    /\ tables \in Tables /\ keyId \in ReceiptKey
    /\ answering \in [Validation -> {[at |-> "idle"]} \cup Request]

\* What the three tables hold of one authorization: nothing, or one answer everywhere.
WholeAt(t, a) ==
    \/ t.bound[a] = {} /\ t.rows[a] = {} /\ t.audits[a] = <<>>
    \/ \E c \in Commitments, k \in ReceiptKey :
          t.bound[a] = {c} /\ t.rows[a] = {[commit |-> c, key |-> k]} /\ t.audits[a] = <<c>>

\* How far the open transaction is ahead of the committed tables.
Ahead(p) ==
    LET a == answering[p].auth
        c == Commitment(answering[p].answer)
        bound == [tables EXCEPT !.bound[a] = {c}]
        inserted == [bound EXCEPT !.rows[a] = {[commit |-> c, key |-> keyId]}]
    IN  /\ answering[p].at = "load" => inTransaction = tables
        /\ answering[p].at \in {"insert", "audit", "commit"} => tables.bound[a] = {}
        /\ answering[p].at = "insert" => inTransaction = bound
        /\ answering[p].at = "audit" => inTransaction = inserted
        /\ answering[p].at = "commit" => inTransaction = [inserted EXCEPT !.audits[a] = <<c>>]

\* The answer of a request that got through is the one the receipt holds.
Proven(p) ==
    answering[p].at \in {"verified", "done"} =>
        \E row \in tables.rows[answering[p].auth] : row.commit.answer = answering[p].answer

ReceiptInv ==
    /\ ReceiptTypes
    /\ \A a \in Authorization : WholeAt(tables, a)
    /\ \A p \in Validation : answering[p].at \in InTx <=> owner = {p}
    /\ \A p \in Validation : Ahead(p)
    /\ \A p \in Validation : Proven(p)

\* No receipt is there at first.
LEMMA ReceiptInvInit == ReceiptInit => ReceiptInv
<1> SUFFICES ASSUME ReceiptInit PROVE ReceiptInv
  BY Zenon
<1>1. ReceiptTypes
  BY DEF ReceiptInit, ReceiptTypes, Tables, NoUsage
<1>2. \A a \in Authorization : WholeAt(tables, a)
  BY Zenon DEF ReceiptInit, WholeAt
<1>3. \A p \in Validation : answering[p].at = "idle" /\ owner = {}
  BY Zenon DEF ReceiptInit
<1> QED
  BY Zenon, <1>1, <1>2, <1>3 DEF ReceiptInv, Ahead, Proven, InTx

\* A request that goes to another place stays the same request, and is the only one to go.
LEMMA RequestMoves ==
  ASSUME ReceiptTypes, NEW p \in Validation, answering[p].at # "idle", NEW place \in Places,
         AnswerTo(p, place)
  PROVE  /\ answering' \in [Validation -> {[at |-> "idle"]} \cup Request]
         /\ answering[p].auth \in Authorization /\ answering[p].answer \in AnswerText
         /\ answering'[p].at = place /\ answering'[p].auth = answering[p].auth
         /\ answering'[p].answer = answering[p].answer
         /\ \A q \in Validation : q # p => answering'[q] = answering[q]
<1>1. answering[p] \in Request
  BY DEF ReceiptTypes
<1> QED
  BY Zenon, <1>1 DEF ReceiptTypes, AnswerTo, Request

\* Nobody else is inside a transaction.
LEMMA OnlyOwner ==
  ASSUME ReceiptInv, NEW p \in Validation, owner = {p} \/ owner = {}, NEW q \in Validation, q # p
  PROVE  answering[q].at \notin InTx
  BY Zenon DEF ReceiptInv

\* A request that stays put over the same tables is as proven as it was.
LEMMA StaysProven ==
  ASSUME NEW q \in Validation, Proven(q), answering'[q] = answering[q], tables' = tables
  PROVE  Proven(q)'
  BY Zenon DEF Proven

\* The same tables are as whole as they were.
LEMMA StaysWhole ==
  ASSUME ReceiptInv, tables' = tables, keyId' \in ReceiptKey,
         answering' \in [Validation -> {[at |-> "idle"]} \cup Request]
  PROVE  ReceiptTypes' /\ \A a \in Authorization : WholeAt(tables, a)'
<1>1. \A a \in Authorization : WholeAt(tables, a)'
  BY Zenon DEF ReceiptInv, WholeAt
<1>2. ReceiptTypes'
  BY Zenon DEF ReceiptInv, ReceiptTypes
<1> QED
  BY Zenon, <1>1, <1>2

\* A step that leaves the tables and the key alone, outside of a transaction or to leave it.
LEMMA StepsOutside ==
  ASSUME ReceiptInv, NEW p \in Validation, NEW place \in Places \ InTx, answering[p].at # "idle",
         AnswerTo(p, place), owner' = {}, UNCHANGED <<tables, keyId>>, owner = {} \/ owner = {p},
         place \in {"verified", "done"} =>
            \E row \in tables.rows[answering[p].auth] : row.commit.answer = answering[p].answer
  PROVE  ReceiptInv'
<1>0. ReceiptTypes
  BY Zenon DEF ReceiptInv
<1>1. /\ answering' \in [Validation -> {[at |-> "idle"]} \cup Request]
      /\ answering'[p].at = place /\ answering'[p].auth = answering[p].auth
      /\ answering'[p].answer = answering[p].answer
      /\ \A q \in Validation : q # p => answering'[q] = answering[q]
  BY Zenon, <1>0, RequestMoves
<1>2. \A q \in Validation : answering'[q].at \notin InTx
  BY Zenon, <1>1, OnlyOwner
<1>3. \A q \in Validation : Ahead(q)'
  BY Zenon, <1>2 DEF Ahead, InTx
<1>4. ASSUME NEW q \in Validation PROVE Proven(q)'
  <2>1. CASE q = p
    BY Zenon, <1>1, <2>1 DEF Proven
  <2>2. CASE q # p
    BY Zenon, <1>1, <2>2, StaysProven DEF ReceiptInv
  <2> QED
    BY Zenon, <2>1, <2>2
<1>5. ReceiptTypes' /\ \A a \in Authorization : WholeAt(tables, a)'
  BY Zenon, <1>0, <1>1, StaysWhole DEF ReceiptTypes
<1>6. \A q \in Validation : owner' # {q}
  BY Zenon
<1> QED
  BY Zenon, <1>2, <1>3, <1>4, <1>5, <1>6 DEF ReceiptInv

\* A step inside of p's transaction that takes it one table further.
LEMMA StepsInside ==
  ASSUME ReceiptInv, NEW p \in Validation, NEW place \in InTx, answering[p].at # "idle",
         AnswerTo(p, place), owner' = {p}, UNCHANGED <<tables, keyId>>, owner = {} \/ owner = {p},
         Ahead(p)'
  PROVE  ReceiptInv'
<1>0. ReceiptTypes
  BY Zenon DEF ReceiptInv
<1>1. /\ answering' \in [Validation -> {[at |-> "idle"]} \cup Request]
      /\ answering'[p].at = place
      /\ \A q \in Validation : q # p => answering'[q] = answering[q]
  BY Zenon, <1>0, RequestMoves DEF Places
<1>2. \A q \in Validation : q # p => answering'[q].at \notin InTx
  BY Zenon, <1>1, OnlyOwner
<1>3. \A q \in Validation : Ahead(q)'
  BY Zenon, <1>2 DEF Ahead, InTx
<1>4. ASSUME NEW q \in Validation PROVE Proven(q)'
  <2>1. CASE q = p
    BY Zenon, <1>1, <2>1 DEF Proven, InTx
  <2>2. CASE q # p
    BY Zenon, <1>1, <2>2, StaysProven DEF ReceiptInv
  <2> QED
    BY Zenon, <2>1, <2>2
<1>5. ReceiptTypes' /\ \A a \in Authorization : WholeAt(tables, a)'
  BY Zenon, <1>0, <1>1, StaysWhole DEF ReceiptTypes
<1>6. \A q \in Validation : answering'[q].at \in InTx <=> owner' = {q}
  BY Zenon, <1>1, <1>2
<1> QED
  BY Zenon, <1>3, <1>4, <1>5, <1>6 DEF ReceiptInv

\* What the transaction has written when it comes to its commit.
LEMMA CommitWrites ==
  ASSUME ReceiptInv, NEW p \in Validation, answering[p].at = "commit"
  PROVE  /\ inTransaction \in Tables
         /\ \A a \in Authorization : WholeAt(inTransaction, a)
         /\ \A a \in Authorization : tables.rows[a] \subseteq inTransaction.rows[a]
<1> DEFINE a == answering[p].auth
           c == Commitment(answering[p].answer)
           r == [commit |-> c, key |-> keyId]
<1>1. /\ tables \in Tables /\ keyId \in ReceiptKey /\ a \in Authorization
      /\ answering[p].answer \in AnswerText
  BY DEF ReceiptInv, ReceiptTypes, Request
<1>2. c \in Commitments /\ r \in Receipts /\ <<c>> \in Seq(Commitments)
  BY <1>1 DEF Commitment, Commitments, Receipts
<1>3. /\ tables.bound[a] = {}
      /\ inTransaction = [[[tables EXCEPT !.bound[a] = {c}] EXCEPT !.rows[a] = {r}] EXCEPT !.audits[a] = <<c>>]
  BY Zenon DEF ReceiptInv, Ahead
<1> HIDE DEF a, c, r
<1>4. /\ inTransaction \in Tables
      /\ inTransaction.bound = [tables.bound EXCEPT ![a] = {c}]
      /\ inTransaction.rows = [tables.rows EXCEPT ![a] = {r}]
      /\ inTransaction.audits = [tables.audits EXCEPT ![a] = <<c>>]
  BY Zenon, <1>1, <1>2, <1>3 DEF Tables
<1>5. tables.rows[a] = {}
  BY Zenon, <1>1, <1>3 DEF ReceiptInv, WholeAt
<1>6. WholeAt(inTransaction, a)
  BY ZenonT(40), <1>1, <1>2, <1>4 DEF WholeAt, Tables, r
<1>7. ASSUME NEW b \in Authorization, b # a PROVE WholeAt(inTransaction, b)
  <2>1. /\ inTransaction.bound[b] = tables.bound[b] /\ inTransaction.rows[b] = tables.rows[b]
        /\ inTransaction.audits[b] = tables.audits[b]
    BY Zenon, <1>1, <1>4, <1>7 DEF Tables
  <2> QED
    BY <1>7, <2>1 DEF ReceiptInv, WholeAt
<1>8. \A b \in Authorization : tables.rows[b] \subseteq inTransaction.rows[b]
  BY Zenon, <1>1, <1>4, <1>5 DEF Tables
<1> QED
  BY Zenon, <1>4, <1>6, <1>7, <1>8

\* A step of a request that is, and stays, outside of a transaction.
LEMMA OutsideMoves ==
  ASSUME ReceiptInv, NEW p \in Validation, answering[p].at \notin InTx, NEW to \in {[at |-> "idle"]} \cup Request,
         answering' = [answering EXCEPT ![p] = to], to.at \notin InTx,
         UNCHANGED <<tables, inTransaction, owner, keyId>>,
         to.at \in {"verified", "done"} =>
            \E row \in tables.rows[to.auth] : row.commit.answer = to.answer
  PROVE  ReceiptInv'
<1>1. /\ answering' \in [Validation -> {[at |-> "idle"]} \cup Request]
      /\ answering'[p] = to /\ \A q \in Validation : q # p => answering'[q] = answering[q]
  BY Zenon DEF ReceiptInv, ReceiptTypes
<1>2. ReceiptTypes' /\ \A a \in Authorization : WholeAt(tables, a)'
  <2>1. keyId' \in ReceiptKey
    BY Zenon DEF ReceiptInv, ReceiptTypes
  <2> QED
    BY Zenon, <1>1, <2>1, StaysWhole
<1>3. \A q \in Validation : answering'[q].at \in InTx <=> owner' = {q}
  BY Zenon, <1>1 DEF ReceiptInv
<1>4. ASSUME NEW q \in Validation PROVE Ahead(q)'
  <2>1. CASE q = p
    BY Zenon, <1>1, <2>1 DEF Ahead, InTx
  <2>2. CASE q # p
    BY Zenon, <1>1, <2>2 DEF ReceiptInv, Ahead, Commitment
  <2> QED
    BY Zenon, <2>1, <2>2
<1>5. \A q \in Validation : Proven(q)'
  BY Zenon, <1>1 DEF ReceiptInv, Proven
<1> QED
  BY Zenon, <1>2, <1>3, <1>4, <1>5 DEF ReceiptInv

\* Every step keeps the invariant.
LEMMA ReceiptInvStep == ReceiptInv /\ [ReceiptNext]_receiptVars => ReceiptInv'
<1> SUFFICES ASSUME ReceiptInv, [ReceiptNext]_receiptVars PROVE ReceiptInv'
  BY Zenon
<1>0. ReceiptTypes
  BY Zenon DEF ReceiptInv
<1>1. ASSUME NEW a \in Authorization, UsageChanges(a) PROVE ReceiptInv'
  <2>1. /\ tables' \in Tables /\ owner = {} /\ UNCHANGED <<owner, answering, keyId>>
        /\ tables'.bound = tables.bound /\ tables'.rows = tables.rows /\ tables'.audits = tables.audits
    <3>1. PICK v \in {NoUsage, 1} : tables' = [tables EXCEPT !.usage[a] = v]
      BY Zenon, <1>1 DEF UsageChanges
    <3>2. tables \in Tables
      BY Zenon, <1>0 DEF ReceiptTypes
    <3>3. tables' \in Tables
      BY Zenon, <3>1, <3>2 DEF Tables
    <3>4. tables'.bound = tables.bound /\ tables'.rows = tables.rows /\ tables'.audits = tables.audits
      BY Zenon, <3>1, <3>2 DEF Tables
    <3> QED
      BY Zenon, <1>1, <3>3, <3>4 DEF UsageChanges
  <2>2. \A q \in Validation : answering[q].at \notin InTx /\ Ahead(q)'
    <3>1. \A q \in Validation : answering[q].at \notin InTx
      BY Zenon, <2>1 DEF ReceiptInv
    <3> QED
      BY Zenon, <2>1, <3>1 DEF Ahead, InTx
  <2>3. ASSUME NEW b \in Authorization PROVE WholeAt(tables, b)'
    <3>1. WholeAt(tables, b)
      BY Zenon DEF ReceiptInv
    <3> QED
      BY Zenon, <2>1, <3>1 DEF WholeAt
  <2>4. \A q \in Validation : Proven(q)'
    BY Zenon, <2>1 DEF ReceiptInv, Proven
  <2> QED
    BY Zenon, <1>0, <2>1, <2>2, <2>3, <2>4 DEF ReceiptInv, ReceiptTypes
<1>2. CASE Withdraw \/ UNCHANGED receiptVars
  <2>1. UNCHANGED <<tables, inTransaction, owner, answering, keyId>>
    BY Zenon, <1>2 DEF Withdraw, receiptVars
  <2>2. ASSUME NEW b \in Authorization PROVE WholeAt(tables, b)'
    <3>1. WholeAt(tables, b)
      BY Zenon DEF ReceiptInv
    <3> QED
      BY Zenon, <2>1, <3>1 DEF WholeAt
  <2>3. \A q \in Validation : Ahead(q)'
    BY Zenon, <2>1 DEF ReceiptInv, Ahead, Commitment
  <2>4. \A q \in Validation : Proven(q)'
    BY Zenon, <2>1 DEF ReceiptInv, Proven
  <2> QED
    BY Zenon, <1>0, <2>1, <2>2, <2>3, <2>4 DEF ReceiptInv, ReceiptTypes
<1>3. CASE Restart
  <2>1. /\ owner' = {} /\ tables' = tables /\ keyId' \in ReceiptKey
        /\ answering' = [q \in Validation |->
              IF answering[q].at \in {"verified", "done"}
              THEN [answering[q] EXCEPT !.at = "done"] ELSE [at |-> "idle"]]
    BY Zenon, <1>3 DEF Restart
  <2>2. ASSUME NEW q \in Validation
        PROVE  /\ answering'[q] \in {[at |-> "idle"]} \cup Request
               /\ answering'[q].at \notin InTx
               /\ Proven(q)'
    <3>1. CASE answering[q].at \in {"verified", "done"}
      <4>1. answering[q] \in Request
        BY <1>0, <3>1 DEF ReceiptTypes
      <4>2. /\ answering'[q] \in Request /\ answering'[q].at = "done"
            /\ answering'[q].auth = answering[q].auth /\ answering'[q].answer = answering[q].answer
        BY Zenon, <2>1, <3>1, <4>1 DEF Request, Places
      <4> QED
        BY <2>1, <3>1, <4>2 DEF ReceiptInv, Proven, InTx
    <3>2. CASE answering[q].at \notin {"verified", "done"}
      <4>1. answering'[q] = [at |-> "idle"]
        BY Zenon, <2>1, <3>2
      <4> QED
        BY <4>1 DEF Proven, InTx
    <3> QED
      BY Zenon, <3>1, <3>2
  <2>3. ReceiptTypes'
    BY Zenon, <1>0, <2>1, <2>2 DEF ReceiptTypes
  <2>4. \A q \in Validation : Ahead(q)'
    BY Zenon, <2>2 DEF Ahead, InTx
  <2>5. ASSUME NEW b \in Authorization PROVE WholeAt(tables, b)'
    <3>1. WholeAt(tables, b)
      BY Zenon DEF ReceiptInv
    <3> QED
      BY Zenon, <2>1, <3>1 DEF WholeAt
  <2> QED
    BY Zenon, <2>1, <2>2, <2>3, <2>4, <2>5 DEF ReceiptInv
<1>4. ASSUME NEW p \in Validation, NEW a \in Authorization, NEW t \in AnswerText, NEW u \in UsageIds,
             Validate(p, a, t, u)
      PROVE  ReceiptInv'
  <2> DEFINE to == [at |-> "record", auth |-> a, answer |-> t, usage |-> u, said |-> 0]
  <2>1. to \in Request /\ to.at = "record" /\ answering' = [answering EXCEPT ![p] = to]
    BY Zenon, <1>4 DEF Validate, Request, Places
  <2>2. answering[p].at = "idle" /\ UNCHANGED <<tables, inTransaction, owner, keyId>>
    BY Zenon, <1>4 DEF Validate
  <2> HIDE DEF to
  <2> QED
    BY Zenon, <2>1, <2>2, OutsideMoves DEF InTx
<1>5. ASSUME NEW p \in Validation, Again(p) PROVE ReceiptInv'
  <2>1. /\ answering[p].at = "refused" /\ UNCHANGED <<tables, inTransaction, owner, keyId>>
        /\ answering' = [answering EXCEPT ![p] = [at |-> "idle"]]
    BY Zenon, <1>5 DEF Again
  <2> QED
    BY Zenon, <2>1, OutsideMoves DEF InTx
<1>6. ASSUME NEW p \in Validation, Speak(p) PROVE ReceiptInv'
  <2>1. answering[p].at = "verified" /\ UNCHANGED <<tables, inTransaction, owner, keyId>>
    BY Zenon, <1>6 DEF Speak
  <2>2. answering[p] \in Request
    BY <1>0, <2>1 DEF ReceiptTypes
  <2>3. PICK to : /\ answering' = [answering EXCEPT ![p] = to]
                  /\ \/ to = [answering[p] EXCEPT !.said = @ + 1]
                     \/ to = [answering[p] EXCEPT !.at = "done"]
    BY Zenon, <1>0, <1>6 DEF Speak, AnswerTo
  <2>4. /\ to \in Request /\ to.at \in {"verified", "done"}
        /\ to.auth = answering[p].auth /\ to.answer = answering[p].answer
    BY <2>1, <2>2, <2>3 DEF Request, Places
  <2>5. \E row \in tables.rows[to.auth] : row.commit.answer = to.answer
    BY Zenon, <2>1, <2>4 DEF ReceiptInv, Proven
  <2>6. answering[p].at \notin InTx /\ to.at \notin InTx
    BY Zenon, <2>1, <2>4 DEF InTx
  <2> QED
    BY Zenon, <2>1, <2>3, <2>4, <2>5, <2>6, OutsideMoves
<1>7. ASSUME NEW p \in Validation, RequireExact(p) PROVE ReceiptInv'
  <2>1. answering[p].at = "recorded" /\ owner = {} /\ UNCHANGED <<tables, owner, keyId>>
    BY Zenon, <1>7 DEF RequireExact
  <2>2. CASE AnswerTo(p, "verified") /\ \E row \in tables.rows[Auth(p)] : RequireReceiptExact(p, row)
    <3>1. \E row \in tables.rows[answering[p].auth] : row.commit.answer = answering[p].answer
      BY <2>2 DEF RequireReceiptExact, Commitment, Auth, Of
    <3> QED
      BY Zenon, <2>1, <2>2, <3>1, StepsOutside DEF Places, InTx
  <2>3. CASE AnswerTo(p, "refused")
    BY Zenon, <2>1, <2>3, StepsOutside DEF Places, InTx
  <2> QED
    BY Zenon, <1>7, <2>2, <2>3 DEF RequireExact
<1>8. ASSUME NEW p \in Validation, NEW place \in {"recorded", "refused"}, RecordRollsBack(p, place),
             keyId' = keyId, owner = {p}
      PROVE  ReceiptInv'
  <2>1. answering[p].at # "idle" /\ AnswerTo(p, place) /\ owner' = {} /\ UNCHANGED tables
    BY Zenon, <1>8 DEF RecordRollsBack, ReceiptInv, InTx
  <2> QED
    BY Zenon, <1>8, <2>1, StepsOutside DEF Places, InTx
<1>9. ASSUME NEW p \in Validation, answering[p].at \in InTx PROVE owner = {p}
  BY Zenon, <1>9 DEF ReceiptInv
<1>10. ASSUME NEW p \in Validation, RecordAgain(p) \/ RecordUnverified(p) \/ RecordRaises(p) PROVE ReceiptInv'
  <2>1. keyId' = keyId /\ owner = {p}
    BY Zenon, <1>9, <1>10 DEF RecordAgain, RecordUnverified, RecordRaises, InTx
  <2> QED
    BY Zenon, <1>8, <1>10, <2>1 DEF RecordAgain, RecordUnverified, RecordRaises
<1>11. ASSUME NEW p \in Validation, Open(p) PROVE ReceiptInv'
  <2>1. /\ answering[p].at = "record" /\ owner = {} /\ owner' = {p} /\ UNCHANGED <<tables, keyId>>
        /\ inTransaction' = tables /\ AnswerTo(p, "load")
    BY Zenon, <1>11 DEF Open
  <2>2. answering'[p].at = "load"
    BY Zenon, <1>0, <2>1, RequestMoves DEF Places, InTx
  <2>3. Ahead(p)'
    BY Zenon, <2>1, <2>2 DEF Ahead
  <2> QED
    BY Zenon, <2>1, <2>3, StepsInside DEF InTx
<1>12. ASSUME NEW p \in Validation, RecordBinds(p) PROVE ReceiptInv'
  <2>1. /\ answering[p].at = "load" /\ keyId' = keyId /\ owner = {p} /\ inTransaction = tables
    BY Zenon, <1>9, <1>12 DEF RecordBinds, InTx, ReceiptInv, Ahead
  <2>2. CASE RecordRollsBack(p, "refused")
    BY Zenon, <1>8, <2>1, <2>2
  <2>3. CASE /\ tables.bound[Auth(p)] = {} /\ AnswerTo(p, "insert") /\ UNCHANGED <<tables, owner>>
             /\ inTransaction' = [tables EXCEPT !.bound[Auth(p)] = {Commitment(Of(p).answer)}]
    <3>1. /\ answering'[p].at = "insert" /\ answering'[p].auth = answering[p].auth
          /\ answering'[p].answer = answering[p].answer
      BY Zenon, <1>0, <2>1, <2>3, RequestMoves DEF Places, InTx
    <3>2. Ahead(p)'
      BY Zenon, <2>1, <2>3, <3>1 DEF Ahead, Auth, Of, Commitment
    <3> QED
      BY Zenon, <2>1, <2>3, <3>2, StepsInside DEF InTx
  <2> QED
    BY Zenon, <1>12, <2>1, <2>2, <2>3 DEF RecordBinds
<1>13. ASSUME NEW p \in Validation, RecordInserts(p) PROVE ReceiptInv'
  <2>1. /\ answering[p].at = "insert" /\ owner = {p} /\ AnswerTo(p, "audit")
        /\ UNCHANGED <<tables, owner, keyId>>
        /\ inTransaction' = [inTransaction EXCEPT !.rows[Auth(p)] =
                                {[commit |-> Commitment(Of(p).answer), key |-> keyId]}]
    BY Zenon, <1>9, <1>13 DEF RecordInserts, InTx
  <2>2. /\ tables.bound[Auth(p)] = {}
        /\ inTransaction = [tables EXCEPT !.bound[Auth(p)] = {Commitment(Of(p).answer)}]
    BY Zenon, <2>1 DEF ReceiptInv, Ahead, Auth, Of
  <2>3. /\ answering'[p].at = "audit" /\ answering'[p].auth = answering[p].auth
        /\ answering'[p].answer = answering[p].answer
    BY Zenon, <1>0, <2>1, RequestMoves DEF Places, InTx
  <2>4. Ahead(p)'
    BY Zenon, <2>1, <2>2, <2>3 DEF Ahead, Auth, Of, Commitment
  <2> QED
    BY Zenon, <2>1, <2>4, StepsInside DEF InTx
<1>14. ASSUME NEW p \in Validation, RecordAudits(p) PROVE ReceiptInv'
  <2> DEFINE a == Auth(p)
             c == Commitment(Of(p).answer)
             inserted == [[tables EXCEPT !.bound[a] = {c}] EXCEPT !.rows[a] = {[commit |-> c, key |-> keyId]}]
  <2>1. /\ answering[p].at = "audit" /\ owner = {p} /\ AnswerTo(p, "commit")
        /\ UNCHANGED <<tables, owner, keyId>>
        /\ inTransaction' = [inTransaction EXCEPT !.audits[a] = Append(@, c)]
    BY Zenon, <1>9, <1>14 DEF RecordAudits, InTx
  <2>2. tables.bound[a] = {} /\ inTransaction = inserted
    BY Zenon, <2>1 DEF ReceiptInv, Ahead, Auth, Of
  <2>3. a \in Authorization /\ tables \in Tables
    BY Zenon, <1>0, <2>1, RequestMoves DEF Places, InTx, Auth, ReceiptTypes
  <2>4. inserted.audits[a] = <<>>
    <3>1. tables.audits[a] = <<>>
      BY ZenonT(40), <2>2, <2>3 DEF ReceiptInv, WholeAt
    <3> QED
      BY Zenon, <2>3, <3>1 DEF Tables
  <2>5. inTransaction' = [inserted EXCEPT !.audits[a] = <<c>>]
    <3>1. Append(<<>>, c) = <<c>>
      OBVIOUS
    <3>2. inTransaction' = [inserted EXCEPT !.audits = [@ EXCEPT ![a] = Append(inserted.audits[a], c)]]
      BY Zenon, <2>1, <2>2
    <3> QED
      BY Zenon, <2>4, <3>1, <3>2
  <2>6. /\ answering'[p].at = "commit" /\ answering'[p].auth = answering[p].auth
        /\ answering'[p].answer = answering[p].answer
    BY Zenon, <1>0, <2>1, RequestMoves DEF Places, InTx
  <2>7. Ahead(p)'
    BY Zenon, <2>1, <2>2, <2>5, <2>6 DEF Ahead, Auth, Of, Commitment
  <2> QED
    BY Zenon, <2>1, <2>7, StepsInside DEF InTx
<1>15. ASSUME NEW p \in Validation, RecordCommits(p) PROVE ReceiptInv'
  <2>1. /\ answering[p].at = "commit" /\ owner = {p} /\ owner' = {} /\ tables' = inTransaction
        /\ keyId' = keyId /\ \E place \in {"recorded", "refused"} : AnswerTo(p, place)
    BY Zenon, <1>9, <1>15 DEF RecordCommits, InTx
  <2>2. /\ tables' \in Tables /\ \A a \in Authorization : WholeAt(tables, a)'
        /\ \A a \in Authorization : tables.rows[a] \subseteq tables'.rows[a]
    BY Zenon, <2>1, CommitWrites DEF WholeAt
  <2>3. /\ answering' \in [Validation -> {[at |-> "idle"]} \cup Request]
        /\ answering'[p].at \in {"recorded", "refused"}
        /\ \A q \in Validation : q # p => answering'[q] = answering[q]
    BY Zenon, <1>0, <2>1, RequestMoves DEF Places
  <2>4. \A q \in Validation : answering'[q].at \notin InTx /\ owner' # {q}
    BY Zenon, <2>1, <2>3, OnlyOwner DEF InTx
  <2>5. \A q \in Validation : Ahead(q)'
    BY Zenon, <2>4 DEF Ahead, InTx
  <2>6. ASSUME NEW q \in Validation PROVE Proven(q)'
    <3>1. CASE q = p
      BY Zenon, <2>3, <3>1 DEF Proven
    <3>2. CASE q # p
      <4>1. ASSUME answering[q].at \in {"verified", "done"} PROVE answering[q].auth \in Authorization
        <5>1. answering[q] \in Request
          BY <1>0, <4>1 DEF ReceiptTypes
        <5> QED
          BY Zenon, <5>1 DEF Request
      <4> QED
        BY Zenon, <2>2, <2>3, <3>2, <4>1 DEF ReceiptInv, Proven
    <3> QED
      BY Zenon, <3>1, <3>2
  <2> QED
    BY Zenon, <1>0, <2>1, <2>2, <2>3, <2>4, <2>5, <2>6 DEF ReceiptInv, ReceiptTypes
<1> QED
  BY Zenon, <1>1, <1>2, <1>3, <1>4, <1>5, <1>6, <1>7, <1>10, <1>11, <1>12, <1>13, <1>14, <1>15 DEF ReceiptNext

\* Whatever fails between the writes, and however many tasks validate answers of one
\* authorization under whichever keys: the call, the receipt and the ledger hold the same
\* answer or none of them does, and only that answer is spoken.
THEOREM AnswersAlwaysRecorded == ReceiptSpec => []AnswersAreRecorded
<1>1. ReceiptInv => AnswersAreRecorded
  <2> SUFFICES ASSUME ReceiptInv PROVE AnswersAreRecorded
    BY Zenon
  <2>1. ASSUME NEW a \in Authorization
        PROVE  \/ tables.bound[a] = {} /\ tables.rows[a] = {} /\ tables.audits[a] = <<>>
               \/ \E c \in tables.bound[a] :
                     /\ tables.bound[a] = {c}
                     /\ {row.commit : row \in tables.rows[a]} = {c}
                     /\ tables.audits[a] = <<c>>
    <3>1. WholeAt(tables, a)
      BY Zenon DEF ReceiptInv
    <3>2. CASE \E c \in Commitments, k \in ReceiptKey :
                 tables.bound[a] = {c} /\ tables.rows[a] = {[commit |-> c, key |-> k]} /\ tables.audits[a] = <<c>>
      <4>1. PICK c \in Commitments, k \in ReceiptKey :
               tables.bound[a] = {c} /\ tables.rows[a] = {[commit |-> c, key |-> k]} /\ tables.audits[a] = <<c>>
        BY Zenon, <3>2
      <4>2. {row.commit : row \in tables.rows[a]} = {c}
        BY <4>1
      <4> QED
        BY Zenon, <4>1, <4>2
    <3> QED
      BY Zenon, <3>1, <3>2 DEF WholeAt
  <2>2. OneAnswerIsSpoken
    BY Zenon DEF ReceiptInv, Proven, OneAnswerIsSpoken, Auth, Of
  <2> QED
    BY Zenon, <2>1, <2>2 DEF AnswersAreRecorded, RecordedTogether
<1>2. ReceiptSpec => []ReceiptInv
  BY ReceiptInvInit, ReceiptInvStep, PTL DEF ReceiptSpec
<1> QED
  BY <1>1, <1>2, PTL

=============================================================================
