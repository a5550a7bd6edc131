---------------------------- MODULE Transactions ----------------------------
(***************************************************************************)
(* Core's transactions: tasks of one event loop open AsyncUnitOfWork       *)
(* objects; each holds the factory's FIFO writer lock and runs every call  *)
(* of its synchronous UnitOfWork on the factory's single worker thread.    *)
(* A task cancelled while the thread works waits for the thread first.     *)
(* Underneath, each unit of work opens its own SQLCipher connection, which *)
(* the path registry counts.                                               *)
(*                                                                         *)
(*   phase    where a task is between its suspension points                *)
(*   thread   the call on the worker thread, if any                        *)
(*   sync     the UnitOfWork of each task                                  *)
(*   handle   its SQLCipher handle: none, open, or failed to close         *)
(***************************************************************************)
EXTENDS Integers, FiniteSets, Sequences

CONSTANTS Task, QuarantineLimit, MaxTxFault, MaxCancel

VARIABLES phase, holder, queue, thread, sync, handle, registry, asked, committed, offered,
          cancelled, quarantine, poisoned, closing, closed, txFaults, cancels

txVars == <<phase, holder, queue, thread, sync, handle, registry, asked, committed, offered,
            cancelled, quarantine, poisoned, closing, closed, txFaults, cancels>>
data == <<handle, registry, asked, committed, offered>>
factory == <<quarantine, poisoned, closing, closed>>

Nobody == "nobody"
NoCall == [task |-> Nobody, op |-> "none"]
NoSync == [begun |-> FALSE, finished |-> FALSE, closed |-> FALSE]

TxInit ==
  /\ phase = [t \in Task |-> "new"] /\ holder = Nobody /\ queue = << >> /\ thread = NoCall
  /\ sync = [t \in Task |-> NoSync] /\ handle = [t \in Task |-> "none"]
  /\ registry = [live |-> 0, failed |-> 0]
  /\ asked = {} /\ committed = {} /\ offered = {} /\ cancelled = {}
  /\ quarantine = 0 /\ poisoned = {} /\ closing = FALSE /\ closed = FALSE
  /\ txFaults = 0 /\ cancels = 0

-----------------------------------------------------------------------------
Active(t) == sync[t].begun /\ ~sync[t].finished /\ ~sync[t].closed
Goes(t, p) == phase' = [phase EXCEPT ![t] = p]
EntryAllowed == ~closed /\ ~closing /\ quarantine <= QuarantineLimit
Fault == txFaults < MaxTxFault /\ txFaults' = txFaults + 1
Submit(t, op) == thread = NoCall /\ thread' = [task |-> t, op |-> op] /\ Goes(t, op)

(* __aenter__ up to the lock: the factory and the entry guard first. *)
Enter(t) ==
  /\ phase[t] = "new"
  /\ IF ~EntryAllowed THEN Goes(t, "done") /\ UNCHANGED <<holder, queue>>
     ELSE IF holder = Nobody /\ queue = << >>
     THEN Goes(t, "locked") /\ holder' = t /\ UNCHANGED queue
     ELSE Goes(t, "waiting") /\ queue' = Append(queue, t) /\ UNCHANGED holder
  /\ UNCHANGED <<thread, sync, data, cancelled, factory, txFaults, cancels>>

Granted(t) ==
  /\ phase[t] = "waiting" /\ holder = Nobody /\ queue # << >> /\ Head(queue) = t
  /\ holder' = t /\ queue' = Tail(queue) /\ Goes(t, "locked")
  /\ UNCHANGED <<thread, sync, data, cancelled, factory, txFaults, cancels>>

(* _release_terminal_ownership: nothing is released before the connection is
   closed. *)
Release(t) == holder' = Nobody /\ Goes(t, "done")
ReleaseTerminalOwnership(t) ==
  IF sync'[t].closed THEN Release(t)
  ELSE UNCHANGED holder /\ Goes(t, "stuck")

(* The guard is asked again under the lock: the factory may be closing now. *)
Begin(t) ==
  /\ phase[t] = "locked"
  /\ IF EntryAllowed THEN Submit(t, "begin") /\ UNCHANGED holder
     ELSE Release(t) /\ UNCHANGED thread
  /\ UNCHANGED <<queue, sync, data, cancelled, factory, txFaults, cancels>>

-----------------------------------------------------------------------------
(* connection.py: the guard that a connection carries, and the registry that
   counts the guards: one is counted before its connection is opened and leaves
   the count only after it is closed; a failed close blocks every open. *)
Guard(t, h) == handle' = [handle EXCEPT ![t] = h]
Count(live, failed) ==
  registry' = [live |-> registry.live + live, failed |-> registry.failed + failed]
Unblocked == registry.failed = 0
Failed(t) == IF handle[t] = "failed" THEN 1 ELSE 0

\* A plausible bug: a handle that would not close does not block the next one.
OpenSqlcipherRegardless(t) == Guard(t, "open") /\ Count(1, 0)

OpenSqlcipher(t) == Unblocked /\ Guard(t, "open") /\ Count(1, 0)

CloseSqlcipher(t) == handle[t] # "none" /\ Guard(t, "none") /\ Count(-1, -Failed(t))

(* A connection that fails to initialise and then to close stays counted. *)
LeaveOpen(t) == Guard(t, "failed") /\ Count(1, 1)

CloseFails(t) == handle[t] # "none" /\ Guard(t, "failed") /\ Count(0, 1 - Failed(t))

(* UnitOfWork.__enter__ on the thread: open, then BEGIN IMMEDIATE with its
   retries.  The connection of a failed open or begin is closed again, and
   that may fail: the unit of work counts as closed after a failed open, and
   keeps the lock after a failed begin until its exit has closed it. *)
Returned(t, op) == thread = [task |-> t, op |-> op] /\ thread' = NoCall
Interrupts(t) == t \in cancelled

ThreadBegins(t) ==
  /\ Returned(t, "begin") /\ OpenSqlcipher(t)
  /\ sync' = [sync EXCEPT ![t].begun = TRUE] /\ UNCHANGED holder
  /\ Goes(t, IF Interrupts(t) THEN "leaving" ELSE "active")
  /\ UNCHANGED <<queue, asked, committed, offered, cancelled, factory, txFaults, cancels>>

ThreadCannotOpen(t) ==
  /\ Returned(t, "begin") /\ sync' = [sync EXCEPT ![t].closed = TRUE] /\ Release(t)
  /\ \/ ~Unblocked /\ UNCHANGED <<handle, registry, txFaults>>
     \/ Unblocked /\ Fault /\ UNCHANGED <<handle, registry>>
     \/ Unblocked /\ Fault /\ LeaveOpen(t)
  /\ UNCHANGED <<queue, asked, committed, offered, cancelled, factory, cancels>>

ThreadCannotBegin(t) ==
  /\ Returned(t, "begin") /\ Unblocked /\ Fault /\ LeaveOpen(t)
  /\ UNCHANGED <<sync, holder>> /\ Goes(t, "leaving")
  /\ UNCHANGED <<queue, asked, committed, offered, cancelled, factory, cancels>>

-----------------------------------------------------------------------------
(* The body: calls on the thread, requests for a signal, the outcome. *)
RunSync(t) ==
  /\ phase[t] = "active" /\ Active(t) /\ Submit(t, "work")
  /\ UNCHANGED <<holder, queue, sync, data, cancelled, factory, txFaults, cancels>>

ThreadWorked(t) ==
  /\ Returned(t, "work") /\ Goes(t, IF Interrupts(t) THEN "leaving" ELSE "active")
  /\ UNCHANGED <<holder, queue, sync, data, cancelled, factory, txFaults, cancels>>

(* A result that is not plain data is kept for good and ends the unit of work. *)
QuarantineBoundaryRejection(t) ==
  quarantine' = quarantine + 1 /\ poisoned' = poisoned \cup {t} /\ asked' = asked \ {t}
ResultRejected(t) ==
  /\ Returned(t, "work") /\ Fault /\ Goes(t, "leaving")
  /\ QuarantineBoundaryRejection(t)
  /\ UNCHANGED <<holder, queue, sync, handle, registry, committed, offered, cancelled, closing,
                 closed, cancels>>

SignalAfterCommit(t) ==
  /\ phase[t] = "active" /\ Active(t) /\ t \notin asked /\ asked' = asked \cup {t}
  /\ UNCHANGED <<phase, holder, queue, thread, sync, handle, registry, committed, offered, cancelled,
                 factory, txFaults, cancels>>

Commit(t) ==
  /\ phase[t] = "active" /\ Active(t) /\ Submit(t, "commit")
  /\ UNCHANGED <<holder, queue, sync, data, cancelled, factory, txFaults, cancels>>

(* A commit that took effect is announced even when its task was cancelled
   meanwhile. *)
ThreadCommits(t) ==
  /\ Returned(t, "commit") /\ committed' = committed \cup {t}
  /\ sync' = [sync EXCEPT ![t].finished = TRUE]
  /\ offered' = offered \cup (asked \cap {t}) /\ Goes(t, "leaving")
  /\ UNCHANGED <<holder, queue, handle, registry, asked, cancelled, factory, txFaults, cancels>>

ThreadCannotCommit(t) ==
  /\ Returned(t, "commit") /\ Fault /\ Goes(t, "leaving")
  /\ UNCHANGED <<holder, queue, sync, data, cancelled, factory, cancels>>

Rollback(t) ==
  /\ phase[t] = "active" /\ Active(t) /\ Submit(t, "rollback") /\ asked' = asked \ {t}
  /\ UNCHANGED <<holder, queue, sync, handle, registry, committed, offered, cancelled, factory,
                 txFaults, cancels>>

ThreadRollsBack(t, ok) ==
  /\ Returned(t, "rollback") /\ (IF ok THEN UNCHANGED txFaults ELSE Fault)
  /\ sync' = [sync EXCEPT ![t].finished = ok] /\ Goes(t, "leaving")
  /\ UNCHANGED <<holder, queue, data, cancelled, factory, cancels>>

(* __aexit__, or the failure of __aenter__: roll back what is open, close. *)
Exit(t) ==
  /\ phase[t] \in {"active", "leaving"} /\ Submit(t, "exit")
  /\ UNCHANGED <<holder, queue, sync, data, cancelled, factory, txFaults, cancels>>

Aclose(t) ==
  /\ phase[t] = "stuck" /\ Submit(t, "exit")
  /\ UNCHANGED <<holder, queue, sync, data, cancelled, factory, txFaults, cancels>>

ThreadCloses(t) ==
  /\ Returned(t, "exit") /\ CloseSqlcipher(t)
  /\ sync' = [sync EXCEPT ![t].finished = sync[t].begun, ![t].closed = TRUE]
  /\ ReleaseTerminalOwnership(t)
  /\ UNCHANGED <<queue, asked, committed, offered, cancelled, factory, txFaults, cancels>>

(* SQLAlchemy may log the driver's error (hidden) or raise it. *)
ThreadCannotClose(t, hidden) ==
  /\ Returned(t, "exit") /\ Fault /\ CloseFails(t)
  /\ sync' = [sync EXCEPT ![t].closed = hidden] /\ ReleaseTerminalOwnership(t)
  /\ UNCHANGED <<queue, asked, committed, offered, cancelled, factory, cancels>>

(* The finalizer of a connection nobody owns any more closes it at last. *)
Finalize(t) ==
  /\ phase[t] = "done" /\ CloseSqlcipher(t)
  /\ UNCHANGED <<phase, holder, queue, thread, sync, asked, committed, offered, cancelled, factory,
                 txFaults, cancels>>

-----------------------------------------------------------------------------
(* Cancellation leaves the queue at once, ends an idle body, and otherwise is
   remembered until the thread returns. *)
Cancel(t) ==
  /\ cancels < MaxCancel /\ cancels' = cancels + 1
  /\ \/ /\ phase[t] = "waiting" /\ Goes(t, "done") /\ UNCHANGED cancelled
        /\ \E i \in 1..Len(queue) :
             queue[i] = t /\ queue' = SubSeq(queue, 1, i - 1) \o SubSeq(queue, i + 1, Len(queue))
     \/ phase[t] = "active" /\ Goes(t, "leaving") /\ UNCHANGED <<queue, cancelled>>
     \/ thread.task = t /\ t \notin cancelled /\ cancelled' = cancelled \cup {t} /\ UNCHANGED <<phase, queue>>
  /\ UNCHANGED <<holder, thread, sync, data, factory, txFaults>>

CloseFactory ==
  /\ ~closing /\ closing' = TRUE
  /\ UNCHANGED <<phase, holder, queue, thread, sync, data, cancelled, quarantine, poisoned, closed,
                 txFaults, cancels>>

(* _shutdown takes the writer lock in its turn before it stops the thread. *)
ShutDown ==
  /\ closing /\ ~closed /\ holder = Nobody /\ queue = << >> /\ closed' = TRUE
  /\ UNCHANGED <<phase, holder, queue, thread, sync, data, cancelled, quarantine, poisoned, closing,
                 txFaults, cancels>>

TxNext ==
  \/ \E t \in Task :
       \/ Enter(t) \/ Granted(t) \/ Begin(t) \/ ThreadBegins(t) \/ ThreadCannotOpen(t)
       \/ ThreadCannotBegin(t) \/ RunSync(t) \/ ThreadWorked(t) \/ ResultRejected(t)
       \/ SignalAfterCommit(t) \/ Commit(t) \/ ThreadCommits(t) \/ ThreadCannotCommit(t)
       \/ Rollback(t) \/ Exit(t) \/ Aclose(t) \/ ThreadCloses(t)
       \/ Finalize(t) \/ Cancel(t)
       \/ \E b \in BOOLEAN : ThreadRollsBack(t, b) \/ ThreadCannotClose(t, b)
  \/ CloseFactory \/ ShutDown

TxSpec == TxInit /\ [][TxNext]_txVars

-----------------------------------------------------------------------------
(* At most one connection to the database is alive, and a usable one only for
   the task that holds the writer lock: neither a cancellation nor a failed
   call lets the next task in beside it, and where a failed close does release
   the lock, the registry refuses the next open until the close succeeds. *)
OneWriter ==
  /\ Cardinality({t \in Task : handle[t] # "none"}) <= 1
  /\ \A t \in Task : handle[t] = "open" => holder = t
  /\ closed => thread = NoCall

(* A unit of work that is over announced its change exactly when the change
   is in the database, also when its task was cancelled while the thread
   committed. *)
CommittedIsAnnounced ==
  \A t \in asked : phase[t] \in {"leaving", "done"} => (t \in committed <=> t \in offered)

(* The registry counts every handle that may hold the file's locks, and every
   failed close, until the close succeeds. *)
HandlesAreCounted ==
  /\ registry.live = Cardinality({t \in Task : handle[t] # "none"})
  /\ registry.failed = Cardinality({t \in Task : handle[t] = "failed"})

(* One writer, no lost or false announcement, and no handle out of count, in
   every order of cancellations, failures and the thread's calls. *)
TransactionsAreSound == OneWriter /\ CommittedIsAnnounced /\ HandlesAreCounted

=============================================================================
