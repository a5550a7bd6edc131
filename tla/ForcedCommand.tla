---------------------------- MODULE ForcedCommand ----------------------------
(***************************************************************************)
(* The supervised robot's forced-command channel.  The Core sends one      *)
(* request per SSH process (SshForcedCommandProcess.dispatch) and, when a  *)
(* mutation's answer is missing, asks the robot for its status and settles *)
(* what happened.  On the robot each request is a process of its own       *)
(* (reachy_a05_forced_dispatcher.py) that takes an exclusive lock, changes *)
(* the generation directories and the state file, answers and exits.       *)
(*                                                                         *)
(*   state    the state file: generation, staged and active bundle         *)
(*   gens     the generation directory of each bundle                      *)
(*   residue  the bundles with a directory left under staging              *)
(*   proc     the requests on their way and the dispatchers serving them   *)
(*   ptt      the push-to-talk program each connection is handed over to   *)
(*   core     the Core's dispatch, target what it holds of the robot       *)
(*                                                                         *)
(* state and each gens[b] pair what processes see with the set of values a *)
(* power loss may leave; a sync collapses the set.  A process keeps running*)
(* after the Core has given up on it.  loose remembers that a dispatcher   *)
(* ended between a change and its sync, which nothing repairs before the   *)
(* next one.                                                               *)
(***************************************************************************)
EXTENDS Naturals, FiniteSets

CONSTANTS Bundle, Slot, MaxStateGeneration, MaxDispatchFault, MaxRobotLoss

VARIABLES state, gens, residue, proc, holder, ptt, core, target, gone, loose, dfaults, rlosses

forcedVars == <<state, gens, residue, proc, holder, ptt, core, target, gone, loose, dfaults, rlosses>>
robotFs == <<state, gens, residue>>

NoBundle == "none"
Free == [at |-> "free", verb |-> "status", b |-> NoBundle, expect |-> 0, said |-> {}]
Closed == [Free EXCEPT !.at = "closed"]
NoTurn == [at |-> "none", b |-> NoBundle, dir |-> "gone", got |-> 0]
Deployment(g, s, a) == [gen |-> g, staged |-> s, active |-> a]
References(s) == {s.staged, s.active} \ {NoBundle}
Inode(v) == [now |-> v, disk |-> {v}]
Set(inode, v) == [now |-> v, disk |-> inode.disk \cup {v}]
Sync(inode) == Inode(inode.now)
SyncAll == [b \in Bundle |-> Sync(gens[b])]
Unsynced == state.disk # {state.now} \/ \E b \in Bundle : gens[b].disk # {gens[b].now}

ForcedInit ==
  /\ state = Inode(Deployment(1, NoBundle, NoBundle))
  /\ gens = [b \in Bundle |-> Inode("none")] /\ residue = {}
  /\ proc = [p \in Slot |-> Free] /\ holder = {} /\ ptt = [p \in Slot |-> NoTurn]
  /\ core = [at |-> "idle"] /\ target = state.now /\ gone = {}
  /\ loose = FALSE /\ dfaults = 0 /\ rlosses = 0

Now == state.now
CoreSide == UNCHANGED <<core, target, gone>>
Elsewhere == CoreSide /\ UNCHANGED ptt
Calm == UNCHANGED <<loose, dfaults, rlosses>>
At(p, stage) == proc[p].at = stage
To(p, stage) == proc' = [proc EXCEPT ![p].at = stage]

-----------------------------------------------------------------------------
(* The end of a dispatcher: the flock goes with the process.  An answer is
   kept only while the Core still listens on that connection. *)
Listening(p) == core.at # "idle" /\ core.p = p
Exit(p) ==
  /\ holder' = holder \ {p}
  /\ proc' = [proc EXCEPT ![p] = IF Listening(p) THEN Closed ELSE Free]
Answer(p, s, absent) ==
  /\ holder' = holder \ {p}
  /\ proc' = [proc EXCEPT ![p] = IF Listening(p)
       THEN [@ EXCEPT !.at = "answered", !.said = {[now |-> s, absent |-> absent]}] ELSE Free]

(* _dispatch_request: the lock, then the state, which must be fresh, not
   revoked and of the request's commissioning; any of these may refuse. *)
Granted(p, verb) == At(p, "sent") /\ proc[p].verb = verb /\ holder = {}
Proceed(p, stage) == holder' = {p} /\ To(p, stage)
Refuse(p) ==
  /\ At(p, "sent") /\ Exit(p) /\ UNCHANGED robotFs /\ Elsewhere /\ Calm

HandleStatus(p) ==
  /\ Granted(p, "status") /\ Answer(p, Now, NoBundle)
  /\ UNCHANGED robotFs /\ Elsewhere /\ Calm

Current(p) == proc[p].expect = Now.gen
Whole(b) == gens[b].now = "whole"

(* _handle_stage: a bundle already referenced is only verified; otherwise the
   compare-and-swap, then the generation is written or found in place. *)
HandleStage(p) ==
  LET b == proc[p].b IN
  /\ Granted(p, "stage")
  /\ \/ /\ b \in References(Now) /\ Whole(b)
        /\ Answer(p, Now, NoBundle) /\ UNCHANGED residue
     \/ /\ (IF b \in References(Now) THEN ~Whole(b) ELSE ~Current(p) \/ gens[b].now = "torn")
        /\ Exit(p) /\ UNCHANGED residue
     \/ /\ b \notin References(Now) /\ Current(p) /\ Whole(b)
        /\ Proceed(p, "publish") /\ UNCHANGED residue
     \/ /\ b \notin References(Now) /\ Current(p) /\ gens[b].now = "none"
        /\ Proceed(p, "writing") /\ residue' = residue \cup {b}
  /\ UNCHANGED <<state, gens>> /\ Elsewhere /\ Calm

(* _materialize_generation: the artifacts are written under staging, synced
   and renamed into place; a short or wrong stream removes them again.  The
   residue of an earlier attempt has another operation's name and stays. *)
ArtifactsRejected(p) ==
  /\ At(p, "writing") /\ residue' \in {residue, residue \ {proc[p].b}}
  /\ Exit(p) /\ UNCHANGED <<state, gens>> /\ Elsewhere /\ Calm
Promote(p) ==
  /\ At(p, "writing") /\ To(p, "promoted")
  /\ gens' = [gens EXCEPT ![proc[p].b] = Set(@, "whole")]
  /\ residue' \in {residue, residue \ {proc[p].b}}
  /\ UNCHANGED <<state, holder>> /\ Elsewhere /\ Calm
SyncPromotion(p) ==
  /\ At(p, "promoted") /\ To(p, "publish") /\ gens' = SyncAll
  /\ UNCHANGED <<state, residue, holder>> /\ Elsewhere /\ Calm

(* _handle_activate *)
HandleActivate(p) ==
  LET b == proc[p].b IN
  /\ Granted(p, "activate")
  /\ \/ /\ Now.active = b /\ Whole(b) /\ Answer(p, Now, NoBundle)
     \/ /\ Now.active # b /\ Current(p) /\ Now.staged = b /\ Whole(b)
        /\ Proceed(p, "publish")
     \/ /\ \/ ~Whole(b)
           \/ Now.active # b /\ (~Current(p) \/ Now.staged # b)
        /\ Exit(p)
  /\ UNCHANGED robotFs /\ Elsewhere /\ Calm

(* _handle_run_ptt opens the active generation and its entry point and answers
   ready under the lock.  The rest of the handoff reads through the opened
   directory, whose fate is dir: it may be removed under it. *)
OpenValidatedExecutable(b) == [at |-> "handoff", b |-> b, dir |-> "whole", got |-> 0]

HandleRunPtt(p) ==
  /\ Granted(p, "run_ptt")
  /\ \/ /\ Current(p) /\ Now.active # NoBundle /\ Whole(Now.active)
        /\ Answer(p, Now, NoBundle)
        /\ ptt' = [ptt EXCEPT ![p] = OpenValidatedExecutable(Now.active)]
     \/ /\ ~(Current(p) /\ Now.active # NoBundle /\ Whole(Now.active)) /\ Exit(p)
        /\ UNCHANGED ptt
  /\ UNCHANGED robotFs /\ CoreSide /\ Calm

(* _exec_handoff, without the lock: the directory must still be the one that
   was opened, under its name, and the whole bundle. *)
Handoff == UNCHANGED <<robotFs, proc, holder>> /\ CoreSide /\ Calm
SameDirectory(p) == ptt[p].dir = "whole"
HandoffValidates(p) ==
  /\ ptt[p].at = "handoff" /\ SameDirectory(p)
  /\ ptt' = [ptt EXCEPT ![p].at = "importing"] /\ Handoff

(* _build_sealed_import_snapshot reads member after member; a member of a
   directory that is being removed may still be there. *)
ImportMembers == 2
MemberIsThere(p) == ptt[p].dir # "gone"
CaptureImport(p) ==
  /\ ptt[p].at = "importing" /\ ptt[p].got < ImportMembers /\ MemberIsThere(p)
  /\ ptt' = [ptt EXCEPT ![p].got = @ + 1] /\ Handoff
Sealed(p) == ptt[p].at = "importing" /\ ptt[p].got = ImportMembers
ExecHandoff(p) == Sealed(p) /\ ptt' = [ptt EXCEPT ![p].at = "running"] /\ Handoff

(* Any check or call of the handoff may refuse, which ends the process, as
   does the end of the push-to-talk program. *)
HandoffEnds(p) ==
  ptt[p].at # "none" /\ ptt' = [ptt EXCEPT ![p] = NoTurn] /\ Handoff

(* _handle_remove: absent already, or the references first. *)
HandleRemove(p) ==
  LET b == proc[p].b
      absent == b \notin References(Now) /\ gens[b].now = "none" IN
  /\ Granted(p, "remove")
  /\ \/ absent /\ Answer(p, Now, b)
     \/ ~absent /\ Current(p) /\ Proceed(p, "publish")
     \/ ~absent /\ ~Current(p) /\ Exit(p)
  /\ UNCHANGED robotFs /\ Elsewhere /\ Calm

HandleVerifyAbsent(p) ==
  LET b == proc[p].b
      absent == Current(p) /\ b \notin References(Now) /\ gens[b].now = "none" /\ b \notin residue IN
  /\ Granted(p, "verify_absent")
  /\ IF absent THEN Answer(p, Now, b) ELSE Exit(p)
  /\ UNCHANGED robotFs /\ Elsewhere /\ Calm

-----------------------------------------------------------------------------
(* _publish_state: a synced temporary is exchanged with the state file, the
   directory synced, the previous state's name unlinked. *)
Cleared(x, b) == IF x = b THEN NoBundle ELSE x
Successor(p) ==
  CASE proc[p].verb = "stage" -> Deployment(Now.gen + 1, proc[p].b, NoBundle)
    [] proc[p].verb = "activate" -> Deployment(Now.gen + 1, NoBundle, proc[p].b)
    [] OTHER -> Deployment(Now.gen + 1, Cleared(Now.staged, proc[p].b), Cleared(Now.active, proc[p].b))

ExchangeState(p) ==
  /\ At(p, "publish") /\ Now.gen < MaxStateGeneration
  /\ state' = Set(state, Successor(p))
  /\ proc' = [proc EXCEPT ![p].at = "exchanged", ![p].said = {[now |-> Now, absent |-> NoBundle]}]
  /\ UNCHANGED <<gens, residue, holder>> /\ Elsewhere /\ Calm
\* A plausible bug: the directory is not synced after the exchange.
SyncStateLater(p) ==
  /\ At(p, "exchanged") /\ To(p, "published")
  /\ UNCHANGED <<state, gens, residue, holder>> /\ Elsewhere /\ Calm

SyncState(p) ==
  /\ At(p, "exchanged") /\ state' = Sync(state) /\ To(p, "published")
  /\ UNCHANGED <<gens, residue, holder>> /\ Elsewhere /\ Calm

Previous(p) == CHOOSE s \in {r.now : r \in proc[p].said} : TRUE

(* restore_previous_state after a failed sync or unlink: exchanged back and
   synced, or refused with the exchange undone but not synced. *)
RestorePreviousState(p) ==
  /\ proc[p].at \in {"exchanged", "published"} /\ dfaults < MaxDispatchFault
  /\ dfaults' = dfaults + 1 /\ Exit(p)
  /\ \/ state' = Inode(Previous(p)) /\ UNCHANGED loose
     \/ state' = Set(state, Previous(p)) /\ loose' = TRUE
  /\ UNCHANGED <<gens, residue, rlosses>> /\ Elsewhere

(* The last sync covers only the unlinked name: its failure refuses a request
   whose state is published. *)
LastSyncFails(p) ==
  /\ At(p, "published") /\ dfaults < MaxDispatchFault /\ dfaults' = dfaults + 1
  /\ Exit(p) /\ UNCHANGED <<robotFs, loose, rlosses>> /\ Elsewhere

Published(p) ==
  /\ At(p, "published")
  /\ \/ proc[p].verb # "remove" /\ Answer(p, Now, NoBundle)
     \/ /\ proc[p].verb = "remove" /\ gens[proc[p].b].now = "none"
        /\ Answer(p, Now, proc[p].b)
     \/ /\ proc[p].verb = "remove" /\ gens[proc[p].b].now # "none"
        /\ To(p, "removing") /\ UNCHANGED holder
  /\ UNCHANGED robotFs /\ Elsewhere /\ Calm

(* _safe_remove_tree: the members, then the directory, then its parent's
   sync. *)
Open(b) == {q \in Slot : ptt[q].b = b /\ ptt[q].dir # "gone"}
Behind(b, fate) == ptt' = [q \in Slot |-> IF q \in Open(b) THEN [ptt[q] EXCEPT !.dir = fate] ELSE ptt[q]]
RemoveMembers(p) ==
  /\ At(p, "removing") /\ To(p, "torn")
  /\ gens' = [gens EXCEPT ![proc[p].b] = Set(@, "torn")] /\ Behind(proc[p].b, "torn")
  /\ UNCHANGED <<state, residue, holder>> /\ CoreSide /\ Calm
RemoveDirectory(p) ==
  /\ At(p, "torn") /\ To(p, "removed")
  /\ gens' = [gens EXCEPT ![proc[p].b] = Set(@, "none")] /\ Behind(proc[p].b, "gone")
  /\ UNCHANGED <<state, residue, holder>> /\ CoreSide /\ Calm
SyncRemoval(p) ==
  /\ At(p, "removed") /\ gens' = SyncAll /\ Answer(p, Now, proc[p].b)
  /\ UNCHANGED <<state, residue>> /\ Elsewhere /\ Calm

(* A dispatcher is killed, or refuses after an error no handler undoes, and
   leaves the file system as it is. *)
Dies(p) ==
  /\ p \in holder /\ dfaults < MaxDispatchFault
  /\ dfaults' = dfaults + 1 /\ Exit(p) /\ loose' = (loose \/ Unsynced)
  /\ UNCHANGED <<robotFs, rlosses>> /\ Elsewhere

(* The robot loses power: every process ends, what was not synced is lost or
   kept, and a rename that is lost leaves its source. *)
PowerLoss ==
  /\ rlosses < MaxRobotLoss /\ rlosses' = rlosses + 1
  /\ \E s \in state.disk : state' = Inode(s)
  /\ \E g \in [Bundle -> {"none", "whole", "torn"}] :
       /\ \A b \in Bundle : g[b] \in gens[b].disk
       /\ gens' = [b \in Bundle |-> Inode(g[b])]
       /\ residue' = residue \cup {b \in Bundle : Whole(b) /\ g[b] = "none"}
  /\ holder' = {}
  /\ proc' = [p \in Slot |-> IF Listening(p) THEN Closed ELSE Free]
  /\ ptt' = [p \in Slot |-> NoTurn]
  /\ UNCHANGED <<loose, dfaults>> /\ CoreSide

-----------------------------------------------------------------------------
(* The Core.  Requests go to connections of their own. *)
RobotSide == UNCHANGED <<robotFs, holder, ptt, loose, dfaults, rlosses>>
Request(p, verb, b, g) ==
  [proc EXCEPT ![p] = [at |-> "sent", verb |-> verb, b |-> b, expect |-> g, said |-> {}]]
StageInFlight(b) == \E p \in Slot : ~At(p, "free") /\ proc[p].verb = "stage" /\ proc[p].b = b

(* spawn: the leased or revalidated target, and an SSH process of its own. *)
Spawn(p) == At(p, "free") /\ ptt[p].at = "none"

(* dispatch: encode, write and wait for the answer. *)
Dispatch(p, verb, b) ==
  /\ core.at = "idle" /\ Spawn(p)
  /\ proc' = Request(p, verb, b, target.gen)
  /\ core' = [at |-> "waiting", p |-> p, verb |-> verb, b |-> b, before |-> target,
               alone |-> ~StageInFlight(b)]
  /\ gone' = IF verb = "stage" THEN gone \ {b} ELSE gone
  /\ UNCHANGED target /\ RobotSide

(* _response_matches_requested_dispatch *)
Matches(verb, b, g, r) ==
  CASE verb \in {"status", "run_ptt"} -> r.now.gen = g
    [] verb = "verify_absent" -> r.now.gen = g /\ r.absent = b
    [] verb = "stage" -> r.now.gen \in {g, g + 1} /\ References(r.now) = {b}
    [] verb = "activate" -> r.now.gen \in {g, g + 1} /\ r.now.active = b
    [] OTHER -> r.now.gen \in {g, g + 1} /\ r.absent = b /\ b \notin References(r.now)

Hangup == proc' = [proc EXCEPT ![core.p] = IF @.at \in {"answered", "closed"} THEN Free ELSE @]
Idle == core' = [at |-> "idle"]
Answered(r) == At(core.p, "answered") /\ r \in proc[core.p].said

(* A bundle the Core is told is absent, when no request of its own that could
   bring it back was still on its way as it asked. *)
TakeAbsence(b) == gone' = IF core.alone THEN gone \cup {b} ELSE gone

Accept ==
  /\ core.at = "waiting"
  /\ \E r \in proc[core.p].said :
       /\ Answered(r) /\ Matches(core.verb, core.b, core.before.gen, r)
       /\ target' = r.now
       /\ IF core.verb = "verify_absent" THEN TakeAbsence(core.b) ELSE UNCHANGED gone
  /\ Hangup /\ Idle /\ RobotSide

(* The answer is missing, late or of another shape.  Only a mutating verb is
   settled, if a second connection can be opened, through _attempt_status_reconciliation on a connection of its
   own; push-to-talk is never resumed, whatever the status says. *)
Mutating == {"stage", "activate", "remove", "run_ptt"}
GiveUp ==
  /\ core.at = "waiting"
  /\ \/ /\ core.verb \in Mutating
        /\ \E q \in Slot : /\ Spawn(q) /\ core' = [core EXCEPT !.at = "status", !.p = q]
                           /\ proc' = [Request(q, "status", NoBundle, core.before.gen) EXCEPT
                                ![core.p] = IF @.at \in {"answered", "closed"} THEN Free ELSE @]
     \/ Idle /\ Hangup
  /\ UNCHANGED <<target, gone>> /\ RobotSide

(* _status_observes_committed_mutation: exactly the state the mutation publishes. *)
Committed(r) ==
  \/ core.verb = "stage" /\ r.now = Deployment(core.before.gen + 1, core.b, NoBundle)
  \/ core.verb = "activate" /\ r.now = Deployment(core.before.gen + 1, NoBundle, core.b)

(* _reconcile_status_response: within one generation, the state the Core
   started from, the mutation's own, or neither. *)
Verdict(r) ==
  CASE core.verb = "run_ptt" -> "not_resumable"
    [] r.now = core.before -> "not_committed"
    [] Committed(r) -> "committed"
    [] OTHER -> "indeterminate"

StatusArrives ==
  /\ core.at = "status"
  /\ \E r \in proc[core.p].said :
       /\ Answered(r) /\ r.now.gen \in {core.before.gen, core.before.gen + 1}
       /\ target' = IF Verdict(r) \in {"committed", "not_committed"} THEN r.now ELSE target
       /\ \/ /\ core.verb = "remove" /\ r.now # core.before /\ References(r.now) = {}
             /\ \E q \in Slot : /\ Spawn(q)
                                /\ proc' = [Request(q, "verify_absent", core.b, r.now.gen) EXCEPT ![core.p] = Free]
                                /\ core' = [core EXCEPT !.at = "verify", !.p = q, !.before = r.now,
                                                      !.alone = ~StageInFlight(core.b)]
          \/ /\ ~(core.verb = "remove" /\ r.now # core.before /\ References(r.now) = {})
             /\ Hangup /\ Idle
  /\ UNCHANGED gone /\ RobotSide

(* _attempt_remove_verify_absent_reconciliation *)
VerifyArrives ==
  /\ core.at = "verify"
  /\ \E r \in proc[core.p].said :
       /\ Answered(r) /\ r.now = core.before /\ r.absent = core.b
       /\ target' = r.now /\ TakeAbsence(core.b)
  /\ Hangup /\ Idle /\ RobotSide

Unsettled ==
  /\ core.at \in {"status", "verify"}
  /\ Hangup /\ Idle /\ UNCHANGED <<target, gone>> /\ RobotSide

DispatcherStep(p) ==
  \/ Refuse(p) \/ HandleStatus(p) \/ HandleStage(p) \/ ArtifactsRejected(p)
  \/ Promote(p) \/ SyncPromotion(p) \/ HandleActivate(p) \/ HandleRunPtt(p)
  \/ HandleRemove(p) \/ HandleVerifyAbsent(p) \/ ExchangeState(p) \/ SyncState(p)
  \/ RestorePreviousState(p) \/ LastSyncFails(p) \/ Published(p) \/ RemoveMembers(p)
  \/ RemoveDirectory(p) \/ SyncRemoval(p) \/ Dies(p)
  \/ HandoffValidates(p) \/ CaptureImport(p) \/ ExecHandoff(p) \/ HandoffEnds(p)

ForcedNext ==
  \/ \E p \in Slot : DispatcherStep(p)
  \/ \E p \in Slot, b \in Bundle, verb \in {"stage", "activate", "remove", "verify_absent"} :
       Dispatch(p, verb, b)
  \/ \E p \in Slot, verb \in {"status", "run_ptt"} : Dispatch(p, verb, NoBundle)
  \/ Accept \/ GiveUp \/ StatusArrives \/ VerifyArrives \/ Unsettled
  \/ PowerLoss

-----------------------------------------------------------------------------
(* Whatever a power loss leaves of the state file, every bundle it names has
   its whole generation directory: _promote_generation syncs before
   _publish_state, which syncs before _safe_remove_generation.  Dispatchers
   that ended between a change and its sync are excepted: a retry finds the
   directory in place and does not sync it again. *)
ReferencedIsWhole ==
  loose \/ \A s \in state.disk : \A b \in References(s) : gens[b].disk = {"whole"}

(* What the Core was told, in an answer or by settling a missing one, is what
   the robot keeps: no power loss takes it back, and the robot differs from
   it only by later generations (dispatch, _reconcile_status_response and
   _publish_state together). *)
TargetIsDurable ==
  loose \/ \A s \in state.disk : s.gen >= target.gen /\ (s.gen = target.gen => s = target)

(* A bundle verify_absent reported gone has no generation directory, no
   staging residue and no reference, now or after a power loss, until the
   Core stages it again. *)
AbsentIsAbsent ==
  loose \/ \A b \in gone : /\ gens[b].disk = {"none"} /\ b \notin residue
                           /\ \A s \in state.disk : b \notin References(s)

(* No push-to-talk handoff can read a member of a bundle that was reported
   absent, although it opened the directory before and reads without the lock
   (_exec_handoff against _safe_remove_generation): what it runs was complete
   before the report, or it ends. *)
AbsentIsUnread ==
  loose \/ \A p \in Slot : ptt[p].b \in gone => ptt[p].got = ImportMembers \/ ~MemberIsThere(p)

(* What the Core may rely on after any answer, lost answer or power loss. *)
StoreIsWhole == ReferencedIsWhole /\ TargetIsDurable /\ AbsentIsAbsent /\ AbsentIsUnread

=============================================================================
