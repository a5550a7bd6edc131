------------------------- MODULE EdgeCommissioning -------------------------
(***************************************************************************)
(* The commissioning ceremony of the robot side: one process runs          *)
(* commission, recommission, revoke and resume over four durable stores.   *)
(*                                                                         *)
(*   repo, assured   CommissioningRepository: the state and, in a second   *)
(*                   file written later, its assurance                     *)
(*   keys, certs     the private material and the client certificate of    *)
(*                   each ceremony, with the generator's cleanup journal   *)
(*   coreKeys        the issuer's server keys, with their own journal and  *)
(*                   the issuer's lifecycle record                         *)
(*   operator        the operator projection with its accepted capability  *)
(*                                                                         *)
(* A ceremony is named by the one-time code that opened it: the code names *)
(* the proof, the handles of every artifact and the state they end up in.  *)
(* Every write can raise before or after it took effect, and the process   *)
(* can stop between any two of them.                                       *)
(***************************************************************************)
EXTENDS Naturals, FiniteSets, Sequences

CONSTANTS Code,          \* one-time codes the owner may enter
          MaxGeneration, \* generations the model reaches
          MaxFault,      \* writes or reads that raise
          MaxCrash       \* stops of the process

ASSUME CommissioningConstants ==
  /\ MaxGeneration \in Nat \ {0}
  /\ MaxFault \in Nat /\ MaxCrash \in Nat

VARIABLES repo, assured, keys, certs, edgeDisk, edgeMem, coreKeys, coreDisk,
          coreMem, lifeDisk, life, update, pending, operator, spent, cer, iss,
          faults, crashes

vars == <<repo, assured, keys, certs, edgeDisk, edgeMem, coreKeys, coreDisk,
          coreMem, lifeDisk, life, update, pending, operator, spent, cer, iss,
          faults, crashes>>

repository == <<repo, assured, operator, spent>>
generator == <<keys, certs, edgeDisk, edgeMem>>
issuer == <<coreKeys, coreDisk, coreMem, lifeDisk, life, update>>

Generation == 1 .. MaxGeneration
None == "none"

NoState == [gen |-> 0, code |-> None, active |-> FALSE]
State(g, c) == [gen |-> g, code |-> c, active |-> TRUE]

(* The issuer's record: the generation Core serves, the staged generations
   with the server key of each, and the ones that may never come back. *)
NoLifecycle ==
  [active |-> 0, staged |-> [g \in Generation |-> None], revoked |-> {}]

(* A ceremony: what it read, the calls it still makes (todo), whether the
   edge material exists (made) and the new state is composed (built), and the
   unpublished generation it is taking back (undo). *)
NoUndo == [gen |-> 0, code |-> None, made |-> FALSE]
NoCeremony == [op |-> "none", code |-> None, gen |-> 0, was |-> NoState, todo |-> <<>>,
               made |-> FALSE, built |-> FALSE, undo |-> NoUndo]

(* A call into the issuer: the record it proposes, the server keys that leave
   with it and the ones that exist only for it. *)
NoCall == [at |-> "idle", op |-> "none", gen |-> 0, code |-> None,
           next |-> NoLifecycle, new |-> {}]

Init ==
  /\ repo = NoState /\ assured = None /\ operator = [code |-> None, accepted |-> FALSE]
  /\ keys = {} /\ certs = {} /\ edgeDisk = {} /\ edgeMem = {}
  /\ coreKeys = {} /\ coreDisk = {} /\ coreMem = {}
  /\ lifeDisk = NoLifecycle /\ life = NoLifecycle /\ update = {}
  /\ pending = {} /\ spent = {}
  /\ cer = NoCeremony /\ iss = NoCall /\ faults = 0 /\ crashes = 0

-----------------------------------------------------------------------------
(* A call on a store answers, raises without effect, or raises after it. *)
Outcome == {"ok", "raised", "late"}

Counted(r) == IF r = "ok" THEN faults' = faults
              ELSE faults < MaxFault /\ faults' = faults + 1

Disk(r, old, new) == IF r = "raised" THEN old ELSE new
Memory(r, old, new) == IF r = "ok" THEN new ELSE old

(* _atomic_write_artifact: a key or certificate appears in its store whole, by a
   rename, or not at all; a failure after the rename leaves it there. *)
WriteArtifact(r, store, artifact) == Disk(r, store, store \cup {artifact})

At(stage) == cer.todo # <<>> /\ Head(cer.todo) = stage

Skip(n) == IF Len(cer.todo) = n THEN NoCeremony
           ELSE [cer EXCEPT !.todo = SubSeq(@, n + 1, Len(@))]

(* An exception leaves commission and recommission through their handler;
   every other operation, and the handler itself, just ends. *)
Handled == Head(cer.todo) \in {"begin", "generate", "write", "complete", "install", "retire",
                               "publish", "assure", "trim", "activate"}
           /\ cer.op \in {"commission", "recommission"}
Raised == IF Handled THEN [cer EXCEPT !.todo = <<"failed">>] ELSE NoCeremony

Then(r) == cer' = IF r = "ok" THEN Skip(1) ELSE Raised

-----------------------------------------------------------------------------
(* SyntheticCoreCommissioningIssuer.  Its drain keeps the keys that a staged
   generation still uses, whatever the journal says. *)
Referenced(l) == {l.staged[g] : g \in Generation} \ {None}

\* A plausible bug: the drain believes the journal.
DrainEveryPrivateKeyDeletion(r, l) ==
  /\ \E gone \in SUBSET coreMem : (r # "raised" => gone = coreMem) /\ coreKeys' = coreKeys \ gone
  /\ coreDisk' = Disk(r, coreDisk, {}) /\ coreMem' = Memory(r, coreMem, {})

DrainPendingPrivateKeyDeletions(r, l) ==
  /\ \E gone \in SUBSET (coreMem \ Referenced(l)) :
       /\ r # "raised" => gone = coreMem \ Referenced(l)
       /\ coreKeys' = coreKeys \ gone
  /\ coreDisk' = Disk(r, coreDisk, coreMem \cap Referenced(l))
  /\ coreMem' = Memory(r, coreMem, coreMem \cap Referenced(l))

QueuePrivateKeyDeletions(r, handles) ==
  /\ coreDisk' = Disk(r, coreDisk, coreMem \cup handles)
  /\ coreMem' = Memory(r, coreMem, coreMem \cup handles)

IssuerCalls == {"begin", "activate", "abort", "prepare", "revoke"}

(* The generation and key a call of the service is about. *)
Subject == CASE At("abort") -> cer.undo
             [] At("prepare") \/ At("revoke") -> [gen |-> cer.was.gen, code |-> cer.was.code]
             [] OTHER -> [gen |-> cer.gen, code |-> cer.code]

(* Every entry first settles an update whose publication was unknown, then
   drains the journal. *)
ReconcilePendingLifecycleUpdate(r) ==
  /\ cer.todo # <<>> /\ Head(cer.todo) \in IssuerCalls /\ iss = NoCall /\ Counted(r)
  /\ LET settled == IF lifeDisk \in update THEN lifeDisk ELSE life IN
     /\ life' = settled
     /\ DrainPendingPrivateKeyDeletions(r, settled)
     /\ update' = IF r = "ok" \/ settled # life THEN {} ELSE update
  /\ iss' = IF r = "ok" THEN [NoCall EXCEPT !.at = "propose", !.op = Head(cer.todo),
                                            !.gen = Subject.gen, !.code = Subject.code]
            ELSE NoCall
  /\ cer' = IF r = "ok" THEN cer ELSE Raised
  /\ UNCHANGED <<repository, generator, lifeDisk, pending, crashes>>

(* The read of the lifecycle record can fail as well: the call raises and the
   update stays unknown. *)
ReconciliationAmbiguous ==
  /\ cer.todo # <<>> /\ Head(cer.todo) \in IssuerCalls /\ iss = NoCall /\ update # {}
  /\ Counted("raised") /\ cer' = Raised
  /\ UNCHANGED <<repository, generator, issuer, pending, iss, crashes>>

Staged == life.staged[iss.gen]
AlreadyRevoked == iss.gen \in life.revoked /\ life.active # iss.gen

Activated ==
  [active |-> iss.gen,
   staged |-> [g \in Generation |-> IF g < iss.gen THEN None ELSE life.staged[g]],
   revoked |-> life.revoked \cup {g \in 1 .. iss.gen - 1 : life.staged[g] # None}]
Revoked ==
  [active |-> IF life.active = iss.gen THEN 0 ELSE life.active,
   staged |-> [life.staged EXCEPT ![iss.gen] = None],
   revoked |-> life.revoked \cup {iss.gen}]

Return == iss' = NoCall /\ cer' = Skip(1)
Propose(l, new) == iss' = [iss EXCEPT !.at = "queue", !.next = l, !.new = new] /\ UNCHANGED cer
Refuse == iss' = NoCall /\ cer' = Raised

ActivateStagedGeneration ==
  /\ iss.at = "propose" /\ iss.op = "activate"
  /\ IF Staged = iss.code THEN Propose(Activated, {}) ELSE Refuse
  /\ UNCHANGED <<repository, generator, issuer, pending, faults, crashes>>

AbortStagedGeneration ==
  /\ iss.at = "propose" /\ iss.op = "abort"
  /\ IF life.active = iss.gen \/ Staged = None THEN Return
     ELSE Propose([life EXCEPT !.staged[iss.gen] = None], {})
  /\ UNCHANGED <<repository, generator, issuer, pending, faults, crashes>>

RevokeGeneration ==
  /\ iss.at = "propose" /\ iss.op = "revoke"
  /\ IF Staged = iss.code THEN Propose(Revoked, {})
     ELSE IF Staged = None /\ AlreadyRevoked THEN Return ELSE Refuse
  /\ UNCHANGED <<repository, generator, issuer, pending, faults, crashes>>

PrepareRevokeGeneration(r) ==
  /\ iss.at = "propose" /\ iss.op = "prepare" /\ Counted(r) /\ iss' = NoCall
  /\ \/ /\ Staged = iss.code /\ QueuePrivateKeyDeletions(r, {Staged}) /\ Then(r)
     \/ /\ Staged # iss.code /\ r = "ok" /\ UNCHANGED <<coreDisk, coreMem>>
        /\ cer' = IF Staged = None /\ AlreadyRevoked THEN Skip(1) ELSE Raised
  /\ UNCHANGED <<repository, generator, coreKeys, lifeDisk, life, update, pending, crashes>>

(* begin_generation journals the handle of the new server key, then writes it. *)
BeginGeneration(r) ==
  /\ iss.at = "propose" /\ iss.op = "begin" /\ Counted(r)
  /\ QueuePrivateKeyDeletions(r, {iss.code})
  /\ IF r = "ok" THEN iss' = [iss EXCEPT !.at = "key"] /\ UNCHANGED cer ELSE Refuse
  /\ UNCHANGED <<repository, generator, coreKeys, lifeDisk, life, update, pending, crashes>>

WriteServerKey(r) ==
  /\ iss.at = "key" /\ Counted(r)
  /\ coreKeys' = WriteArtifact(r, coreKeys, iss.code)
  /\ IF r = "ok" THEN Propose([life EXCEPT !.staged[iss.gen] = iss.code], {iss.code}) ELSE Refuse
  /\ UNCHANGED <<repository, generator, coreDisk, coreMem, lifeDisk, life, update, pending, crashes>>

(* _publish_lifecycle_update: journal the keys that leave, write the record,
   apply it in memory, drain. *)
PublishQueues(r) ==
  /\ iss.at = "queue" /\ Counted(r)
  /\ QueuePrivateKeyDeletions(r, iss.new \cup (Referenced(life) \ Referenced(iss.next)))
  /\ IF r = "ok"
     THEN /\ update' = {iss.next} /\ iss' = [iss EXCEPT !.at = "persist"]
          /\ UNCHANGED <<cer, coreKeys>>
     ELSE /\ update' = {} /\ Refuse
          /\ \E gone \in SUBSET iss.new : coreKeys' = coreKeys \ gone
  /\ UNCHANGED <<repository, generator, lifeDisk, life, pending, crashes>>

PersistLifecycle ==
  /\ iss.at = "persist" /\ lifeDisk' = iss.next
  /\ iss' = [iss EXCEPT !.at = "apply"]
  /\ UNCHANGED <<repository, generator, coreKeys, coreDisk, coreMem, life, update, pending, cer,
                 faults, crashes>>

ApplyProposedLifecycle(r) ==
  /\ iss.at = "apply" /\ Counted(r)
  /\ life' = iss.next /\ update' = {} /\ DrainPendingPrivateKeyDeletions(r, iss.next)
  /\ iss' = NoCall /\ Then(r)
  /\ UNCHANGED <<repository, generator, lifeDisk, pending, crashes>>

(* A failing write of the record: what is on disk decides.  Published: apply,
   drain and raise; not published: drain, then forget the update; unreadable:
   keep it for the next call. *)
PersistLifecycleRaises(r, r2) ==
  /\ iss.at = "persist" /\ r # "ok"
  /\ faults + 1 <= MaxFault
  /\ lifeDisk' = Disk(r, lifeDisk, iss.next) /\ Refuse
  /\ \/ /\ life' = Disk(r, life, iss.next)
        /\ DrainPendingPrivateKeyDeletions(r2, life')
        /\ update' = IF r = "late" \/ r2 = "ok" THEN {} ELSE update
        /\ faults' = faults + (IF r2 = "ok" THEN 1 ELSE 2)
     \/ /\ faults' = faults + 2 /\ UNCHANGED <<life, update, coreKeys, coreDisk, coreMem>>
  /\ faults' <= MaxFault
  /\ UNCHANGED <<repository, generator, pending, crashes>>

-----------------------------------------------------------------------------
(* SyntheticReachyPrivateMaterialGenerator. *)
Persist(r, entries) ==
  /\ edgeDisk' = Disk(r, edgeDisk, entries)
  /\ edgeMem' = Memory(r, edgeMem, entries)

(* Artifacts are deleted one handle after the other; a deletion that raises
   leaves the rest. *)
Delete(r, entries) ==
  \E k \in SUBSET entries, c \in SUBSET entries :
    /\ r # "raised" => k = entries /\ c = entries
    /\ keys' = keys \ k /\ certs' = certs \ c

ReconcileArtifactCleanup(r, preserved) ==
  /\ Counted(r) /\ Then(r)
  /\ IF edgeMem = {} THEN r = "ok" /\ UNCHANGED generator
     ELSE Delete(r, edgeMem \ preserved) /\ Persist(r, {})
  /\ UNCHANGED <<repository, issuer, pending, iss, crashes>>

InUse == IF repo.active THEN {repo.code} ELSE {}

Clean(r) == At("clean") /\ ReconcileArtifactCleanup(r, InUse)

(* After the publication the caller passes the map it published. *)
Trim(r) == At("trim") /\ ReconcileArtifactCleanup(r, IF Handled THEN {cer.code} ELSE {})

QueueArtifactCleanup(r) ==
  /\ At("retire") /\ Counted(r) /\ Persist(r, edgeMem \cup {cer.was.code}) /\ Then(r)
  /\ UNCHANGED <<repository, keys, certs, issuer, pending, iss, crashes>>

(* generate journals its entry before it writes; on an exception it deletes
   the entry's artifacts and takes the entry back, unless that fails too. *)
Generate(r) ==
  /\ At("generate") /\ Counted(r) /\ UNCHANGED certs
  /\ IF r = "ok" THEN Persist(r, edgeMem \cup {cer.code}) /\ UNCHANGED keys
     ELSE /\ edgeMem' = edgeMem /\ edgeDisk' \in {edgeDisk, edgeMem, edgeMem \cup {cer.code}}
          /\ keys' = keys \ {cer.code}
  /\ Then(r)
  /\ UNCHANGED <<repository, issuer, pending, iss, crashes>>

WriteKeys(r, undone) ==
  /\ At("write") /\ Counted(r) /\ UNCHANGED certs
  /\ IF r = "ok" THEN keys' = keys \cup {cer.code} /\ UNCHANGED <<edgeDisk, edgeMem>>
     ELSE IF undone THEN keys' = keys \ {cer.code} /\ Persist("ok", edgeMem \ {cer.code})
     ELSE keys' = keys \cup {cer.code} /\ UNCHANGED <<edgeDisk, edgeMem>>
  /\ cer' = IF r = "ok" THEN [Skip(1) EXCEPT !.made = TRUE] ELSE Raised
  /\ UNCHANGED <<repository, issuer, pending, iss, crashes>>

(* complete_generation only computes, for a generation that is still staged. *)
CompleteGeneration ==
  /\ At("complete") /\ cer' = IF life.staged[cer.gen] = cer.code THEN Skip(1) ELSE Raised
  /\ UNCHANGED <<repository, generator, issuer, pending, iss, faults, crashes>>

InstallClientCertificate(r) ==
  /\ At("install") /\ Counted(r)
  /\ certs' = WriteArtifact(r, certs, cer.code)
  /\ cer' = IF r = "ok" THEN [Skip(1) EXCEPT !.built = TRUE] ELSE Raised
  /\ UNCHANGED <<repository, keys, edgeDisk, edgeMem, issuer, pending, iss, crashes>>

Discard(r) ==
  /\ At("discard") /\ Counted(r)
  /\ IF cer.undo.made THEN Delete(r, {cer.undo.code}) /\ Persist(r, edgeMem \ {cer.undo.code})
     ELSE r = "ok" /\ UNCHANGED generator
  /\ pending' = IF r = "ok" THEN pending \ {cer.undo} ELSE pending
  /\ cer' = IF r = "ok" THEN [Skip(1) EXCEPT !.undo = NoUndo] ELSE Raised
  /\ UNCHANGED <<repository, issuer, iss, crashes>>

-----------------------------------------------------------------------------
(* ReachyCommissioningService over CommissioningRepository. *)
Entry == <<"clean", "settle", "ready">>

(* The receipt of a one-time code: a code that has one is refused. *)
ConsumeOnce(r, c) ==
  c \notin spent /\ Counted(r) /\ spent' = Disk(r, spent, spent \cup {c})

(* issue_proof: the one-time code is spent, durably, before a proof exists; a
   failure after that leaves it spent.  The composition root builds a fresh
   service for every ceremony; one that is kept still holds the publications
   it could not resolve. *)
IssueProof(op, c, fresh, r) ==
  /\ cer = NoCeremony /\ (op = "commission" \/ repo # NoState) /\ ConsumeOnce(r, c)
  /\ cer' = IF r # "ok" THEN NoCeremony
            ELSE [NoCeremony EXCEPT !.op = op, !.code = c, !.todo = Entry,
                                    !.was = IF op = "commission" THEN NoState ELSE repo]
  /\ pending' = IF fresh THEN {} ELSE pending
  /\ UNCHANGED <<repo, assured, operator, generator, issuer, iss, crashes>>

Resume ==
  /\ cer = NoCeremony /\ repo # NoState
  /\ cer' = [NoCeremony EXCEPT !.op = "resume", !.todo = Entry]
  /\ UNCHANGED <<repository, generator, issuer, pending, iss, faults, crashes>>

(* _reconcile_pending_publications, in the order of the generations. *)
Settle ==
  /\ At("settle")
  /\ \/ pending = {} /\ cer' = Skip(1) /\ UNCHANGED <<pending, faults>>
     \/ \E p \in pending :
          /\ \A q \in pending : p.gen <= q.gen
          /\ \/ /\ repo = State(p.gen, p.code)
                /\ pending' = pending \ {p} /\ UNCHANGED <<cer, faults>>
             \/ /\ repo # State(p.gen, p.code)
                /\ cer' = [cer EXCEPT !.undo = p, !.todo = <<"abort", "discard">> \o @]
                /\ UNCHANGED <<pending, faults>>
             \/ Counted("raised") /\ cer' = Raised /\ UNCHANGED pending
  /\ UNCHANGED <<repository, generator, issuer, iss, crashes>>

Material == <<"begin", "generate", "write", "complete", "install">>
Publication == <<"publish", "assure", "trim", "activate">>

(* The proof is consumed before the transition runs: it must name the current
   state, and it is gone whatever the transition does. *)
Plan == CASE cer.op = "commission" /\ repo = NoState -> Material \o Publication
          [] cer.op = "recommission" -> <<"clear">> \o Material \o <<"retire">> \o Publication
          [] cer.op = "revoke" /\ repo.active ->
               <<"clear", "retire", "prepare", "publish", "revoke", "trim">>
          [] cer.op \in {"revoke", "resume"} /\ ~repo.active -> <<"revoke", "retire", "trim">>
          [] cer.op = "resume" /\ repo.active -> <<"activate">>
          [] OTHER -> <<>>

ProofNamesCurrent == cer.op = "resume" \/ cer.was = repo

Ready ==
  /\ At("ready")
  /\ cer.op = "recommission" => repo.gen < MaxGeneration
  /\ LET g == IF cer.op \in {"commission", "recommission"} THEN repo.gen + 1 ELSE repo.gen
         c == IF cer.op \in {"commission", "recommission"} THEN cer.code ELSE repo.code
     IN cer' = IF Plan = <<>> \/ ~ProofNamesCurrent THEN NoCeremony
               ELSE [cer EXCEPT !.todo = Plan, !.gen = g, !.code = c, !.was = repo]
  /\ UNCHANGED <<repository, generator, issuer, pending, iss, faults, crashes>>

(* The operator projection may be absent; one that is bound to another
   commissioning refuses, and the ceremony with it. *)
ClearAcceptedCapability(r) ==
  /\ At("clear") /\ Counted(r)
  /\ IF operator.code \in {None, cer.was.code}
     THEN /\ operator' = Disk(r, operator, [operator EXCEPT !.accepted = FALSE])
          /\ cer' = IF r = "ok" THEN Skip(1) ELSE NoCeremony
     ELSE r = "ok" /\ cer' = NoCeremony /\ UNCHANGED operator
  /\ UNCHANGED <<repo, assured, spent, generator, issuer, pending, iss, crashes>>

(* _require_expected_generation, under _exclusive_lock: the state on disk is the
   one the caller read, a new commissioning is the next generation (the first one over nothing), and a
   revocation keeps the endpoint it revokes. *)
ExpectedGeneration(new, expected) ==
  /\ repo = expected
  /\ IF new.active THEN new.gen = expected.gen + 1
     ELSE expected # NoState /\ new.gen = expected.gen /\ new.code = expected.code

(* replace_atomic: under the lock, only over the state the caller read; the
   assurance is a second file. *)
ReplaceAtomic(r) ==
  /\ At("publish") /\ Counted(r)
  /\ LET new == IF Handled THEN State(cer.gen, cer.code) ELSE [cer.was EXCEPT !.active = FALSE]
     IN IF ExpectedGeneration(new, cer.was) THEN repo' = Disk(r, repo, new) /\ Then(r)
        ELSE r = "ok" /\ cer' = Raised /\ UNCHANGED repo
  /\ UNCHANGED <<assured, operator, spent, generator, issuer, pending, iss, crashes>>

WriteAssurance(r) ==
  /\ At("assure") /\ Counted(r)
  /\ assured' = Disk(r, assured, cer.code) /\ Then(r)
  /\ UNCHANGED <<repo, operator, spent, generator, issuer, pending, iss, crashes>>

(* The handler: remember the state, look at what is published, take an
   unpublished generation back. *)
CommissioningFails ==
  /\ At("failed")
  /\ LET mine == [gen |-> cer.gen, code |-> cer.code, made |-> cer.made]
         held == IF cer.built
                 THEN {p \in pending : p.gen # cer.gen} \cup {mine} ELSE pending
     IN \/ /\ cer.built /\ repo = State(cer.gen, cer.code)
           /\ pending' = held \ {mine} /\ cer' = NoCeremony /\ UNCHANGED faults
        \/ /\ ~(cer.built /\ repo = State(cer.gen, cer.code))
           /\ pending' = held /\ UNCHANGED faults
           /\ cer' = [cer EXCEPT !.undo = mine, !.todo = <<"abort", "discard">>]
        \/ /\ cer.built /\ Counted("raised")
           /\ pending' = held /\ cer' = NoCeremony
  /\ UNCHANGED <<repository, generator, issuer, iss, crashes>>

(* External: the operator accepts a capability for the commissioning in force,
   between ceremonies. *)
OperatorAccepts ==
  /\ cer = NoCeremony /\ repo.active
  /\ operator' = [code |-> repo.code, accepted |-> TRUE] /\ operator' # operator
  /\ UNCHANGED <<repo, assured, spent, generator, issuer, pending, cer, iss, faults, crashes>>

(* A stop loses the memory of all three objects; the restart reads the two
   journals and the lifecycle, and refuses a staged generation whose server
   key is missing. *)
Crash ==
  /\ crashes < MaxCrash /\ crashes' = crashes + 1
  /\ Referenced(lifeDisk) \subseteq coreKeys
  /\ cer' = NoCeremony /\ iss' = NoCall /\ update' = {} /\ pending' = {}
  /\ edgeMem' = edgeDisk /\ coreMem' = coreDisk /\ life' = lifeDisk
  /\ UNCHANGED <<repository, keys, certs, edgeDisk, coreKeys, coreDisk, lifeDisk, faults>>

IssuerNext ==
  \/ \E r \in Outcome : \/ ReconcilePendingLifecycleUpdate(r) \/ PrepareRevokeGeneration(r)
                       \/ BeginGeneration(r) \/ WriteServerKey(r) \/ PublishQueues(r)
                       \/ ApplyProposedLifecycle(r)
                       \/ \E r2 \in Outcome : PersistLifecycleRaises(r, r2)
  \/ ReconciliationAmbiguous \/ ActivateStagedGeneration \/ AbortStagedGeneration
  \/ RevokeGeneration \/ PersistLifecycle

ServiceNext ==
  \/ \E r \in Outcome : \/ Clean(r) \/ Trim(r) \/ QueueArtifactCleanup(r) \/ Generate(r)
                       \/ \E undone \in BOOLEAN : WriteKeys(r, undone)
                       \/ InstallClientCertificate(r) \/ Discard(r)
                       \/ ClearAcceptedCapability(r) \/ ReplaceAtomic(r) \/ WriteAssurance(r)
                       \/ \E op \in {"commission", "recommission", "revoke"}, c \in Code,
                            fresh \in BOOLEAN : IssueProof(op, c, fresh, r)
  \/ Resume \/ Settle \/ Ready \/ CompleteGeneration \/ CommissioningFails \/ OperatorAccepts \/ Crash

Next == IssuerNext \/ ServiceNext

Spec == Init /\ [][Next]_vars

-----------------------------------------------------------------------------
(* The commissioning in force can be used: its private keys, its certificate
   and Core's server key are in their stores, whatever failed before. *)
CurrentMaterialExists ==
  repo.active => /\ repo.code \in keys /\ repo.code \in certs
                 /\ repo.code \in coreKeys /\ life.staged[repo.gen] = repo.code

(* A restart finds the server key of every staged generation: the issuer
   never refuses its own record. *)
RestartIsPossible == Referenced(lifeDisk) \subseteq coreKeys

(* No private key is forgotten: one that is on disk belongs to the state in
   force or to a staged generation, or a durable journal will delete it. *)
NothingOrphaned ==
  /\ keys \cup certs \subseteq InUse \cup edgeDisk
  /\ coreKeys \subseteq Referenced(lifeDisk) \cup coreDisk

(* Core never serves a generation that the robot has not published. *)
ServedWasPublished == lifeDisk.active <= repo.gen

(* An accepted capability belongs to the commissioning in force. *)
AcceptanceIsCurrent == operator.accepted => repo.active /\ repo.code = operator.code

(* Whatever raised or stopped between the writes of a ceremony, the three
   stores fit together: the commissioning in force is usable and the one
   served, a restart finds its keys, and no key or acceptance is left over. *)
CommissioningIsWhole ==
  /\ CurrentMaterialExists /\ RestartIsPossible /\ NothingOrphaned
  /\ ServedWasPublished /\ AcceptanceIsCurrent

=============================================================================
