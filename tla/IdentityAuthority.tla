--------------------------- MODULE IdentityAuthority ---------------------------
(***************************************************************************)
(* Household identity: profiles, the append-only consent receipts and the  *)
(* profile's pointers to the current ones, biometric enrollment ceremonies *)
(* and their templates, and the single-use cloud route authorizations that *)
(* rest on a consent.  Every mutation is one transaction of the process-   *)
(* wide unit of work, so every action here is one such transaction; what   *)
(* interleaves is which of them commit, in which order, for which subject. *)
(*                                                                         *)
(* A receipt of a subject and purpose is named by its position in that     *)
(* subject's log: _receipt_timestamp_after makes created_at strictly       *)
(* increasing along the log, so "ORDER BY created_at DESC LIMIT 1" is the  *)
(* last element.  A ceremony and its template share the name of the        *)
(* ceremony, since the template id is drawn when the ceremony is created.  *)
(*                                                                         *)
(* Guests have no profile: what a guest agrees to holds for one session,   *)
(* whose row names no speaker, and rests on a disclosure that was shown    *)
(* and a challenge that was answered.  Its services are handed the instant *)
(* their caller read before the transaction began.                         *)
(***************************************************************************)
EXTENDS Naturals, Sequences, FiniteSets

CONSTANTS
    Owner,              \* the installed owner, guardian of every child
    Adults,             \* further adult profiles
    Children,           \* child profiles (classes k2 and n1)
    Modalities,         \* biometric purposes: face, voice
    CloudPurposes,      \* cloud_stt, cloud_reasoning, cloud_tts
    Personalization,    \* the purpose persona traits rest on (and, like
                        \* web_search, one whose revocation has no handler)
    ChildMemory,        \* child_durable_memory_v1, the purpose that expires
    Ceremonies,         \* names for enrollment ceremonies
    Routes,             \* names for route authorizations
    Nobody,             \* no speaker is identified in the session
    Challenges,         \* names for guest disclosures and their challenges
    SessionLife,        \* a guest session's idle lifetime (half an hour)
    AnswerTime,         \* how long a challenge may be answered (two minutes)
    MaxReceipts,        \* bound on the receipts of the household
    MaxVersion,         \* bound on a profile's version
    MaxInstant          \* bound on the clock of the guest sessions

ASSUME IdentityAssumption ==
    /\ Owner \notin Adults \cup Children
    /\ Adults \cap Children = {}
    /\ Nobody \notin {Owner} \cup Adults \cup Children
    /\ Modalities \cap CloudPurposes = {}
    /\ {Personalization, ChildMemory} \cap (Modalities \cup CloudPurposes) = {}
    /\ Personalization # ChildMemory
    /\ MaxReceipts \in Nat /\ MaxVersion \in Nat
    /\ SessionLife \in Nat \ {0} /\ AnswerTime \in Nat \ {0} /\ MaxInstant \in Nat

Subjects == {Owner} \cup Adults \cup Children
Purposes == Modalities \cup CloudPurposes \cup {Personalization, ChildMemory}

VARIABLES
    profile,    \* subjects rows
    receipts,   \* consent_receipts rows, one log per subject and purpose
    ceremony,   \* enrollment_sessions rows
    template,   \* biometric_templates rows
    route,      \* route.authorization.* settings and their consumption receipts
    speaker,    \* sessions.speaker_subject_id of the one open session
    instant,    \* the clock
    guestSession,   \* the sessions row of a guest
    challenge,      \* guest_disclosure_challenges rows and the disclosures shown
    guestReceipts   \* guest_session_consent_receipts rows of that session

subjectVars == <<profile, receipts, ceremony, template, route, speaker>>
guestVars == <<instant, guestSession, challenge, guestReceipts>>
identityVars == <<profile, receipts, ceremony, template, route, speaker,
          instant, guestSession, challenge, guestReceipts>>

NoProfile == [state |-> "absent", version |-> 0, generation |-> 0,
              pointers |-> {}, traits |-> 0, reminder |-> FALSE]
NewProfile == [NoProfile EXCEPT !.state = "active", !.version = 1,
                                !.generation = 1]
NoCeremony == [state |-> "none"]
NoRoute == [state |-> "none"]
NoChallenge == [state |-> "none"]

\* The owner is installed when the household is set up; everyone else is created.
IdentityInit ==
    /\ profile = [s \in Subjects |-> IF s = Owner THEN NewProfile ELSE NoProfile]
    /\ receipts = [s \in Subjects |-> [p \in Purposes |-> <<>>]]
    /\ ceremony = [c \in Ceremonies |-> NoCeremony]
    /\ template = [c \in Ceremonies |-> "none"]
    /\ route = [r \in Routes |-> NoRoute]
    /\ speaker = Nobody
    /\ instant = 0
    /\ guestSession = [open |-> TRUE, active |-> 0]
    /\ challenge = [c \in Challenges |-> NoChallenge]
    /\ guestReceipts = {}

-----------------------------------------------------------------------------
(* Helpers of the services *)

Active(s) == profile[s].state = "active"

Latest(s, p) == Len(receipts[s][p])

\* The bound: how many receipts the household may still write.
RoomForReceipts ==
    Cardinality({x \in Subjects \X Purposes \X (1 .. MaxReceipts) :
                    x[3] <= Latest(x[1], x[2])}) < MaxReceipts

\* Who may act for a subject: the subject, or the guardian of a child.  The guardian
\* generation a command carries is the profile's, which the owner's never leaves.
Authority(s) == IF s \in Children THEN Owner ELSE s

\* ConsentService.require_current_in_uow: the latest receipt is a live grant.
IsCurrent(s, p) ==
    /\ Active(s)
    /\ p = ChildMemory => s \in Children
    /\ Latest(s, p) > 0
    /\ LET receipt == receipts[s][p][Latest(s, p)]
       IN  receipt.granted /\ ~receipt.expired

\* _append_consent_receipt_replacing_current: the two consistency checks that refuse
\* to append, then the new log and the new pointers.
PointersAgree(s, p) ==
    Latest(s, p) > 0 =>
        (receipts[s][p][Latest(s, p)].granted
             <=> <<p, Latest(s, p)>> \in profile[s].pointers)

OtherPointers(s, p) == {q \in profile[s].pointers : q[1] # p}

\* granted_from and revoked_from: a revocation is written with its expiry reached.
Receipt(granted) == [granted |-> granted, expired |-> ~granted]

AppendReceipt(s, p, granted) ==
    /\ PointersAgree(s, p)
    /\ granted => Cardinality(OtherPointers(s, p)) < 8
    /\ receipts' = [receipts EXCEPT ![s][p] =
                       Append(@, Receipt(granted))]
    /\ profile' = [profile EXCEPT ![s].pointers =
                       OtherPointers(s, p)
                           \cup (IF granted THEN {<<p, Latest(s, p) + 1>>} ELSE {})]

OpenStates == {"requested", "capturing", "calibrating"}

\* cancel_subject_modality and EnrollmentSubjectAuthorityRevocationHandler
CeremoniesCancelled(s, modalities) ==
    [c \in Ceremonies |->
        IF /\ ceremony[c].state \in OpenStates
           /\ ceremony[c].subject = s
           /\ ceremony[c].modality \in modalities
        THEN [ceremony[c] EXCEPT !.state = "cancelled"]
        ELSE ceremony[c]]

\* _revoke_subject_modality: every unrevoked template, of whatever ceremony
TemplatesRevoked(s, modalities) ==
    [c \in Ceremonies |->
        IF /\ template[c] # "none"
           /\ ceremony[c].subject = s
           /\ ceremony[c].modality \in modalities
        THEN "revoked"
        ELSE template[c]]

\* invalidate_subject_purpose_in_uow: the routes no one has consumed are deleted.
RoutesInvalidated(s, purposes) ==
    [r \in Routes |->
        IF /\ route[r].state = "issued"
           /\ route[r].subject = s
           /\ route[r].purpose \in purposes
        THEN [route[r] EXCEPT !.state = "deleted"]
        ELSE route[r]]

\* invalidate_identity_subject
SpeakerInvalidated(s) == IF speaker = s THEN Nobody ELSE speaker

-----------------------------------------------------------------------------
(* Profiles *)

\* ProfileService.create, by the current owner.
CreateProfile(s) ==
    /\ s # Owner /\ profile[s].state = "absent"
    /\ Active(Owner)
    /\ profile' = [profile EXCEPT ![s] = NewProfile]
    /\ UNCHANGED <<receipts, ceremony, template, route, speaker>>

\* ProfileService.update_persona_traits: sealed for the version the update will
\* produce; clearing the traits needs no consent.  "expected" is the version the
\* client read when it prepared the command.
UpdatePersona(s, expected, clear) ==
    /\ Active(s) /\ profile[s].version < MaxVersion
    /\ clear \/ IsCurrent(s, Personalization)
    /\ profile[s].version = expected
    /\ profile' = [profile EXCEPT
                      ![s].traits = IF clear THEN 0 ELSE expected + 1,
                      ![s].version = @ + 1]
    /\ UNCHANGED <<receipts, ceremony, template, route, speaker>>

(* The handlers of SubjectAuthorityRevocationCascade, each over all of a subject.   *)
(* The families of capabilities that are not installed only check that they are not. *)

SubjectConsentsRevoked(s) ==
    [receipts EXCEPT ![s] = [p \in Purposes |->
        [i \in DOMAIN @[p] |-> [@[p][i] EXCEPT !.expired = TRUE]]]]

SubjectEnrollmentsCancelled(s) == CeremoniesCancelled(s, Modalities)

SubjectTemplatesRevoked(s) == TemplatesRevoked(s, Modalities)

\* SqlProviderRouteAuthorityRevocation, for each cloud purpose in turn
SubjectRoutesInvalidated(s) == RoutesInvalidated(s, CloudPurposes)

SubjectCascade(s) ==
    /\ speaker' = SpeakerInvalidated(s)
    /\ receipts' = SubjectConsentsRevoked(s)
    /\ ceremony' = SubjectEnrollmentsCancelled(s)
    /\ template' = SubjectTemplatesRevoked(s)
    /\ route' = SubjectRoutesInvalidated(s)

\* revoke_and_advance_authority_generation_expected_version
RevokedRow(row) == [row EXCEPT !.state = "revoked", !.version = @ + 1, !.generation = @ + 1]

\* ProfileService.revoke.  The pointers stay as they are.  The actor is the subject,
\* the guardian or the owner.
RevokeProfile(s, actor, expected) ==
    /\ Active(s) /\ s # Owner
    /\ actor \in {Authority(s), Owner} /\ Active(actor)
    /\ profile[s].version = expected
    /\ profile' = [profile EXCEPT ![s] = RevokedRow(@)]
    /\ SubjectCascade(s)

-----------------------------------------------------------------------------
(* Consents *)

\* ConsentService.grant: a grant may replace a grant that is still current.
GrantConsent(s, p, actor, expected) ==
    /\ Active(s) /\ actor = Authority(s)
    /\ p = ChildMemory => s \in Children
    /\ Latest(s, p) = expected
    /\ RoomForReceipts
    /\ AppendReceipt(s, p, TRUE)
    /\ UNCHANGED <<ceremony, template, route, speaker>>

\* Mutant: the ceremonies under way are not cancelled.
ConsentCascadeKeepsCeremonies(s, p) ==
    /\ IF p \in Modalities
       THEN /\ template' = TemplatesRevoked(s, {p})
            /\ speaker' = SpeakerInvalidated(s)
       ELSE UNCHANGED <<template, speaker>>
    /\ ceremony' = ceremony
    /\ route' = IF p \in CloudPurposes THEN RoutesInvalidated(s, {p}) ELSE route

\* ConsentRevocationCascade: the biometric handler for face and voice, the cloud
\* route handler for the cloud purposes, nothing for the others.
ConsentCascade(s, p) ==
    /\ IF p \in Modalities
       THEN /\ ceremony' = CeremoniesCancelled(s, {p})
            /\ template' = TemplatesRevoked(s, {p})
            /\ speaker' = SpeakerInvalidated(s)
       ELSE UNCHANGED <<ceremony, template, speaker>>
    /\ route' = IF p \in CloudPurposes THEN RoutesInvalidated(s, {p}) ELSE route

\* ConsentService.revoke: only a live grant can be revoked.
RevokeConsent(s, p, actor, expected) ==
    /\ Active(s) /\ actor = Authority(s)
    /\ IsCurrent(s, p)
    /\ Latest(s, p) = expected
    /\ RoomForReceipts
    /\ AppendReceipt(s, p, FALSE)
    /\ ConsentCascade(s, p)

\* A year passes: the one kind of grant that expires by itself.
ReceiptExpires(s) ==
    /\ Latest(s, ChildMemory) > 0
    /\ ~receipts[s][ChildMemory][Latest(s, ChildMemory)].expired
    /\ receipts' = [receipts EXCEPT ![s][ChildMemory][Latest(s, ChildMemory)].expired = TRUE]
    /\ UNCHANGED <<profile, ceremony, template, route, speaker>>

-----------------------------------------------------------------------------
(* Enrollment *)

\* SqlEnrollmentRepository.create
NewEnrollment(s, m, receipt) ==
    [state |-> "requested", subject |-> s, modality |-> m, receipt |-> receipt, lapsed |-> FALSE]

\* EnrollmentService.request, by the owner, against the profile version and the
\* consent receipt the client read.
RequestEnrollment(c, s, m, expectedVersion, expectedReceipt) ==
    /\ ceremony[c].state = "none"
    /\ Active(Owner) /\ Active(s)
    /\ profile[s].version = expectedVersion
    /\ IsCurrent(s, m) /\ Latest(s, m) = expectedReceipt
    /\ ceremony' = [ceremony EXCEPT ![c] =
                       NewEnrollment(s, m, expectedReceipt)]
    /\ UNCHANGED <<profile, receipts, template, route, speaker>>

\* _transition_state: neither step looks at the consent or at the session's lifetime.
Transition(c, from, to) ==
    /\ ceremony[c].state = from
    /\ ceremony' = [ceremony EXCEPT ![c].state = to]
    /\ UNCHANGED <<profile, receipts, template, route, speaker>>

BeginCapture(c) == Transition(c, "requested", "capturing")
MarkCalibrating(c) == Transition(c, "capturing", "calibrating")

\* EnrollmentService.cancel_in_uow: the template, if there is one, is left behind.
CancelEnrollment(c) ==
    /\ Active(Owner)
    /\ ceremony[c].state \in OpenStates
    /\ ceremony' = [ceremony EXCEPT ![c].state = "cancelled"]
    /\ UNCHANGED <<profile, receipts, template, route, speaker>>

\* The capture pipeline stores the template while its ceremony is under way.
StoreTemplate(c) ==
    /\ ceremony[c].state \in {"capturing", "calibrating"} /\ template[c] = "none"
    /\ template' = [template EXCEPT ![c] = "ready"]
    /\ UNCHANGED <<profile, receipts, ceremony, route, speaker>>

\* The session's lifetime ends; nothing is written.
CeremonyLapses(c) ==
    /\ ceremony[c].state \in OpenStates /\ ~ceremony[c].lapsed
    /\ ceremony' = [ceremony EXCEPT ![c].lapsed = TRUE]
    /\ UNCHANGED <<profile, receipts, template, route, speaker>>

\* require_ready_for_approval and _approved_template_is_linkable
ReadyForApproval(c) == template[c] = "ready"

\* _approve and _link_approved_template: a child's approval also schedules the
\* re-enrollment reminder of the profile and the template's hard expiry.
Approve(c) ==
    /\ ceremony' = [ceremony EXCEPT ![c].state = "approved"]
    /\ template' = [template EXCEPT ![c] = "approved"]
    /\ profile' = [profile EXCEPT ![ceremony[c].subject].reminder =
                       @ \/ ceremony[c].subject \in Children]

\* EnrollmentService.complete_in_uow: under the very receipt the ceremony began with.
CompleteEnrollment(c) ==
    /\ ceremony[c].state = "calibrating" /\ ~ceremony[c].lapsed
    /\ IsCurrent(ceremony[c].subject, ceremony[c].modality)
    /\ Latest(ceremony[c].subject, ceremony[c].modality) = ceremony[c].receipt
    /\ ReadyForApproval(c)
    /\ Approve(c)
    /\ UNCHANGED <<receipts, route, speaker>>

\* A year after a child's approval.
HardExpiryPasses(c) ==
    /\ template[c] = "approved" /\ ceremony[c].subject \in Children
    /\ template' = [template EXCEPT ![c] = "due"]
    /\ UNCHANGED <<profile, receipts, ceremony, route, speaker>>

\* EnrollmentService.expire_due_child_templates: every due template of the household
\* in one transaction; the profile of each loses its reminder.
ExpireDueChildTemplates ==
    LET due == {c \in Ceremonies : template[c] = "due" /\ Active(ceremony[c].subject)}
        subjects == {ceremony[c].subject : c \in due}
    IN  /\ due # {}
        /\ profile' = [s \in Subjects |-> IF s \in subjects
                                          THEN [profile[s] EXCEPT !.reminder = FALSE]
                                          ELSE profile[s]]
        /\ template' = [c \in Ceremonies |-> IF c \in due THEN "revoked"
                                                         ELSE template[c]]
        /\ UNCHANGED <<receipts, ceremony, route, speaker>>

-----------------------------------------------------------------------------
(* Route authorizations.  The other prerequisites of a route (its privacy receipt,  *)
(* provider review and budget reservation, and its own two minute lifetime) can only *)
(* refuse it: a route they refuse is one these actions are not taken for.            *)

\* RouteAuthorizationService.authorize: an attempt is given one route, ever.
Authorize(r, s, p) ==
    /\ route[r].state = "none"
    /\ IsCurrent(s, p)
    /\ speaker = s
    /\ route' = [route EXCEPT ![r] =
                    [state |-> "issued", subject |-> s, purpose |-> p,
                     receipt |-> Latest(s, p), generation |-> profile[s].generation]]
    /\ UNCHANGED <<profile, receipts, ceremony, template, speaker>>

\* RouteAuthorizationService.consume: everything is required again, exactly.
Consume(r) ==
    /\ route[r].state = "issued"
    /\ LET s == route[r].subject
           p == route[r].purpose
       IN  /\ IsCurrent(s, p) /\ Latest(s, p) = route[r].receipt
           /\ profile[s].generation = route[r].generation
           /\ speaker = s
    /\ route' = [route EXCEPT ![r].state = "consumed"]
    /\ UNCHANGED <<profile, receipts, ceremony, template, speaker>>

\* The identification pipeline names the speaker of the session, or finds no one.
IdentifySpeaker(s) ==
    /\ s # speaker
    /\ s \in {Nobody} \cup {t \in Subjects : Active(t)}
    /\ speaker' = s
    /\ UNCHANGED <<profile, receipts, ceremony, template, route>>

-----------------------------------------------------------------------------
(* Consents of a guest *)

\* require_active: the instant the session ends if nobody uses it again.
SessionEnd == guestSession.active + SessionLife

SessionIsActive(t) == guestSession.open /\ t < SessionEnd

\* "ORDER BY issued_at DESC,id DESC LIMIT 1" of a purpose; the issue instants of a
\* session and purpose are unique.
IsLatest(r) == \A q \in guestReceipts : q.purpose = r.purpose => q.at <= r.at

\* lock_current
Withdrawable(r, t) == IsLatest(r) /\ r.granted /\ r.at <= t /\ t < r.expires

\* GuestSessionConsentService.require_current, at the instant t
GuestIsCurrent(r, t) ==
    Withdrawable(r, t) /\ SessionIsActive(t) /\ r.expires <= SessionEnd

\* append, with the uniqueness of issued_at
AppendGuestReceipt(receipt) ==
    /\ \A q \in guestReceipts : q.purpose = receipt.purpose => q.at # receipt.at
    /\ guestReceipts' = guestReceipts \cup {receipt}

\* The device shows the guest a disclosure and its receipt is stored.
ShowDisclosure(c, p) ==
    /\ challenge[c].state = "none"
    /\ challenge' = [challenge EXCEPT ![c] =
                        [state |-> "shown", purpose |-> p, issued |-> instant,
                         expires |-> instant]]
    /\ UNCHANGED <<instant, guestSession, guestReceipts>>

\* require_exact_guest_disclosure
WasShown(c, t) == challenge[c].state = "shown" /\ challenge[c].issued <= t

\* issue_challenge: one challenge for a disclosure shown, ever.
IssueChallenge(c, t) ==
    /\ SessionIsActive(t)
    /\ WasShown(c, t)
    /\ challenge' = [challenge EXCEPT ![c] =
                        [state |-> "open", purpose |-> @.purpose, issued |-> t,
                         expires |-> IF SessionEnd < t + AnswerTime
                                     THEN SessionEnd ELSE t + AnswerTime]]
    /\ UNCHANGED <<instant, guestSession, guestReceipts>>

\* lock_open
IsOpen(c, t) ==
    challenge[c].state = "open" /\ challenge[c].issued <= t /\ t < challenge[c].expires

\* _consume
Answered(c, answer) == challenge' = [challenge EXCEPT ![c].state = answer]

\* accept_challenge, answered with anything but a yes: the session is not looked at.
DeclineChallenge(c, t) ==
    /\ IsOpen(c, t)
    /\ Answered(c, "denied")
    /\ UNCHANGED <<instant, guestSession, guestReceipts>>

\* accept_challenge, answered with a yes: the consent lasts as long as the session
\* would now.
AcceptChallenge(c, t) ==
    /\ IsOpen(c, t)
    /\ SessionIsActive(t) /\ challenge[c].expires <= SessionEnd
    /\ Answered(c, "accepted")
    /\ AppendGuestReceipt([challenge |-> c, purpose |-> challenge[c].purpose,
                            granted |-> TRUE, at |-> t, expires |-> SessionEnd])
    /\ UNCHANGED <<instant, guestSession>>

\* GuestSessionConsentService.revoke: a receipt that repeats the grant's challenge.
RevokeGuestConsent(r, t) ==
    /\ Withdrawable(r, t)
    /\ AppendGuestReceipt([r EXCEPT !.granted = FALSE, !.at = t])
    /\ UNCHANGED <<instant, guestSession, challenge>>

\* The session is used: no code of the repository writes this column for a turn.
UseSession ==
    /\ guestSession.open /\ guestSession.active # instant
    /\ guestSession' = [guestSession EXCEPT !.active = instant]
    /\ UNCHANGED <<instant, challenge, guestReceipts>>

\* The next start of the Core abandons the sessions that were open.
AbandonSession ==
    /\ guestSession.open
    /\ guestSession' = [open |-> FALSE, active |-> instant]
    /\ UNCHANGED <<instant, challenge, guestReceipts>>

TimePasses ==
    /\ instant < MaxInstant
    /\ instant' = instant + 1
    /\ UNCHANGED <<guestSession, challenge, guestReceipts>>

GuestNext ==
    \/ \E c \in Challenges, p \in CloudPurposes : ShowDisclosure(c, p)
    \/ \E c \in Challenges, t \in 0 .. instant :
          IssueChallenge(c, t) \/ DeclineChallenge(c, t) \/ AcceptChallenge(c, t)
    \/ \E r \in guestReceipts, t \in 0 .. instant : RevokeGuestConsent(r, t)
    \/ UseSession \/ AbandonSession \/ TimePasses

-----------------------------------------------------------------------------

SubjectNext ==
    \/ \E s \in Subjects :
          \/ CreateProfile(s)
          \/ ReceiptExpires(s)
          \/ \E expected \in 1 .. MaxVersion :
                \/ \E clear \in BOOLEAN : UpdatePersona(s, expected, clear)
                \/ \E actor \in Subjects : RevokeProfile(s, actor, expected)
          \/ \E p \in Purposes, actor \in Subjects, expected \in 0 .. MaxReceipts :
                \/ GrantConsent(s, p, actor, expected)
                \/ RevokeConsent(s, p, actor, expected)
    \/ \E c \in Ceremonies :
          \/ \E s \in Subjects, m \in Modalities, v \in 1 .. MaxVersion,
                 n \in 1 .. MaxReceipts : RequestEnrollment(c, s, m, v, n)
          \/ BeginCapture(c) \/ MarkCalibrating(c) \/ CancelEnrollment(c)
          \/ StoreTemplate(c) \/ CeremonyLapses(c) \/ CompleteEnrollment(c)
          \/ HardExpiryPasses(c)
    \/ ExpireDueChildTemplates
    \/ \E r \in Routes :
          \/ \E s \in Subjects, p \in CloudPurposes : Authorize(r, s, p)
          \/ Consume(r)
    \/ \E s \in Subjects \cup {Nobody} : IdentifySpeaker(s)

IdentityNext ==
    \/ SubjectNext /\ UNCHANGED guestVars
    \/ GuestNext /\ UNCHANGED subjectVars

IdentitySpec == IdentityInit /\ [][IdentityNext]_identityVars

-----------------------------------------------------------------------------
(* Properties *)

\* The profile of an active subject points at the latest receipt of each purpose when
\* that receipt is a grant, expired or not, and at nothing else: the pointer checks of
\* _append_consent_receipt_replacing_current never refuse a grant or a revocation as
\* corrupt, and at most one receipt per purpose is pointed to.
PointersAreLatestGrants ==
    \A s \in Subjects : Active(s) =>
        profile[s].pointers =
            {<<p, Latest(s, p)>> : p \in {q \in Purposes :
                Latest(s, q) > 0 /\ receipts[s][q][Latest(s, q)].granted}}

\* No ceremony is under way and no biometric template is kept unrevoked, approved or
\* left over from a cancelled ceremony, for a subject whose latest word on that
\* modality is a revocation: the revocation's transaction takes both away and nothing
\* that was in flight brings one back.
BiometricsAreConsented ==
    \A c \in Ceremonies :
        (ceremony[c].state \in OpenStates \/ template[c] \in {"ready", "approved", "due"})
            => LET s == ceremony[c].subject
                   m == ceremony[c].modality
               IN  Active(s) /\ receipts[s][m][Latest(s, m)].granted

\* A stored route no one has consumed rests on a subject who is active in the same
\* authority generation and whose latest receipt for the route's purpose is a grant:
\* an unused route never outlives the consent or the profile it was issued under.
UnusedRoutesAreConsented ==
    \A r \in Routes : route[r].state = "issued" =>
        LET s == route[r].subject
            p == route[r].purpose
        IN  /\ Active(s) /\ profile[s].generation = route[r].generation
            /\ receipts[s][p][Latest(s, p)].granted

\* A revoked profile is left with no live consent and no identified session: what the
\* cascade of ProfileService.revoke takes away does not come back.
RevokedHoldsNothing ==
    \A s \in Subjects : profile[s].state = "revoked" =>
        /\ speaker # s
        /\ \A p \in Purposes : \A i \in DOMAIN receipts[s][p] : receipts[s][p][i].expired

\* Stored persona traits were sealed for the version the profile has, the version
\* get_persona_projection opens them with: no other mutation of an active profile
\* moves the version from under them.
PersonaOpens ==
    \A s \in Subjects : Active(s) /\ profile[s].traits # 0 =>
        profile[s].traits = profile[s].version

\* A child who has an approved template that has not expired has a re-enrollment
\* reminder scheduled.
EnrolledChildKeepsReminder ==
    \A c \in Ceremonies : template[c] = "approved" /\ ceremony[c].subject \in Children =>
        profile[ceremony[c].subject].reminder

\* A guest consent that require_current finds was given by a yes to its own challenge
\* while that could be answered, and has not been withdrawn: a withdrawal is final for
\* the challenge it names, in whatever order calls that read the clock earlier commit
\* and however the session's lifetime moves.
GuestsAreAsked ==
    \A r \in guestReceipts, t \in 0 .. instant : GuestIsCurrent(r, t) =>
        /\ challenge[r.challenge].state = "accepted"
        /\ challenge[r.challenge].purpose = r.purpose
        /\ challenge[r.challenge].issued <= r.at /\ r.at < challenge[r.challenge].expires
        /\ \A w \in guestReceipts : w.challenge = r.challenge => w.granted

\* Everything that is kept or allowed in a subject's or a guest's name rests on the
\* consents and the profile as they are now, through every order of grants,
\* revocations, expiries, ceremonies, routes, profile changes and guest answers.
AuthorityIsConsented ==
    /\ PointersAreLatestGrants
    /\ BiometricsAreConsented
    /\ UnusedRoutesAreConsented
    /\ RevokedHoldsNothing
    /\ PersonaOpens
    /\ GuestsAreAsked

=============================================================================
