---------------------------- MODULE MCHousehold ----------------------------
(***************************************************************************)
(* Four records of the household that are ended or revoked while somebody  *)
(* still works with them: context sessions, identity and consent of the    *)
(* members and of a guest, and the provider calls of a revoked subject     *)
(* (three reservations in one month, two of them the subject's).  They     *)
(* share no state here; the first state chooses which of them moves.       *)
(***************************************************************************)
EXTENDS SessionManager, IdentityAuthority, RevokedCalls

VARIABLE part

MCActuals == {1, 4, 9, Unpriced}

\* Bounds: one context session is ended, and the transport cuts off the first turn only.
OneEnd == Cardinality((endingCtx \cup ended)') <= 1 /\ (Disconnect => active = 1)

HouseholdInit ==
    SMInit /\ IdentityInit /\ RevokedInit /\ part \in {"sessions", "identity", "guests", "calls"}

HouseholdNext ==
    /\ UNCHANGED part
    /\ \/ part = "sessions" /\ SMNext /\ OneEnd /\ UNCHANGED <<identityVars, revokedVars>>
       \/ part = "identity" /\ SubjectNext /\ UNCHANGED <<guestVars, smVars, revokedVars>>
       \/ part = "guests" /\ GuestNext /\ UNCHANGED <<subjectVars, smVars, revokedVars>>
       \/ part = "calls" /\ RevokedNext /\ UNCHANGED <<smVars, identityVars>>

HouseholdSpec == HouseholdInit /\ [][HouseholdNext]_<<smVars, identityVars, revokedVars, part>>

=============================================================================
