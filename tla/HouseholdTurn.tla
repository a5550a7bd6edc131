--------------------------- MODULE HouseholdTurn ---------------------------
(***************************************************************************)
(* What TurnCoordinator shows to the rest of the core: CoordinatorState    *)
(* and the active turn.  One turn at a time; a turn that has been started  *)
(* is released only through a published cancellation (a normal finish is   *)
(* one too), and a failed barrier keeps the household blocked.             *)
(***************************************************************************)
EXTENDS Naturals

CONSTANT MaxTurn   \* turn identifiers are fresh: 1, 2, ... MaxTurn

NoTurn == 0
Turn == 1..MaxTurn

VARIABLES
    active,   \* TurnCoordinator._active
    cstate,   \* TurnCoordinator._state
    last      \* the newest turn identifier in use

turnVars == <<active, cstate, last>>

CInit == active = NoTurn /\ cstate = "idle" /\ last = NoTurn

CStart(t) ==
    /\ cstate = "idle" /\ active = NoTurn
    /\ active' = t /\ cstate' = "active"

\* finish or cancel: from now on no result of the turn is accepted.
CPublish == cstate = "active" /\ cstate' = "cancelling" /\ UNCHANGED active

CRelease == cstate = "cancelling" /\ cstate' = "idle" /\ active' = NoTurn

CBlock == cstate \in {"active", "cancelling"} /\ cstate' = "blocked" /\ UNCHANGED active

CRecover == cstate = "blocked" /\ cstate' = "cancelling" /\ UNCHANGED active

CNext ==
    \/ \E t \in Turn : t > last /\ CStart(t) /\ last' = t
    \/ (CPublish \/ CRelease \/ CBlock \/ CRecover) /\ UNCHANGED last

CSpec == CInit /\ [][CNext]_turnVars

AcceptsResults(t) == active = t /\ cstate = "active"

=============================================================================
