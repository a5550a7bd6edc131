--------------------------- MODULE BudgetPromise ---------------------------
(***************************************************************************)
(* What the budget promises a household, without reservations, calls or    *)
(* transactions.  Money is committed only in a month that is not frozen    *)
(* and only below the hard limit.  A commitment is given back or spent;    *)
(* spending more than was committed freezes the month at the same moment.  *)
(* What is spent stays spent, and a frozen month stays frozen.             *)
(***************************************************************************)
EXTENDS Integers, TLAPS

CONSTANTS Month, HardLimit

VARIABLES
    committed,  \* per month: what open reservations may still cost
    spent,      \* per month: what was charged
    frozen      \* months closed to new cloud calls

vars == <<committed, spent, frozen>>

Total(m) == committed[m] + spent[m]

Init ==
    /\ committed = [m \in Month |-> 0]
    /\ spent = [m \in Month |-> 0]
    /\ frozen = {}

Commit(m) ==
    /\ m \notin frozen
    /\ committed' \in [Month -> Nat]
    /\ \A n \in Month \ {m} : committed'[n] = committed[n]
    /\ committed'[m] + spent[m] <= HardLimit
    /\ UNCHANGED <<spent, frozen>>

Account ==
    /\ committed' \in [Month -> Nat] /\ spent' \in [Month -> Nat]
    /\ frozen \subseteq frozen'
    /\ \A m \in Month : committed'[m] <= committed[m] /\ spent'[m] >= spent[m]
    /\ \A m \in Month : committed'[m] + spent'[m] <= Total(m) \/ m \in frozen'

Next == (\E m \in Month : Commit(m)) \/ Account

Spec == Init /\ [][Next]_vars

----------------------------------------------------------------------------

\* A month's commitments and charges stay within the hard limit until it is frozen.
WithinLimit == \A m \in Month : Total(m) <= HardLimit \/ m \in frozen

TypeInv == committed \in [Month -> Nat] /\ spent \in [Month -> Nat]

\* For every hard limit, the promise keeps the monthly total within it: what
\* BudgetStore gains by implementing this specification.
THEOREM LimitKept ==
    ASSUME HardLimit \in Nat
    PROVE  Spec => []WithinLimit
<1> DEFINE Inv == TypeInv /\ WithinLimit
<1>1. Init => Inv
  BY DEF Init, TypeInv, WithinLimit, Total
<1>2. Inv /\ [Next]_vars => Inv'
  <2> SUFFICES ASSUME Inv, [Next]_vars PROVE Inv'
    OBVIOUS
  <2>1. ASSUME NEW m \in Month, Commit(m) PROVE Inv'
    <3>1. TypeInv'
      BY <2>1 DEF Commit, TypeInv
    <3>2. ASSUME NEW n \in Month PROVE Total(n)' <= HardLimit \/ n \in frozen'
      BY <2>1, <3>2 DEF Commit, TypeInv, WithinLimit, Total
    <3> QED
      BY <3>1, <3>2 DEF WithinLimit
  <2>2. CASE Account
    <3>1. TypeInv'
      BY <2>2 DEF Account, TypeInv
    <3>2. ASSUME NEW n \in Month PROVE Total(n)' <= HardLimit \/ n \in frozen'
      BY <2>2, <3>1, <3>2 DEF Account, TypeInv, WithinLimit, Total
    <3> QED
      BY <3>1, <3>2 DEF WithinLimit
  <2>3. CASE UNCHANGED vars
    BY <2>3 DEF vars, TypeInv, WithinLimit, Total
  <2> QED
    BY <2>1, <2>2, <2>3 DEF Next
<1> QED
  BY <1>1, <1>2, PTL DEF Spec

=============================================================================
