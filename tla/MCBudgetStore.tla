--------------------------- MODULE MCBudgetStore ---------------------------
(* Three reservations over two months: two fit below the hard limit of 5,    *)
(* the second passes the soft limit of 3, and usage of 4 overruns a quote.   *)
EXTENDS BudgetStore

MCQuotes == {2}
MCActuals == {1, 4, 9, Unpriced}

=============================================================================
