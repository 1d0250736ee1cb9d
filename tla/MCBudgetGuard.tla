--------------------------- MODULE MCBudgetGuard ---------------------------
(***************************************************************************)
(* Instance of BudgetGuard for TLC: three concurrent graph runs, a limit   *)
(* of three units and calls of at most two, so that every caller can be    *)
(* admitted just below the limit.                                          *)
(***************************************************************************)
EXTENDS BudgetGuard

CONSTANTS c1, c2, c3

MCCallers == {c1, c2, c3}

=============================================================================
