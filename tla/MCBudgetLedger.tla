--------------------------- MODULE MCBudgetLedger ---------------------------
(* A small account.  The settings have been lowered once, so two sets of   *)
(* bounds may be in force, and a measured cost may pass its worst case.    *)
EXTENDS BudgetLedger, TLC

MCBounds ==
    {[transition |-> 2, perDay |-> 2, spendPerDay |-> 4],
     [transition |-> 1, perDay |-> 1, spendPerDay |-> 2]}

Symmetry == Permutations(Reservation)

=============================================================================
