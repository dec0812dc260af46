--------------------------- MODULE MCBudgetVisits ---------------------------
(* Two runs of different execution roots, or two in a row of the same one, *)
(* and a ticket worked by one invocation or by two.                        *)
EXTENDS BudgetVisits, TLC

CONSTANTS run1, run2, rootA, rootB, i1, i2, t1, t2

TwoRoots == (run1 :> rootA) @@ (run2 :> rootB)
OneRoot == (run1 :> rootA) @@ (run2 :> rootA)

TwoTickets == (i1 :> t1) @@ (i2 :> t2)
Fanout == (i1 :> t1) @@ (i2 :> t1)

MCBounds == {[transition |-> 2, perDay |-> 2, spendPerDay |-> 9]}
OneUnit == {[transition |-> 1, perDay |-> 1, spendPerDay |-> 9]}

=============================================================================
