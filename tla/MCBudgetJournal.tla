-------------------------- MODULE MCBudgetJournal ---------------------------
(* One account, a few receipts, every crash, failure, accident and remedy. *)
EXTENDS BudgetJournal
=============================================================================
