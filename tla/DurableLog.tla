----------------------------- MODULE DurableLog -----------------------------
(* What a budget account promises of its receipts: one log that is only    *)
(* ever extended at its end, by one receipt at a time, and of which every  *)
(* transaction sees the whole.  A receipt whose append was interrupted may *)
(* turn up at the end of the log, and then no later than the next          *)
(* transaction; a receipt that was acknowledged is there for good.         *)
EXTENDS Sequences

CONSTANTS Receipt, None

VARIABLES
    log,            \* the receipts every later transaction is charged for
    view            \* what the open transaction has seen, or None

logVars == <<log, view>>

DurableInit == log = <<>> /\ view = None

Extended == \E r \in Receipt : log' = Append(log, r)

Begin == view = None /\ (Extended \/ UNCHANGED log) /\ view' = log'

AppendOne == view = log /\ Extended /\ view' = log'

End == view' = None /\ UNCHANGED log

DurableNext == Begin \/ AppendOne \/ End

DurableSpec == DurableInit /\ [][DurableNext]_logVars

=============================================================================
