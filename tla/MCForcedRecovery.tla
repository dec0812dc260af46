-------------------------- MODULE MCForcedRecovery --------------------------
(* Two roots, a ticket's file and its result, which is not there yet.      *)
EXTENDS ForcedRecovery

MCInitialFiles == [f \in Files |-> IF f = 1 THEN {0} ELSE {}]

=============================================================================
