----------------------------- MODULE RootGuards -----------------------------
(***************************************************************************)
(* The locks an operator's transaction and every other command share       *)
(* (rhei-core/src/root_access.rs): one guard for each execution root of    *)
(* the project, shared by commands and exclusive for a transaction, always *)
(* taken in the canonical order of the roots; and before the guards of a   *)
(* transaction the run locks of the same roots, which are only ever tried. *)
(***************************************************************************)
EXTENDS Integers

CONSTANTS
    Command,        \* processes of ordinary commands
    Operator,       \* processes of attended transactions
    LastRoot,       \* how many execution roots the project has
    None

ASSUME ProcAssumption == Command \cap Operator = {} /\ None \notin Command \cup Operator

ASSUME RootAssumption == LastRoot \in Nat \ {0}

VARIABLES
    shared,         \* root -> the commands that hold its guard
    exclusive,      \* root -> the transaction that holds its guard, or None
    runLocks        \* the transaction that holds the run locks, or None

guardVars == <<shared, exclusive, runLocks>>

Proc == Command \cup Operator

Roots == 1..LastRoot

GuardsTypeOK ==
    /\ shared \in [Roots -> SUBSET Command]
    /\ exclusive \in [Roots -> Operator \cup {None}]
    /\ runLocks \in Operator \cup {None}

GuardsInit ==
    /\ shared = [r \in Roots |-> {}]
    /\ exclusive = [r \in Roots |-> None]
    /\ runLocks = None

TakeShared(p, r) ==
    /\ exclusive[r] = None
    /\ shared' = [shared EXCEPT ![r] = @ \cup {p}]
    /\ UNCHANGED <<exclusive, runLocks>>

TakeExclusive(p, r) ==
    /\ exclusive[r] = None
    /\ shared[r] = {}
    /\ exclusive' = [exclusive EXCEPT ![r] = p]
    /\ UNCHANGED <<shared, runLocks>>

TryRunLocks(p) ==
    /\ runLocks = None
    /\ runLocks' = p
    /\ UNCHANGED <<shared, exclusive>>

\* A command that returns, fails or dies lets go of everything it held.
LetGo(P) ==
    /\ shared' = [r \in Roots |-> shared[r] \ P]
    /\ exclusive' = [r \in Roots |-> IF exclusive[r] \in P THEN None ELSE exclusive[r]]
    /\ runLocks' = IF runLocks \in P THEN None ELSE runLocks

=============================================================================
