-------------------------- MODULE MCPlanTransition --------------------------
(* Two rheis of one project: the first keeps a parent and its child in one *)
(* file beside the manifest, the second is one inline file with a ticket   *)
(* that depends on the child.                                              *)
EXTENDS PlanTransition, TLC

CONSTANTS parent, child, other, todo, work, parked, done

MCPlanFile == [t \in Ticket |-> IF t = other THEN "inline" ELSE "task"]
MCManifest == [t \in Ticket |-> IF t = other THEN "inline" ELSE "manifest"]
MCAncestors == [t \in Ticket |-> IF t = child THEN {parent} \cap Ticket ELSE {}]
MCPrior == [t \in Ticket |-> IF t = other THEN {child} ELSE {}]

MCRules == << <<todo, work>>, <<work, done>>, <<work, todo>>, <<todo, parked>>, <<parked, done>> >>
MCVisitLimit == [s \in State |-> IF s = work THEN 1 ELSE 0]

\* What an on_leave callback may ask for instead.
NoRedirects == [edge \in Edges |-> {}]
OutOfTheLoop == [NoRedirects EXCEPT ![<<work, todo>>] = {done}]
IntoTheLoop == [NoRedirects EXCEPT ![<<todo, parked>>] = {work}]

LeavingWork == { <<work, todo>> }
LeavingTodo == { <<todo, parked>> }
EnteringWork == { <<todo, work>> }

Workers == Permutations(Proc)

=============================================================================
