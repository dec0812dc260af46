-------------------------- MODULE MCSupervisedRun --------------------------
(* A lead over two tickets, the first of which guides one of its own.  The *)
(* guide hears its child finish and nothing else; the lead hears every     *)
(* move of its two, and the guide's child when there is no guide between.  *)
(* The second ticket waits for a brief, and works where the guide's child  *)
(* works, one at a time.                                                   *)
EXTENDS SupervisedRun, TLC

CONSTANTS lead, guide, step, ending

MCPlan == <<lead, guide, step, ending>>
MCAbove == (lead :> <<>>) @@ (guide :> <<lead>>) @@ (step :> <<guide, lead>>) @@ (ending :> <<lead>>)
MCPrior == [t \in Ticket |-> {}]
MCStart == (lead :> "leading") @@ (guide :> "guiding") @@ (step :> "working") @@ (ending :> "working")

MCRoutes ==
    [leading   |-> << <<"asking", "spent">>, <<"completed", "closed">>, <<"leading", "always">> >>,
     guiding   |-> << <<"completed", "closed">>, <<"guiding", "always">> >>,
     working   |-> << <<"completed", "always">> >>,
     asking    |-> <<>>,
     completed |-> <<>>,
     failed    |-> <<>>]

MCTimeoutTo == [s \in State |-> IF s = "working" THEN "failed" ELSE None]
MCByHand == {<<"working", "failed">>, <<"asking", "leading">>, <<"asking", "failed">>}
MCNeeds == {<<guide, "guiding">>, <<step, "working">>}

\* What the theorem on a supervisor and its subtree asks of a machine.
ASSUME EntryAssumption == EntryIsGuarded
=============================================================================
