--------------------------- MODULE MCSpawnRecords ---------------------------
(* One provider, and three plans: one ticket that a person may take to     *)
(* another state or back into its own, one ticket in a state of two arms   *)
(* that a person may finish, and two tickets that nobody disturbs.         *)
EXTENDS SpawnRecords, TLC

CONSTANTS t1, t2, a, b

MCPlan == <<t1, t2>>
Single == (t1 :> "one") @@ (t2 :> "done")
Fanout == (t1 :> "pair") @@ (t2 :> "done")
Both == (t1 :> "one") @@ (t2 :> "one")

MCStarts == {Single, Fanout, Both}
MCSingle == {Single}
MCAttempts == (Single :> {1, 2}) @@ (Fanout :> {1}) @@ (Both :> {1, 2})
MCTwoAttempts == [s \in Starts |-> {2}]
MCUpsets == (Single :> 2) @@ (Fanout :> 1) @@ (Both :> 0)
MCNoUpsets == [s \in Starts |-> 0]

MCArms == [pair |-> <<a, b>>, one |-> <<a>>, other |-> <<a>>, done |-> <<>>]
MCIdentity == [s \in State |-> "provider"]
MCBackoffs == [n \in 1..Free |-> 2^(n - 1)]
MCEdge == [s \in State |-> "done"]
MCByHand == {<<"pair", "done">>, <<"one", "other">>, <<"one", "one">>}
=============================================================================
