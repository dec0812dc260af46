------------------------ MODULE SupervisedRunProofs ------------------------
(***************************************************************************)
(* Theorems about `rhei run` over supervised subtrees, for any plan, any   *)
(* tree, any machine and any number of slots, runs and commands.           *)
(***************************************************************************)
EXTENDS SupervisedRun, SubsequencesProofs

-----------------------------------------------------------------------------
(* The plan: its tickets, its edges and the tree above a ticket.           *)

LEMMA TicketsAreFinite == IsFiniteSet(Ticket)
<1>1. Plan \in Seq(Ticket) /\ DOMAIN Plan = 1..Len(Plan) /\ Len(Plan) \in Nat
  BY SupervisedPlanAssumption
<1>2. Plan \in Surjection(DOMAIN Plan, Ticket)
  BY <1>1 DEF Surjection, Ticket, Range
<1>3. IsFiniteSet(DOMAIN Plan)
  BY <1>1, FS_Interval
<1> QED
  BY <1>2, <1>3, FS_Surjection

\* Any set of places has a first one.
LEMMA FirstPlace ==
    ASSUME NEW n \in Nat, NEW S \in SUBSET (1..n), S # {}
    PROVE  \E i \in S : \A j \in S : i <= j
<1>1. S \in SUBSET Nat
  OBVIOUS
<1>2. PICK i \in S : \A j \in S : <<j, i>> \notin OpToRel(<, Nat)
  BY <1>1, NatLessThanWellFounded, WFMin
<1>3. \A j \in S : ~(j < i)
  BY <1>1, <1>2 DEF OpToRel
<1>4. \A j \in S : i <= j
  BY <1>1, <1>3
<1> QED
  BY <1>4

LEMMA ForwardIsAnEdge ==
    ASSUME NEW t \in Ticket, state[t] \in State, Forward(t) # None
    PROVE  Forward(t) \in State /\ Edge(state[t], Forward(t))
<1> DEFINE routes == Routes[state[t]]
           applies == {route \in Range(routes) : Applies(t, route)}
           open == Kept(routes, applies)
<1>1. routes \in Seq(State \X Condition)
  BY SupervisingMachineAssumption
<1>2. open \in Seq((State \X Condition) \cap applies)
  <2> HIDE DEF applies, routes
  <2> QED
    BY <1>1, KeptType
<1>3. open # <<>> /\ Forward(t) = Head(open)[1]
  BY DEF Forward
<1>4. Head(open) \in (State \X Condition) \cap applies
  <2> HIDE DEF open, applies, routes
  <2> QED
    BY <1>2, <1>3
<1> HIDE DEF open
<1> QED
  BY <1>3, <1>4 DEF Edge

LEMMA OwnerIsAbove ==
    ASSUME NEW t \in Ticket, Owner(t) # None
    PROVE  Owner(t) \in Range(Above[t]) /\ Owner(t) \in Ticket /\ Supervises(Owner(t))
<1> DEFINE hears(i) == /\ Supervises(Above[t][i])
                       /\ state[Above[t][i]] \in ChildScope => i = 1
           all == {i \in DOMAIN Above[t] : hears(i)}
           first == CHOOSE i \in all : \A j \in all : i <= j
<1>1. Above[t] \in Seq(Ticket) /\ DOMAIN Above[t] = 1..Len(Above[t]) /\ Len(Above[t]) \in Nat
  BY SupervisedPlanAssumption
<1>2. all # {} /\ Owner(t) = Above[t][first]
  BY DEF Owner
<1>3. all \in SUBSET (1..Len(Above[t]))
  BY <1>1
<1>4. first \in all
  <2> HIDE DEF all
  <2> QED
    BY <1>1, <1>2, <1>3, FirstPlace
<1> HIDE DEF first
<1> QED
  BY <1>1, <1>2, <1>4 DEF Range

-----------------------------------------------------------------------------
(* Batches.                                                                *)

LEMMA ItemsAreListed ==
    ASSUME state \in [Ticket -> State], NEW S \in SUBSET Ticket
    PROVE  /\ Items(S) \in Seq(Item)
           /\ \A i \in 1..Len(Items(S)) :
                Items(S)[i].ticket \in S /\ Items(S)[i].in = state[Items(S)[i].ticket]
           /\ \A i, j \in 1..Len(Items(S)) : Items(S)[i].ticket = Items(S)[j].ticket => i = j
<1> DEFINE L == InOrder(S)
<1>1. L \in Seq(S)
  BY KeptType, SupervisedPlanAssumption DEF InOrder
<1>2. \A i, j \in 1..Len(Plan) : Plan[i] = Plan[j] => i = j
  BY SupervisedPlanAssumption DEF IsInjective
<1>3. ASSUME NEW i \in 1..Len(L), NEW j \in 1..Len(L), L[i] = L[j]
      PROVE  i = j
  BY <1>2, <1>3, KeptIsDistinct, SupervisedPlanAssumption DEF InOrder
<1>4. Items(S) = [i \in 1..Len(L) |-> [ticket |-> L[i], in |-> state[L[i]]]]
  BY <1>1 DEF Items
<1> HIDE DEF L
<1>5. \A i \in 1..Len(L) : L[i] \in S /\ L[i] \in Ticket /\ state[L[i]] \in State
  BY <1>1
<1>6. Items(S) \in Seq(Item) /\ Len(Items(S)) = Len(L)
  BY <1>1, <1>4, <1>5 DEF Item
<1> QED
  BY <1>3, <1>4, <1>5, <1>6

LEMMA BatchIsListed ==
    ASSUME state \in [Ticket -> State], NEW S \in SUBSET Ticket, NEW n \in Nat,
           NEW batch, batch = FirstOf(Items(S), n)
    PROVE  /\ batch \in Seq(Item) /\ Len(batch) \in Nat /\ Len(batch) <= n
           /\ \A i \in 1..Len(batch) :
                batch[i].ticket \in S /\ batch[i].in = state[batch[i].ticket]
           /\ \A i, j \in 1..Len(batch) : batch[i].ticket = batch[j].ticket => i = j
<1> DEFINE I == Items(S)
           k == IF Len(I) < n THEN Len(I) ELSE n
<1>1. /\ I \in Seq(Item) /\ Len(I) \in Nat
      /\ \A i \in 1..Len(I) : I[i].ticket \in S /\ I[i].in = state[I[i].ticket]
      /\ \A i, j \in 1..Len(I) : I[i].ticket = I[j].ticket => i = j
  BY ItemsAreListed
<1>2. batch = SubSeq(I, 1, k)
  BY DEF FirstOf
<1>3. k \in Nat /\ k <= n /\ k <= Len(I)
  BY <1>1
<1> HIDE DEF I, k
<1>4. batch \in Seq(Item) /\ Len(batch) = k /\ \A i \in 1..k : batch[i] = I[i]
  BY <1>1, <1>2, <1>3
<1>5. \A i \in 1..k : i \in 1..Len(I)
  BY <1>1, <1>3
<1>6. \A i \in 1..k : batch[i].ticket \in S /\ batch[i].in = state[batch[i].ticket]
  BY <1>1, <1>4, <1>5
<1>7. \A i, j \in 1..k : batch[i].ticket = batch[j].ticket => i = j
  BY <1>1, <1>4, <1>5
<1> QED
  BY <1>3, <1>4, <1>6, <1>7

-----------------------------------------------------------------------------
(* The inductive invariant.  First what a place in the loop says of the    *)
(* pool: while the run reads, or ends a pass, it has no worker; a batch is *)
(* waiting only where it is started; and a batch of one has no second.     *)

Pcs == {"off", "over", "top", "callbacks", "fill", "pool", "refill", "tail"}

PlanTyped ==
    /\ state \in [Ticket -> State] /\ entered \in [Ticket -> 0..Visits]
    /\ block \in [Ticket -> Block]
    /\ claimed \subseteq Ticket /\ briefs \subseteq Ticket /\ answered \subseteq Ticket
    /\ ledger \in Nat

BatchTyped ==
    /\ calls \in Seq(Item) /\ queue \in Seq(Item) /\ offered \subseteq Ticket
    /\ pc \in Pcs /\ solo \in BOOLEAN

StallsTyped == stalled \subseteq Ticket /\ DOMAIN heldAt \subseteq stalled

WorkersTyped ==
    /\ Active \subseteq Ticket
    /\ \A t \in Active : /\ workers[t].in \in State /\ workers[t].exit \in Exit
                         /\ DOMAIN workers[t] = {"in", "visit", "exit", "shape"}

PlacesStand ==
    /\ pc \in {"off", "over", "top", "callbacks", "tail"} => Active = {}
    /\ pc \notin {"callbacks", "fill"} => queue = <<>>
    /\ pc = "pool" => Active # {}
    /\ pc = "fill" => queue # <<>>
    /\ pc = "refill" => ~solo
    /\ solo /\ pc \in {"callbacks", "fill", "pool"} => Cardinality(Active) + Len(queue) <= 1

RunInv == PlanTyped /\ BatchTyped /\ StallsTyped /\ WorkersTyped /\ PlacesStand

LEMMA TypesFollow == RunInv => RunTypeOK
  BY DEF RunInv, PlanTyped, BatchTyped, StallsTyped, WorkersTyped, PlacesStand, RunTypeOK, Resting

LEMMA RunStarts == RunInit => RunInv
<1> SUFFICES ASSUME RunInit PROVE RunInv
  OBVIOUS
<1>1. PlanTyped
  <2>1. \A t \in Ticket : (IF Start[t] \in Supervising THEN 1 ELSE 0) \in 0..Visits
    BY SupervisingMachineAssumption
  <2>2. None \in Block
    BY DEF Block
  <2> QED
    BY <2>1, <2>2, SupervisedPlanAssumption DEF RunInit, SupervisionInit, PlanTyped
<1>2. BatchTyped /\ StallsTyped /\ WorkersTyped /\ PlacesStand
  <2>1. Active = {} /\ DOMAIN heldAt = {}
    BY DEF RunInit, Active
  <2>2. calls \in Seq(Item) /\ queue \in Seq(Item)
    BY DEF RunInit
  <2> QED
    BY <2>1, <2>2 DEF RunInit, BatchTyped, StallsTyped, WorkersTyped, PlacesStand, Pcs
<1> QED
  BY <1>1, <1>2 DEF RunInv

-----------------------------------------------------------------------------
(* What a step does to the plan.                                           *)

\* A move along an edge, whoever makes it.
MovesAlong(t, to, by) ==
    /\ Edge(state[t], to) /\ Move(t, to, by)
    /\ tried' = {} /\ empty' = {}

SameStands == UNCHANGED <<state, entered, block, ledger>>

LEMMA BlocksAreTyped ==
    ASSUME PlanTyped, NEW t \in Ticket, NEW to \in State, NEW by
    PROVE  NewBlocks(t, to, by) \in [Ticket -> Block]
<1>1. Held(<<>>) \in Block /\ Released \in Block /\ None \in Block
  BY DEF Held, Released, Block
<1>2. OwnBlock(t, to) \in Block
  BY <1>1 DEF OwnBlock, PlanTyped
<1> DEFINE own == [block EXCEPT ![t] = OwnBlock(t, to)]
           hears == Hears(t, to, by)
<1>3. own \in [Ticket -> Block]
  BY <1>2 DEF PlanTyped
<1>4. ASSUME hears # None
      PROVE  /\ hears \in Ticket
             /\ Held(Append(Checkpoints(hears), [ticket |-> t, to |-> to])) \in Block
  <2>1. hears = Owner(t) /\ Owner(t) # None
    BY <1>4 DEF Hears
  <2>2. hears \in Ticket
    BY <2>1, OwnerIsAbove
  <2>3. block[hears] \in Block
    BY <2>2 DEF PlanTyped
  <2>4. Checkpoints(hears) \in Seq(Checkpoint)
    BY <2>3 DEF Checkpoints, Block
  <2>5. [ticket |-> t, to |-> to] \in Checkpoint
    BY DEF Checkpoint
  <2>6. Append(Checkpoints(hears), [ticket |-> t, to |-> to]) \in Seq(Checkpoint)
    BY <2>4, <2>5, AppendProperties
  <2> QED
    BY <2>2, <2>6 DEF Held, Block
<1> HIDE DEF own, hears
<1> QED
  BY <1>3, <1>4 DEF NewBlocks, own, hears

LEMMA MovesKeepTypes ==
    ASSUME PlanTyped, NEW t \in Ticket, NEW to \in State, NEW by, Move(t, to, by)
    PROVE  PlanTyped'
<1>1. block' \in [Ticket -> Block]
  BY BlocksAreTyped DEF Move
<1>2. entered' \in [Ticket -> 0..Visits]
  <2>1. CASE to \in Supervising
    <3>1. entered[t] \in 0..Visits /\ entered[t] < Visits
      BY <2>1 DEF Move, MayEnter, PlanTyped
    <3>2. entered[t] + 1 \in 0..Visits
      BY <3>1, SupervisingMachineAssumption
    <3> QED
      BY <2>1, <3>2 DEF Move, PlanTyped
  <2>2. CASE to \notin Supervising
    BY <2>2 DEF Move, PlanTyped
  <2> QED
    BY <2>1, <2>2
<1>3. /\ state' \in [Ticket -> State] /\ claimed' \subseteq Ticket
      /\ briefs' \subseteq Ticket /\ answered' \subseteq Ticket /\ ledger' \in Nat
  BY DEF Move, PlanTyped
<1> QED
  BY <1>1, <1>2, <1>3 DEF PlanTyped

\* Every step leaves the tickets where they are, or moves one along an edge;
\* only a command claims.
LEMMA PlanSteps ==
    ASSUME RunInv, Next
    PROVE  \/ SameStands /\ UNCHANGED claimed /\ answered' \subseteq Ticket /\ briefs' \subseteq Ticket
           \/ \E t \in Ticket, to \in State, by \in Ticket \cup {None} : MovesAlong(t, to, by)
           \/ \E t \in Ticket : SameStands /\ (CommandClaim(t) \/ CommandRelease(t)) /\ UNCHANGED <<answered, briefs>>
<1> DEFINE G == \/ SameStands /\ UNCHANGED claimed /\ answered' \subseteq Ticket /\ briefs' \subseteq Ticket
                \/ \E t \in Ticket, to \in State, by \in Ticket \cup {None} : MovesAlong(t, to, by)
                \/ \E t \in Ticket : SameStands /\ (CommandClaim(t) \/ CommandRelease(t))
                                     /\ UNCHANGED <<answered, briefs>>
<1>0. /\ PlanTyped /\ calls \in Seq(Item)
      /\ answered \subseteq Ticket /\ briefs \subseteq Ticket /\ state \in [Ticket -> State]
  BY DEF RunInv, PlanTyped, BatchTyped
<1>1. CASE UNCHANGED plan
  BY <1>0, <1>1 DEF plan, SameStands
<1>2. CASE Begin \/ ReadPass \/ CallbacksDone \/ Fill \/ Refill \/ EndPass \/ Die
  BY <1>1, <1>2 DEF Begin, ReadPass, CallbacksDone, Fill, Refill, EndPass, Die
<1>3. CASE Callback
  <2> DEFINE t == Head(calls).ticket
  <2>1. t \in Ticket
    <3>1. calls # <<>>
      BY <1>3 DEF Callback
    <3>2. Head(calls) \in Item
      BY <1>0, <3>1
    <3> QED
      BY <3>2 DEF Item
  <2>2. CASE UNCHANGED plan
    BY <1>1, <2>2
  <2>3. CASE ~UNCHANGED plan
    <3>1. Takes(t, Head(calls).in) /\ Moves(t, Forward(t), None)
      BY <1>3, <2>3 DEF Callback
    <3>2. Forward(t) # None /\ state[t] \in State
      BY <1>0, <2>1, <3>1 DEF Takes
    <3>3. Forward(t) \in State /\ Edge(state[t], Forward(t))
      BY <2>1, <3>2, ForwardIsAnEdge
    <3>4. MovesAlong(t, Forward(t), None)
      BY <3>1, <3>3 DEF MovesAlong, Moves
    <3> HIDE DEF t
    <3> QED
      BY <2>1, <3>3, <3>4
  <2> QED
    BY <2>2, <2>3
<1>4. CASE \E t \in Ticket : Handle(t)
  <2> PICK t \in Ticket : Handle(t)
    BY <1>4
  <2>1. CASE UNCHANGED plan
    BY <1>1, <2>1
  <2>2. CASE ~UNCHANGED plan
    <3> DEFINE worker == workers[t]
               to == ExitEdge(t, worker)
    <3>1. /\ Moves(t, to, None) /\ to # None
          /\ t \in Active /\ ~(state[t] # worker.in /\ worker.exit # "panicked")
      BY <2>2 DEF Handle
    <3>2. state[t] \in State /\ worker.in \in State
      BY <1>0, <3>1 DEF RunInv, WorkersTyped
    <3>3. to \in State /\ Edge(state[t], to)
      <4>1. CASE worker.exit = "done"
        BY <3>1, <3>2, <4>1, ForwardIsAnEdge DEF ExitEdge
      <4>2. CASE worker.exit = "late"
        <5>1. to = TimeoutTo[worker.in] /\ state[t] = worker.in
          BY <3>1, <4>2 DEF ExitEdge
        <5> QED
          BY <3>1, <3>2, <5>1, RunAssumption DEF Edge
      <4>3. CASE worker.exit \notin {"done", "late"}
        BY <3>1, <4>3 DEF ExitEdge
      <4> QED
        BY <4>1, <4>2, <4>3
    <3>4. MovesAlong(t, to, None)
      BY <3>1, <3>3 DEF MovesAlong, Moves
    <3> HIDE DEF to
    <3> QED
      BY <3>3, <3>4
  <2> QED
    BY <2>1, <2>2
<1>5. CASE WorkerStep
  <2>1. SameStands /\ UNCHANGED claimed
    BY <1>5 DEF WorkerStep, Ends, WriteBrief, SameStands
  <2>2. answered' \subseteq Ticket /\ briefs' \subseteq Ticket
    BY <1>0, <1>5 DEF WorkerStep, Ends, WriteBrief, Below
  <2> QED
    BY <2>1, <2>2
<1>6. CASE CommandStep
  <2>1. ASSUME NEW t \in Ticket, NEW to \in State, NEW by \in Ticket \cup {None},
               CommandTransition(t, to, by)
        PROVE  G
    <3>1. Edge(state[t], to)
      BY <2>1 DEF CommandTransition, Transition, Edge
    <3> QED
      BY <2>1, <3>1 DEF CommandTransition, Transition, MovesAlong
  <2>2. ASSUME NEW t \in Ticket, CommandClaim(t)
        PROVE  G
    BY <2>2 DEF CommandClaim, Claim, SameStands
  <2>3. ASSUME NEW t \in Ticket, CommandRelease(t)
        PROVE  G
    BY <2>3 DEF CommandRelease, GiveBack, SameStands
  <2> QED
    BY <1>6, <2>1, <2>2, <2>3 DEF CommandStep
<1> QED
  BY <1>2, <1>3, <1>4, <1>5, <1>6 DEF Next, RunStep

LEMMA PlanKeepsTypes ==
    ASSUME RunInv, Next
    PROVE  PlanTyped'
<1>1. PlanTyped
  BY DEF RunInv
<1>2. ASSUME SameStands, claimed' \subseteq Ticket, answered' \subseteq Ticket, briefs' \subseteq Ticket
      PROVE  PlanTyped'
  BY <1>1, <1>2 DEF PlanTyped, SameStands
<1>3. CASE SameStands /\ UNCHANGED claimed /\ answered' \subseteq Ticket /\ briefs' \subseteq Ticket
  BY <1>1, <1>2, <1>3 DEF PlanTyped
<1>4. CASE \E t \in Ticket, to \in State, by \in Ticket \cup {None} : MovesAlong(t, to, by)
  BY <1>1, <1>4, MovesKeepTypes DEF MovesAlong
<1>5. CASE \E t \in Ticket : SameStands /\ (CommandClaim(t) \/ CommandRelease(t)) /\ UNCHANGED <<answered, briefs>>
  BY <1>1, <1>2, <1>5 DEF PlanTyped, CommandClaim, Claim, CommandRelease, GiveBack
<1> QED
  BY <1>3, <1>4, <1>5, PlanSteps

-----------------------------------------------------------------------------
(* What a step does to the run.                                            *)

LEMMA WithoutIs ==
    ASSUME NEW f, NEW t
    PROVE  /\ DOMAIN Without(f, t) = DOMAIN f \ {t}
           /\ \A u \in DOMAIN f \ {t} : Without(f, t)[u] = f[u]
  BY DEF Without

LEMMA ActiveIsFinite ==
    ASSUME RunInv
    PROVE  IsFiniteSet(Active) /\ Cardinality(Active) \in Nat
  BY TicketsAreFinite, FS_Subset, FS_CardinalityType DEF RunInv, WorkersTyped

\* The tickets that wait for their worker.
Queued == {queue[i].ticket : i \in DOMAIN queue}

\* A batch as a pass or a refill makes it, of tickets nobody works for the run.
NewBatch(S, n) ==
    /\ queue' \in Seq(Item) /\ Len(queue') \in Nat /\ Len(queue') <= n
    /\ \A i \in 1..Len(queue') :
         queue'[i].ticket \in S /\ queue'[i].in = state[queue'[i].ticket]
    /\ \A i, j \in 1..Len(queue') : queue'[i].ticket = queue'[j].ticket => i = j

PassAgents == (Runnable({}) \ stalled) \ answered

LEMMA ReadPassReads ==
    ASSUME RunInv, ReadPass, Runnable({}) # {}
    PROVE  /\ NewBatch(OnePerState(PassAgents, {}), Parallel)
           /\ calls' \in Seq(Item)
           /\ \A i \in 1..Len(calls') : calls'[i].ticket \in answered
           /\ pc' = "callbacks" /\ solo' = (Len(queue') = 1) /\ offered' \subseteq Ticket
<1> DEFINE mine == Runnable({}) \ stalled
           answers == mine \cap answered
           first == OnePerState(PassAgents, {})
<1>1. state \in [Ticket -> State]
  BY DEF RunInv, PlanTyped
<1>2. mine \in SUBSET Ticket /\ answers \in SUBSET Ticket /\ first \in SUBSET Ticket
  BY DEF Runnable, OnePerState, PassAgents
<1>3. /\ pc' = "callbacks" /\ calls' = Items(answers) /\ offered' = PassAgents
      /\ queue' = FirstOf(Items(first), Parallel) /\ solo' = (Len(queue') = 1)
  BY DEF ReadPass, PassAgents
<1>4. offered' \subseteq Ticket
  BY <1>2, <1>3 DEF PassAgents
<1>5. Parallel \in Nat
  BY RunAssumption
<1> HIDE DEF mine, first
<1>6. NewBatch(first, Parallel)
  BY <1>1, <1>2, <1>3, <1>5, BatchIsListed DEF NewBatch
<1>7. calls' \in Seq(Item) /\ \A i \in 1..Len(calls') : calls'[i].ticket \in answered
  BY <1>1, <1>2, <1>3, ItemsAreListed
<1> QED
  BY <1>3, <1>4, <1>6, <1>7 DEF first

LEMMA RefillReads ==
    ASSUME RunInv, Refill, FreeSlots \in Nat
    PROVE  /\ NewBatch(OnePerState(Startable \ answered, BusyStates) \ stalled, FreeSlots)
           /\ pc' = IF queue' = <<>> THEN AfterBatch(Active) ELSE "fill"
<1> DEFINE fresh == OnePerState(Startable \ answered, BusyStates) \ stalled
<1>1. state \in [Ticket -> State]
  BY DEF RunInv, PlanTyped
<1>2. fresh \in SUBSET Ticket
  BY DEF Startable, Runnable, OnePerState
<1>3. queue' = FirstOf(Items(fresh), FreeSlots)
  BY DEF Refill
<1>4. pc' = IF queue' = <<>> THEN AfterBatch(Active) ELSE "fill"
  BY DEF Refill
<1> HIDE DEF fresh
<1>5. NewBatch(fresh, FreeSlots)
  BY <1>1, <1>2, <1>3, BatchIsListed DEF NewBatch
<1> QED
  BY <1>4, <1>5 DEF fresh

\* The next item leaves the queue, and its worker may begin.
LEMMA FillIs ==
    ASSUME RunInv, Fill
    PROVE  /\ queue # <<>> /\ Head(queue) \in Item /\ Head(queue) = queue[1]
           /\ queue' \in Seq(Item) /\ queue' = Tail(queue) /\ Len(queue') = Len(queue) - 1
           /\ \A i \in 1..Len(queue') : queue'[i] = queue[i + 1]
           /\ pc' = IF queue' = <<>> THEN AfterBatch(Active') ELSE "fill"
           /\ \/ UNCHANGED workers
              \/ /\ Active' = Active \cup {Head(queue).ticket}
                 /\ workers'[Head(queue).ticket] = WorkerFor(Head(queue).ticket, Head(queue).in)
                 /\ \A u \in Active \ {Head(queue).ticket} : workers'[u] = workers[u]
<1>1. queue \in Seq(Item) /\ queue # <<>>
  BY DEF RunInv, BatchTyped, PlacesStand, Fill
<1>2. queue' = Tail(queue)
  BY DEF Fill
<1>3. /\ Head(queue) \in Item /\ Head(queue) = queue[1]
      /\ queue' \in Seq(Item) /\ Len(queue') = Len(queue) - 1
      /\ \A i \in 1..Len(queue') : queue'[i] = queue[i + 1]
  BY <1>1, <1>2
<1>4. \/ UNCHANGED workers
      \/ workers' = With(workers, Head(queue).ticket, WorkerFor(Head(queue).ticket, Head(queue).in))
  BY DEF Fill
<1>5. pc' = IF queue' = <<>> THEN AfterBatch(Active') ELSE "fill"
  BY DEF Fill, Active
<1> DEFINE first == Head(queue).ticket
<1>6. ASSUME workers' = With(workers, first, WorkerFor(first, Head(queue).in))
      PROVE  /\ Active' = Active \cup {first}
             /\ workers'[first] = WorkerFor(first, Head(queue).in)
             /\ \A u \in Active \ {first} : workers'[u] = workers[u]
  <2> DEFINE worker == WorkerFor(first, Head(queue).in)
  <2>1. workers' = With(workers, first, worker)
    BY <1>6
  <2> HIDE DEF first, worker
  <2>2. /\ DOMAIN workers' = DOMAIN workers \cup {first} /\ workers'[first] = worker
        /\ \A u \in DOMAIN workers \ {first} : workers'[u] = workers[u]
    BY <2>1 DEF With
  <2> QED
    BY <2>2 DEF Active, worker
<1> QED
  BY <1>1, <1>2, <1>3, <1>4, <1>5, <1>6

LEMMA HandleIs ==
    ASSUME RunInv, NEW t \in Ticket, Handle(t)
    PROVE  /\ t \in Active /\ Active' = Active \ {t}
           /\ \A u \in Active' : workers'[u] = workers[u]
           /\ UNCHANGED pass
           /\ pc = "pool"
           /\ \/ solo /\ pc' = "tail"
              \/ ~solo /\ pc' = AfterBatch(Active')
              \/ ~solo /\ pc' = "refill"
<1>1. t \in Active /\ workers' = Without(workers, t) /\ pc = "pool" /\ UNCHANGED pass
  BY DEF Handle
<1>2. Active' = Active \ {t} /\ \A u \in Active' : workers'[u] = workers[u]
  BY <1>1, WithoutIs DEF Active
<1>3. pc' \in {"tail", "refill", AfterBatch(Active \ {t})} /\ (solo => pc' = "tail")
  BY DEF Handle
<1>4. ~solo => pc' \in {"refill", AfterBatch(Active \ {t})}
  BY DEF Handle
<1> QED
  BY <1>1, <1>2, <1>3, <1>4 DEF RunInv, BatchTyped

\* How stalls change: all go at the begin of a run, those that something can
\* be said to later at the end of a pass, and one may come.
LEMMA StallSteps ==
    ASSUME RunInv, Next
    PROVE  \/ UNCHANGED stalls /\ (empty' = {} \/ UNCHANGED <<empty, ledger>>)
           \/ stalled' = {} /\ heldAt' = <<>> /\ empty' = {}
           \/ LetStallsGo /\ UNCHANGED ledger
           \/ \E t \in Ticket : stalled' = stalled \cup {t} /\ UNCHANGED <<heldAt, empty, ledger>>
           \/ \E t \in Ticket : HoldEmptyVisit(t) /\ UNCHANGED ledger /\ (pc = "callbacks" \/ pc = "pool")
                                /\ (pc = "callbacks" => calls # <<>> /\ t = Head(calls).ticket)
<1> DEFINE G == \/ UNCHANGED stalls /\ (empty' = {} \/ UNCHANGED <<empty, ledger>>)
                \/ stalled' = {} /\ heldAt' = <<>> /\ empty' = {}
                \/ LetStallsGo /\ UNCHANGED ledger
                \/ \E t \in Ticket : stalled' = stalled \cup {t} /\ UNCHANGED <<heldAt, empty, ledger>>
                \/ \E t \in Ticket : HoldEmptyVisit(t) /\ UNCHANGED ledger /\ (pc = "callbacks" \/ pc = "pool")
                                     /\ (pc = "callbacks" => calls # <<>> /\ t = Head(calls).ticket)
<1>1. CASE Begin \/ ReadPass \/ CallbacksDone \/ Refill \/ Die \/ WorkerStep \/ CommandStep
  BY <1>1 DEF Begin, ReadPass, CallbacksDone, Refill, Die, WorkerStep, CommandStep, Ends, WriteBrief,
              CommandTransition, CommandClaim, CommandRelease, Given, Claim, GiveBack, KeepStalls, stalls,
              since, plan
<1>2. CASE EndPass
  BY <1>2 DEF EndPass, KeepStalls, LetStallsGo, stalls, since, plan
<1>3. CASE Fill
  <2>1. Head(queue).ticket \in Ticket
    BY <1>3, FillIs DEF Item
  <2>2. KeepStalls \/ Stall(Head(queue).ticket)
    BY <1>3 DEF Fill
  <2>3. UNCHANGED ledger
    BY <1>3 DEF Fill, plan
  <2> QED
    BY <2>1, <2>2, <2>3 DEF KeepStalls, Stall, stalls, since
<1>4. CASE Callback
  <2>1. calls # <<>> /\ calls \in Seq(Item)
    BY <1>4 DEF Callback, RunInv, BatchTyped
  <2>2. Head(calls) \in Item
    BY <2>1
  <2>3. Head(calls).ticket \in Ticket
    BY <2>2 DEF Item
  <2>4. \/ UNCHANGED stalls /\ (empty' = {} \/ UNCHANGED <<empty, ledger>>)
        \/ HoldEmptyVisit(Head(calls).ticket) /\ UNCHANGED ledger /\ pc = "callbacks"
    BY <1>4 DEF Callback, KeepStalls, Moves, stalls, since, plan
  <2> QED
    BY <2>1, <2>3, <2>4
<1>5. ASSUME NEW t \in Ticket, Handle(t)
      PROVE  G
  <2>1. \/ UNCHANGED stalls /\ (empty' = {} \/ UNCHANGED <<empty, ledger>>)
        \/ (HoldEmptyVisit(t) \/ Stall(t)) /\ UNCHANGED ledger /\ pc = "pool"
    BY <1>5 DEF Handle, KeepStalls, Moves, stalls, since, plan
  <2>2. Stall(t) => stalled' = stalled \cup {t} /\ UNCHANGED <<heldAt, empty>>
    BY DEF Stall
  <2> QED
    BY <2>1, <2>2
<1> QED
  BY <1>1, <1>2, <1>3, <1>4, <1>5 DEF Next, RunStep

LEMMA StallsKeepTypes ==
    ASSUME RunInv, Next
    PROVE  StallsTyped'
<1>1. stalled \subseteq Ticket /\ DOMAIN heldAt \subseteq stalled
  BY DEF RunInv, StallsTyped
<1>2. CASE UNCHANGED stalls
  BY <1>1, <1>2 DEF StallsTyped, stalls
<1>3. CASE stalled' = {} /\ heldAt' = <<>>
  <2>1. DOMAIN heldAt' = {}
    BY <1>3
  <2> QED
    BY <1>3, <2>1 DEF StallsTyped
<1>4. CASE LetStallsGo
  <2>1. DOMAIN heldAt' = StillHeld /\ stalled' = StillHeld
    BY <1>4 DEF LetStallsGo
  <2> QED
    BY <1>1, <2>1 DEF StallsTyped, StillHeld
<1>5. CASE \E t \in Ticket : stalled' = stalled \cup {t} /\ UNCHANGED <<heldAt, empty>>
  BY <1>1, <1>5 DEF StallsTyped
<1>6. CASE \E t \in Ticket : HoldEmptyVisit(t)
  BY <1>1, <1>6 DEF StallsTyped, HoldEmptyVisit, Mark, With
<1> QED
  BY <1>2, <1>3, <1>4, <1>5, <1>6, StallSteps

-----------------------------------------------------------------------------
(* The pool: never more tickets than slots, nobody twice, and one in a     *)
(* state that takes one, those that wait for their worker included.        *)

Distinct ==
    /\ \A i \in DOMAIN queue : queue[i].ticket \notin Active
    /\ \A i, j \in DOMAIN queue : queue[i].ticket = queue[j].ticket => i = j

StatesApart ==
    /\ \A t, u \in Active : t # u /\ workers[t].in = workers[u].in => workers[t].in \in Concurrent
    /\ \A i \in DOMAIN queue, u \in Active : queue[i].in = workers[u].in => queue[i].in \in Concurrent
    /\ \A i, j \in DOMAIN queue : i # j /\ queue[i].in = queue[j].in => queue[i].in \in Concurrent

SlotsStand == Cardinality(Active) + Len(queue) <= Parallel /\ Distinct /\ StatesApart

PoolInv == RunInv /\ SlotsStand

LEMMA PoolStarts == RunInit => PoolInv
<1> SUFFICES ASSUME RunInit PROVE SlotsStand
  BY RunStarts DEF PoolInv
<1>1. Active = {} /\ queue = <<>>
  BY DEF RunInit, Active
<1>2. Cardinality(Active) + Len(queue) <= Parallel
  BY <1>1, FS_EmptySet, RunAssumption
<1> QED
  BY <1>1, <1>2 DEF SlotsStand, Distinct, StatesApart

\* Steps that start and end no worker.
SamePool ==
    /\ UNCHANGED <<queue, solo, Active>>
    /\ \A u \in Active : workers'[u].in = workers[u].in

LEMMA SamePoolKeeps ==
    ASSUME PoolInv, SamePool
    PROVE  SlotsStand'
  BY DEF PoolInv, SlotsStand, Distinct, StatesApart, SamePool

\* A batch that was just made.
LEMMA NewBatchFits ==
    ASSUME PoolInv, NEW S \in SUBSET Ticket, NEW busy, NEW n \in Nat,
           S \cap Active = {}, {workers[u].in : u \in Active} \ Concurrent \subseteq busy,
           Cardinality(Active) + n <= Parallel,
           NEW T \in SUBSET OnePerState(S, busy), NewBatch(T, n), UNCHANGED workers
    PROVE  SlotsStand'
<1>1. /\ queue' \in Seq(Item) /\ Len(queue') \in Nat /\ Len(queue') <= n
      /\ DOMAIN queue' = 1..Len(queue')
      /\ \A i \in 1..Len(queue') :
           queue'[i].ticket \in T /\ queue'[i].in = state[queue'[i].ticket]
      /\ \A i, j \in 1..Len(queue') : queue'[i].ticket = queue'[j].ticket => i = j
  BY DEF NewBatch
<1>2. \A t \in T : /\ t \in S /\ t \in Ticket /\ t \notin Active
                   /\ state[t] \in Concurrent
                      \/ (state[t] \notin busy
                          /\ \A u \in S : state[u] = state[t] => Place(t) <= Place(u))
  BY DEF OnePerState
<1>3. Active' = Active /\ Cardinality(Active) \in Nat
  BY ActiveIsFinite DEF Active, PoolInv
<1>4. (Cardinality(Active) + Len(queue) <= Parallel)'
  BY <1>1, <1>3, RunAssumption
<1>5. Distinct'
  BY <1>1, <1>2, <1>3 DEF Distinct
<1>6. ASSUME NEW i \in 1..Len(queue'), NEW u \in Active, queue'[i].in = workers[u].in
      PROVE  queue'[i].in \in Concurrent
  BY <1>1, <1>2, <1>6
<1>7. ASSUME NEW t \in T, NEW u \in T, t # u, state[t] = state[u]
      PROVE  state[t] \in Concurrent
  <2> SUFFICES ASSUME state[t] \notin Concurrent PROVE FALSE
    OBVIOUS
  <2>1. Place(t) <= Place(u) /\ Place(u) <= Place(t)
    BY <1>2, <1>7
  <2>2. ASSUME NEW v \in Ticket
        PROVE  Place(v) \in DOMAIN Plan /\ Plan[Place(v)] = v
    <3>1. \E i \in DOMAIN Plan : Plan[i] = v
      BY DEF Ticket, Range
    <3> QED
      BY <3>1 DEF Place
  <2>3. Place(t) \in Nat /\ Place(u) \in Nat
    BY <1>2, <2>2, SupervisedPlanAssumption
  <2>4. Place(t) = Place(u)
    BY <2>1, <2>3
  <2> QED
    BY <1>2, <1>7, <2>2, <2>4
<1>8. ASSUME NEW i \in 1..Len(queue'), NEW j \in 1..Len(queue'), i # j, queue'[i].in = queue'[j].in
      PROVE  queue'[i].in \in Concurrent
  BY <1>1, <1>7, <1>8
<1>9. StatesApart'
  <2>1. \A t, u \in Active' : t # u /\ workers'[t].in = workers'[u].in => workers'[t].in \in Concurrent
    BY <1>3 DEF PoolInv, SlotsStand, StatesApart
  <2> QED
    BY <1>1, <1>3, <1>6, <1>8, <2>1 DEF StatesApart
<1> QED
  BY <1>4, <1>5, <1>9 DEF SlotsStand

LEMMA EmptyPoolFits ==
    ASSUME Active' = {}, queue' = <<>>
    PROVE  SlotsStand'
<1>1. (Cardinality(Active) + Len(queue) <= Parallel)'
  BY FS_EmptySet, RunAssumption
<1> QED
  BY <1>1 DEF SlotsStand, Distinct, StatesApart

LEMMA AfterBatchIs ==
    AfterBatch(Active) = IF Active = {} THEN "tail" ELSE "pool"
  BY DEF AfterBatch

LEMMA ReadPassKeeps ==
    ASSUME PoolInv, ReadPass
    PROVE  SlotsStand' /\ BatchTyped' /\ PlacesStand'
<1>1. pc = "top" /\ Active = {} /\ queue = <<>> /\ UNCHANGED workers /\ Active' = {}
  BY DEF ReadPass, PoolInv, RunInv, PlacesStand, Active
<1>2. CASE Runnable({}) = {}
  <2>1. pc' = "over" /\ UNCHANGED pass
    BY <1>2 DEF ReadPass
  <2> QED
    BY <1>1, <2>1, EmptyPoolFits DEF PoolInv, RunInv, BatchTyped, PlacesStand, Pcs, pass
<1>3. CASE Runnable({}) # {}
  <2>1. /\ NewBatch(OnePerState(PassAgents, {}), Parallel)
        /\ calls' \in Seq(Item) /\ pc' = "callbacks" /\ solo' = (Len(queue') = 1)
        /\ offered' \subseteq Ticket
    BY <1>3, ReadPassReads DEF PoolInv
  <2>2. /\ PassAgents \in SUBSET Ticket /\ PassAgents \cap Active = {} /\ Parallel \in Nat
        /\ {workers[u].in : u \in Active} \ Concurrent \subseteq {}
        /\ Cardinality(Active) + Parallel <= Parallel
    BY <1>1, FS_EmptySet, RunAssumption DEF PassAgents, Runnable
  <2>3. SlotsStand'
    BY <1>1, <2>1, <2>2, NewBatchFits
  <2>4. Cardinality(Active') = 0 /\ queue' \in Seq(Item)
    BY <1>1, <2>1, FS_EmptySet DEF NewBatch
  <2>5. BatchTyped'
    BY <2>1, <2>4 DEF BatchTyped, Pcs
  <2>6. ASSUME solo'
        PROVE  Cardinality(Active') + Len(queue') <= 1
    <3>1. Len(queue') = 1
      BY <2>1, <2>6
    <3> QED
      BY <2>4, <3>1
  <2>7. PlacesStand'
    BY <1>1, <2>1, <2>6 DEF PlacesStand
  <2> QED
    BY <2>3, <2>5, <2>7
<1> QED
  BY <1>2, <1>3

LEMMA RefillKeeps ==
    ASSUME PoolInv, Refill
    PROVE  SlotsStand' /\ BatchTyped' /\ PlacesStand'
<1> DEFINE first == OnePerState(Startable \ answered, BusyStates)
<1>1. /\ pc = "refill" /\ ~solo /\ queue = <<>> /\ UNCHANGED workers /\ Active' = Active
      /\ UNCHANGED <<calls, solo, offered>>
  BY DEF Refill, PoolInv, RunInv, PlacesStand, Active
<1>2. /\ Cardinality(Active) \in Nat /\ Cardinality(Active) <= Parallel
      /\ FreeSlots \in Nat /\ Cardinality(Active) + FreeSlots <= Parallel
  BY <1>1, ActiveIsFinite, RunAssumption DEF PoolInv, SlotsStand, FreeSlots
<1>3. /\ NewBatch(first \ stalled, FreeSlots)
      /\ pc' = IF queue' = <<>> THEN AfterBatch(Active) ELSE "fill"
  BY <1>2, RefillReads DEF PoolInv
<1>4. /\ Startable \ answered \in SUBSET Ticket /\ (Startable \ answered) \cap Active = {}
      /\ {workers[u].in : u \in Active} \ Concurrent \subseteq BusyStates
      /\ first \ stalled \in SUBSET first
  BY DEF Startable, Runnable, BusyStates
<1> HIDE DEF first
<1>5. SlotsStand'
  BY <1>1, <1>2, <1>3, <1>4, NewBatchFits DEF first
<1>6. queue' \in Seq(Item) /\ pc' \in {"tail", "pool", "fill"}
  BY <1>3 DEF NewBatch, AfterBatch
<1>7. BatchTyped'
  BY <1>1, <1>6 DEF PoolInv, RunInv, BatchTyped, Pcs
<1>8. PlacesStand'
  BY <1>1, <1>3 DEF PlacesStand, AfterBatch
<1> QED
  BY <1>5, <1>7, <1>8

LEMMA FillKeeps ==
    ASSUME PoolInv, Fill
    PROVE  SlotsStand' /\ BatchTyped' /\ PlacesStand' /\ WorkersTyped'
<1> DEFINE item == Head(queue)
           n == Len(queue)
<1>1. /\ queue # <<>> /\ item \in Item /\ item = queue[1]
      /\ queue' \in Seq(Item) /\ Len(queue') = n - 1
      /\ \A i \in 1..Len(queue') : queue'[i] = queue[i + 1]
      /\ pc' = IF queue' = <<>> THEN AfterBatch(Active') ELSE "fill"
      /\ pc = "fill" /\ UNCHANGED <<calls, solo, offered>>
  BY FillIs DEF PoolInv, Fill
<1>2. queue \in Seq(Item) /\ n \in Nat /\ n > 0 /\ DOMAIN queue = 1..n /\ DOMAIN queue' = 1..n - 1
  BY <1>1 DEF PoolInv, RunInv, BatchTyped
<1>3. item.ticket \in Ticket /\ item.in \in State /\ item.ticket \notin Active
  BY <1>1, <1>2 DEF Item, PoolInv, SlotsStand, Distinct
<1>4. IsFiniteSet(Active) /\ Cardinality(Active) \in Nat
  BY ActiveIsFinite DEF PoolInv
<1>5. \/ UNCHANGED workers /\ Active' = Active
      \/ /\ Active' = Active \cup {item.ticket}
         /\ workers'[item.ticket] = WorkerFor(item.ticket, item.in)
         /\ \A u \in Active \ {item.ticket} : workers'[u] = workers[u]
  BY FillIs DEF Active, PoolInv
<1>6. Cardinality(Active') \in Nat /\ Cardinality(Active') <= Cardinality(Active) + 1
  <2> HIDE DEF item
  <2>1. CASE Active' = Active
    BY <1>4, <2>1
  <2>2. CASE Active' = Active \cup {item.ticket}
    <3>1. Cardinality(Active \cup {item.ticket}) = Cardinality(Active) + 1
      BY <1>3, <1>4, FS_AddElement
    <3> QED
      BY <1>4, <2>2, <3>1
  <2> QED
    BY <1>5, <2>1, <2>2
<1>7. Cardinality(Active') + Len(queue') <= Cardinality(Active) + n
  BY <1>1, <1>2, <1>4, <1>6
<1>8. \A i \in 1..n - 1 : i + 1 \in 1..n /\ i + 1 # 1
  BY <1>2
<1> HIDE DEF item
<1>9. Distinct'
  <2>1. \A i \in 1..n - 1 : queue'[i].ticket \notin Active'
    BY <1>1, <1>2, <1>5, <1>8 DEF PoolInv, SlotsStand, Distinct
  <2>2. \A i, j \in 1..n - 1 : queue'[i].ticket = queue'[j].ticket => i = j
    BY <1>1, <1>2, <1>8 DEF PoolInv, SlotsStand, Distinct
  <2> QED
    BY <1>2, <2>1, <2>2 DEF Distinct
<1>10. \A u \in Active' : \/ u \in Active /\ workers'[u].in = workers[u].in
                          \/ u = item.ticket /\ u \notin Active /\ workers'[u].in = item.in
  BY <1>3, <1>5 DEF WorkerFor
<1>11. StatesApart'
  <2> USE DEF PoolInv, SlotsStand, StatesApart
  <2>1. \A t, u \in Active' : t # u /\ workers'[t].in = workers'[u].in => workers'[t].in \in Concurrent
    BY <1>1, <1>2, <1>10
  <2>2. \A i \in 1..n - 1, u \in Active' : queue'[i].in = workers'[u].in => queue'[i].in \in Concurrent
    BY <1>1, <1>2, <1>8, <1>10
  <2>3. \A i, j \in 1..n - 1 : i # j /\ queue'[i].in = queue'[j].in => queue'[i].in \in Concurrent
    <3> TAKE i, j \in 1..n - 1
    <3>1. queue'[i] = queue[i + 1] /\ queue'[j] = queue[j + 1] /\ (i # j => i + 1 # j + 1)
      BY <1>1, <1>2
    <3> QED
      BY <1>2, <1>8, <3>1
  <2> QED
    BY <1>2, <2>1, <2>2, <2>3
<1>12. (Cardinality(Active) + Len(queue) <= Parallel)'
  BY <1>1, <1>2, <1>4, <1>6, <1>7, RunAssumption DEF PoolInv, SlotsStand
<1>13. WorkersTyped'
  <2>1. /\ WorkerFor(item.ticket, item.in).in = item.in
        /\ WorkerFor(item.ticket, item.in).exit = "running"
        /\ DOMAIN WorkerFor(item.ticket, item.in) = {"in", "visit", "exit", "shape"}
    BY DEF WorkerFor
  <2>2. \A u \in Active' : /\ u \in Ticket /\ workers'[u].in \in State /\ workers'[u].exit \in Exit
                            /\ DOMAIN workers'[u] = {"in", "visit", "exit", "shape"}
    BY <1>3, <1>5, <2>1 DEF Exit, PoolInv, RunInv, WorkersTyped
  <2> QED
    BY <2>2 DEF WorkersTyped
<1>14. pc' \in {"tail", "pool", "fill"} /\ BatchTyped'
  BY <1>1 DEF AfterBatch, PoolInv, RunInv, BatchTyped, Pcs
<1>15. PlacesStand'
  <2>1. (solo /\ pc \in {"callbacks", "fill", "pool"} => Cardinality(Active) + Len(queue) <= 1)'
    BY <1>1, <1>2, <1>4, <1>6, <1>7 DEF PoolInv, RunInv, PlacesStand
  <2>2. pc' # "refill" /\ (pc' = "fill" => queue' # <<>>) /\ (pc' # "fill" => queue' = <<>>)
    BY <1>1 DEF AfterBatch
  <2>3. (pc' = "tail" => Active' = {}) /\ (pc' = "pool" => Active' # {})
    BY <1>1 DEF AfterBatch
  <2> QED
    BY <1>14, <2>1, <2>2, <2>3 DEF PlacesStand
<1> QED
  BY <1>9, <1>11, <1>12, <1>13, <1>14, <1>15 DEF SlotsStand

LEMMA HandleKeeps ==
    ASSUME PoolInv, NEW t \in Ticket, Handle(t)
    PROVE  SlotsStand' /\ BatchTyped' /\ PlacesStand' /\ WorkersTyped'
<1>1. /\ t \in Active /\ Active' = Active \ {t}
      /\ \A u \in Active' : workers'[u] = workers[u]
      /\ UNCHANGED <<calls, queue, solo, offered>>
      /\ pc = "pool"
      /\ \/ solo /\ pc' = "tail"
         \/ ~solo /\ pc' = AfterBatch(Active')
         \/ ~solo /\ pc' = "refill"
  BY HandleIs DEF PoolInv, pass
<1>2. queue = <<>> /\ Len(queue) = 0
  BY <1>1 DEF PoolInv, RunInv, PlacesStand
<1>3. IsFiniteSet(Active) /\ Cardinality(Active) \in Nat
  BY ActiveIsFinite DEF PoolInv
<1>4. Cardinality(Active') = Cardinality(Active) - 1 /\ IsFiniteSet(Active')
  BY <1>1, <1>3, FS_RemoveElement
<1>5. SlotsStand'
  <2>1. (Cardinality(Active) + Len(queue) <= Parallel)'
    BY <1>1, <1>2, <1>3, <1>4, RunAssumption DEF PoolInv, SlotsStand
  <2>2. Distinct' /\ StatesApart'
    BY <1>1, <1>2 DEF PoolInv, SlotsStand, Distinct, StatesApart
  <2> QED
    BY <2>1, <2>2 DEF SlotsStand
<1>6. solo => Active' = {}
  <2> SUFFICES ASSUME solo PROVE Active' = {}
    OBVIOUS
  <2>1. Cardinality(Active) <= 1 /\ Cardinality(Active) # 0
    BY <1>1, <1>2, <1>3, FS_EmptySet DEF PoolInv, RunInv, PlacesStand
  <2> QED
    BY <1>3, <1>4, <2>1, FS_EmptySet
<1>7. WorkersTyped'
  BY <1>1 DEF PoolInv, RunInv, WorkersTyped
<1>8. BatchTyped'
  BY <1>1 DEF PoolInv, RunInv, BatchTyped, AfterBatch, Pcs
<1>9. PlacesStand'
  <2>1. CASE pc' = "refill" /\ ~solo
    BY <1>1, <1>2, <2>1 DEF PlacesStand
  <2>2. CASE pc' = "tail" /\ Active' = {}
    BY <1>1, <1>2, <2>2 DEF PlacesStand
  <2>3. CASE pc' = "pool" /\ ~solo /\ Active' # {}
    BY <1>1, <1>2, <2>3 DEF PlacesStand
  <2> QED
    BY <1>1, <1>6, <2>1, <2>2, <2>3 DEF AfterBatch
<1> QED
  BY <1>5, <1>7, <1>8, <1>9

LEMMA DieKeeps ==
    ASSUME PoolInv, Die
    PROVE  SlotsStand' /\ BatchTyped' /\ PlacesStand' /\ WorkersTyped'
<1>1. Active' = {} /\ queue' = <<>> /\ calls' = <<>> /\ offered' = {} /\ pc' = "off" /\ UNCHANGED solo
  BY DEF Die, Active
<1>2. calls' \in Seq(Item) /\ queue' \in Seq(Item)
  BY <1>1
<1> QED
  BY <1>1, <1>2, EmptyPoolFits
  DEF PoolInv, RunInv, BatchTyped, PlacesStand, WorkersTyped, Pcs

\* The steps between them leave the pool to itself.
LEMMA OthersKeep ==
    ASSUME PoolInv, Begin \/ Callback \/ CallbacksDone \/ EndPass \/ WorkerStep \/ CommandStep
    PROVE  SamePool /\ BatchTyped' /\ PlacesStand' /\ WorkersTyped'
<1>0. BatchTyped /\ PlacesStand /\ WorkersTyped
  BY DEF PoolInv, RunInv
<1>1. CASE Begin \/ CallbacksDone \/ EndPass
  <2>1. UNCHANGED <<pass, workers>>
    BY <1>1 DEF Begin, CallbacksDone, EndPass
  <2>2. /\ pc \in Pcs \ {"fill", "pool", "refill"}
        /\ \/ pc' \in {"top", "over", "tail"} /\ queue = <<>>
           \/ pc' = "fill" /\ queue # <<>> /\ pc = "callbacks"
    BY <1>0, <1>1 DEF Begin, CallbacksDone, EndPass, Resting, PlacesStand, Pcs
  <2>3. SamePool
    BY <2>1 DEF SamePool, pass, Active
  <2>4. BatchTyped' /\ WorkersTyped'
    BY <1>0, <2>1, <2>2 DEF BatchTyped, WorkersTyped, Active, pass, Pcs
  <2>5. Active = {} /\ Active' = Active /\ UNCHANGED <<queue, solo>>
    BY <1>0, <2>1, <2>2 DEF PlacesStand, Active, pass, Pcs
  <2>6. PlacesStand'
    BY <1>0, <2>2, <2>5 DEF PlacesStand
  <2> QED
    BY <2>3, <2>4, <2>6
<1>2. CASE Callback
  <2>1. pc = "callbacks" /\ UNCHANGED <<pc, queue, solo, offered, workers>> /\ Active' = Active
    BY <1>2 DEF Callback, Active
  <2>2. calls' \in Seq(Item)
    <3>1. calls \in Seq(Item) /\ calls # <<>> /\ calls' = Tail(calls)
      BY <1>0, <1>2 DEF Callback, BatchTyped
    <3> QED
      BY <3>1
  <2>3. SamePool
    BY <2>1 DEF SamePool
  <2>4. BatchTyped' /\ WorkersTyped' /\ PlacesStand'
    BY <1>0, <2>1, <2>2 DEF BatchTyped, WorkersTyped, PlacesStand, Pcs
  <2> QED
    BY <2>3, <2>4
<1>3. CASE CommandStep \/ \E p \in Ticket, t \in Ticket : WriteBrief(p, t)
  <2>1. UNCHANGED <<pc, pass, workers>>
    BY <1>3 DEF CommandStep, CommandTransition, CommandClaim, CommandRelease, Given, WriteBrief
  <2>2. UNCHANGED <<pc, calls, queue, solo, offered, workers>> /\ Active' = Active
    BY <2>1 DEF pass, Active
  <2> QED
    BY <1>0, <2>2 DEF SamePool, BatchTyped, WorkersTyped, PlacesStand
<1>4. ASSUME NEW t \in Ticket, Ends(t)
      PROVE  SamePool /\ BatchTyped' /\ PlacesStand' /\ WorkersTyped'
  <2>1. PICK how \in Exit : workers' = [workers EXCEPT ![t].exit = how]
    BY <1>4 DEF Ends
  <2>2. UNCHANGED <<pc, calls, queue, solo, offered>> /\ t \in Active /\ Active' = Active
    BY <1>4, <2>1 DEF Ends, pass, Active
  <2>3. \A u \in Active : /\ workers'[u].in = workers[u].in
                          /\ workers'[u].exit = (IF u = t THEN how ELSE workers[u].exit)
                          /\ DOMAIN workers'[u] = DOMAIN workers[u]
    <3>1. \A u \in Active : workers'[u] = IF u = t THEN [workers[t] EXCEPT !.exit = how] ELSE workers[u]
      BY <2>1 DEF Active
    <3>2. DOMAIN workers[t] = {"in", "visit", "exit", "shape"}
      BY <1>0, <2>2 DEF WorkersTyped
    <3>3. /\ [workers[t] EXCEPT !.exit = how].in = workers[t].in
          /\ [workers[t] EXCEPT !.exit = how].exit = how
          /\ DOMAIN [workers[t] EXCEPT !.exit = how] = DOMAIN workers[t]
      BY <3>2
    <3> QED
      BY <3>1, <3>3
  <2> QED
    BY <1>0, <2>2, <2>3 DEF SamePool, BatchTyped, WorkersTyped, PlacesStand
<1> QED
  BY <1>1, <1>2, <1>3, <1>4 DEF WorkerStep

LEMMA PoolKeeps ==
    ASSUME PoolInv, [Next]_vars
    PROVE  PoolInv'
<1>1. CASE UNCHANGED vars
  <2>1. /\ UNCHANGED <<state, entered, block, claimed, ledger, briefs, answered>>
        /\ UNCHANGED <<pc, calls, queue, solo, offered, stalled, heldAt, workers>>
    BY <1>1 DEF vars, plan, pass, stalls
  <2> QED
    BY <2>1 DEF PoolInv, RunInv, PlanTyped, BatchTyped, StallsTyped, WorkersTyped, PlacesStand, Pcs,
                SlotsStand, Distinct, StatesApart, Active
<1>2. CASE Next
  <2>1. PlanTyped' /\ StallsTyped'
    BY <1>2, PlanKeepsTypes, StallsKeepTypes DEF PoolInv
  <2>2. SlotsStand' /\ BatchTyped' /\ PlacesStand' /\ WorkersTyped'
    <3>1. CASE Begin \/ Callback \/ CallbacksDone \/ EndPass \/ WorkerStep \/ CommandStep
      BY <3>1, OthersKeep, SamePoolKeeps
    <3>2. CASE ReadPass \/ Refill
      <4>1. WorkersTyped'
        BY <3>2 DEF ReadPass, Refill, PoolInv, RunInv, WorkersTyped, Active
      <4> QED
        BY <3>2, <4>1, ReadPassKeeps, RefillKeeps
    <3>3. CASE Fill \/ Die \/ \E t \in Ticket : Handle(t)
      BY <3>3, FillKeeps, DieKeeps, HandleKeeps
    <3> QED
      BY <1>2, <3>1, <3>2, <3>3 DEF Next, RunStep
  <2> QED
    BY <2>1, <2>2 DEF PoolInv, RunInv
<1> QED
  BY <1>1, <1>2

\* The inductive invariant of the run's pool.
THEOREM PoolInvariant == Spec => []PoolInv
  BY PoolStarts, PoolKeeps, PTL DEF Spec

\* The plan, the run and its workers keep their types; a pool has a worker to
\* wait for and a batch an item to start, which is what lets the run go on.
THEOREM RunWellTyped == Spec => []RunTypeOK
<1>1. PoolInv => RunTypeOK
  BY TypesFollow DEF PoolInv
<1> QED
  BY <1>1, PoolInvariant, PTL

\* However slots are handed on, no more tickets are worked than --parallel
\* says, and one at a time in a state that is not concurrent
\* (refill_parallel_worker_pool).
THEOREM PoolIsLimited == Spec => []PoolKeepsItsLimits
<1>1. PoolInv => PoolKeepsItsLimits
  <2> SUFFICES ASSUME PoolInv PROVE PoolKeepsItsLimits
    OBVIOUS
  <2>1. Cardinality(Active) \in Nat /\ Len(queue) \in Nat
    BY ActiveIsFinite DEF PoolInv, RunInv, BatchTyped
  <2>2. Cardinality(Active) <= Parallel
    BY <2>1, RunAssumption DEF PoolInv, SlotsStand
  <2> QED
    BY <2>2 DEF PoolInv, SlotsStand, StatesApart, PoolKeepsItsLimits
<1> QED
  BY <1>1, PoolInvariant, PTL

-----------------------------------------------------------------------------
(* Gates: the block of a ticket parked at one is not cleared before it is  *)
(* moved on.                                                               *)

HoldsByBlock(t) == block[t] # None /\ block[t].phase = "held"

LEMMA HeldHolds ==
    ASSUME NEW checkpoints \in Seq(Checkpoint)
    PROVE  Held(checkpoints) # None /\ Held(checkpoints).phase = "held"
<1>1. Held(checkpoints) \in [phase : {"held", "released"}, checkpoints : Seq(Checkpoint)]
  BY DEF Held
<1> QED
  BY <1>1, NoBlockAssumption DEF Held

\* Whoever hears of a move is held for it.
LEMMA HeardIsHeld ==
    ASSUME PlanTyped, NEW t \in Ticket, NEW to \in State, NEW by, Move(t, to, by), NEW p \in Ticket,
           Hears(t, to, by) = p
    PROVE  HoldsByBlock(p)'
<1> DEFINE own == [block EXCEPT ![t] = OwnBlock(t, to)]
           hears == Hears(t, to, by)
           news == Append(Checkpoints(hears), [ticket |-> t, to |-> to])
<1>1. hears # None /\ hears = p /\ DOMAIN own = Ticket
  BY SupervisedPlanAssumption DEF PlanTyped
<1>2. block' = [own EXCEPT ![hears] = Held(news)]
  BY <1>1 DEF Move, NewBlocks
<1>3. Checkpoints(p) \in Seq(Checkpoint) /\ [ticket |-> t, to |-> to] \in Checkpoint
  <2>1. block[p] \in Block
    BY DEF PlanTyped
  <2>2. Checkpoints(p) \in Seq(Checkpoint)
    BY <2>1 DEF Checkpoints, Block
  <2> QED
    BY <2>2 DEF Checkpoint
<1>4. news \in Seq(Checkpoint)
  BY <1>1, <1>3, AppendProperties
<1> HIDE DEF own, hears, news
<1>5. block'[p] = Held(news)
  BY <1>1, <1>2
<1> QED
  BY <1>4, <1>5, HeldHolds DEF HoldsByBlock

\* A move leaves the mover its own block and anybody else theirs, unless they
\* are held for what they heard of it.
LEMMA BlocksAfter ==
    ASSUME PlanTyped, NEW t \in Ticket, NEW to \in State, NEW by, Move(t, to, by), NEW p \in Ticket
    PROVE  \/ HoldsByBlock(p)'
           \/ block'[p] = IF p = t THEN OwnBlock(t, to) ELSE block[p]
<1> DEFINE own == [block EXCEPT ![t] = OwnBlock(t, to)]
           hears == Hears(t, to, by)
           news == Append(Checkpoints(hears), [ticket |-> t, to |-> to])
<1>1. own \in [Ticket -> Block] /\ own[p] = IF p = t THEN OwnBlock(t, to) ELSE block[p]
  <2>1. OwnBlock(t, to) \in Block
    BY DEF OwnBlock, PlanTyped, Held, Released, Block
  <2> QED
    BY <2>1 DEF PlanTyped
<1>2. block' = IF hears = None THEN own ELSE [own EXCEPT ![hears] = Held(news)]
  BY DEF Move, NewBlocks
<1>3. CASE hears = None \/ hears # p
  <2> HIDE DEF own, hears, news
  <2> QED
    BY <1>1, <1>2, <1>3
<1>4. CASE hears = p
  BY <1>4, HeardIsHeld
<1> QED
  BY <1>3, <1>4

LEMMA HeldBlocksRelease ==
    ASSUME NEW p, NEW u \in Below(p), NEW running, HoldsByBlock(p)
    PROVE  ~Ready(u, running)
  BY DEF HoldsByBlock, Below, Ready, HeldAbove, Holds

ParkedHolds(p) == state[p] \in ParkedAt /\ Start[p] # state[p] => HoldsByBlock(p)

GateInv == \A p \in Ticket : ParkedHolds(p)

LEMMA GateMoves ==
    ASSUME PlanTyped, NEW t \in Ticket, NEW to \in State, NEW by, MovesAlong(t, to, by),
           NEW p \in Ticket, ParkedHolds(p)
    PROVE  ParkedHolds(p)'
<1>1. Move(t, to, by) /\ Edge(state[t], to)
  BY DEF MovesAlong
<1>2. state'[p] = IF p = t THEN to ELSE state[p]
  BY <1>1 DEF Move, PlanTyped
<1> SUFFICES ASSUME state'[p] \in ParkedAt, Start[p] # state'[p], ~HoldsByBlock(p)'
             PROVE  FALSE
  BY DEF ParkedHolds, ParkedAt
<1>3. block'[p] = IF p = t THEN OwnBlock(t, to) ELSE block[p]
  BY <1>1, BlocksAfter
<1>4. CASE p # t
  BY <1>2, <1>3, <1>4 DEF ParkedHolds, HoldsByBlock
<1>5. CASE p = t /\ to = state[t]
  <2>1. ~Supervises(t)
    BY <1>2, <1>5, SupervisingMachineAssumption DEF ParkedAt, Supervises
  <2>2. block'[p] = block[p]
    BY <1>3, <1>5, <2>1 DEF OwnBlock
  <2> QED
    BY <1>2, <1>5, <2>2 DEF ParkedHolds, HoldsByBlock
<1>6. CASE p = t /\ to # state[t]
  <2>1. state[t] \in State /\ to \in ParkedAt
    BY <1>2, <1>6 DEF PlanTyped
  <2>2. Supervises(t) /\ to \in Gating
    BY <1>1, <2>1 DEF ParkedAt, Supervises, Edge
  <2>3. block'[p] = Held(<<>>)
    BY <1>3, <1>6, <2>2 DEF OwnBlock
  <2>4. <<>> \in Seq(Checkpoint)
    OBVIOUS
  <2> QED
    BY <2>3, <2>4, HeldHolds DEF HoldsByBlock
<1> QED
  BY <1>4, <1>5, <1>6

LEMMA GateKeeps ==
    ASSUME RunInv, GateInv, [Next]_vars
    PROVE  GateInv'
<1>1. ASSUME SameStands \/ UNCHANGED vars
      PROVE  GateInv'
  <2>1. UNCHANGED <<state, block>>
    BY <1>1 DEF SameStands, vars, plan
  <2> QED
    BY <2>1 DEF GateInv, ParkedHolds, HoldsByBlock, ParkedAt
<1>2. ASSUME NEW t \in Ticket, NEW to \in State, NEW by \in Ticket \cup {None}, MovesAlong(t, to, by)
      PROVE  GateInv'
  BY <1>2, GateMoves DEF RunInv, GateInv
<1> QED
  BY <1>1, <1>2, PlanSteps

\* "A supervisor parked at a gate keeps its subtree held until a human moves
\* it" (rhei-supervision.spec.md 3.1): by apply_supervision_transition the move
\* to the gate holds, no later move clears the block, and task_is_ready
\* goes by the block.
THEOREM GatesKeepTheirHold == Spec => []GateKeepsTheHold
<1>1. RunInit => GateInv
  BY DEF RunInit, SupervisionInit, GateInv, ParkedHolds
<1>2. GateInv => GateKeepsTheHold
  BY HeldBlocksRelease DEF GateInv, ParkedHolds, GateKeepsTheHold
<1>3. PoolInv /\ GateInv /\ [Next]_vars => GateInv'
  BY GateKeeps DEF PoolInv
<1> QED
  BY <1>1, <1>2, <1>3, PoolInvariant, PTL DEF Spec

-----------------------------------------------------------------------------
(* A supervisor and its subtree.  Whoever is at work on a ticket, or about *)
(* to be, got it when it was ready, and what was ready then has to stay    *)
(* apart from what becomes ready later.                                    *)

Engaged == Active \cup claimed \cup Queued

StaysApart(p) ==
    p \in Engaged /\ state[p] \in Supervising \cup Doors =>
        /\ Below(p) \cap Engaged = {}
        /\ state[p] \in Doors => HoldsByBlock(p)

TogetherInv == \A p \in Ticket : StaysApart(p)

\* Who gets at work: those of a batch, of the ready tickets the pass or the
\* refill read, and the one a person claims.
LEMMA EngagedSteps ==
    ASSUME PoolInv, Next, "claim" \notin Beside
    PROVE  \/ Engaged' \subseteq Engaged
           \/ /\ Engaged = Active \cup claimed
              /\ SameStands
              /\ \E N \in SUBSET {t \in Ticket : Ready(t, Active)} :
                   Engaged' \subseteq Active \cup claimed \cup N
<1> DEFINE G == \/ Engaged' \subseteq Engaged
                \/ /\ Engaged = Active \cup claimed
                   /\ SameStands
                   /\ \E N \in SUBSET {t \in Ticket : Ready(t, Active)} :
                        Engaged' \subseteq Active \cup claimed \cup N
<1>0. RunInv
  BY DEF PoolInv
<1>1. ASSUME UNCHANGED <<workers, queue>>, claimed' \subseteq claimed
      PROVE  G
  BY <1>1 DEF Engaged, Queued, Active
<1>2. ASSUME UNCHANGED <<plan, workers>>, queue = <<>>,
             NEW S \in SUBSET {t \in Ticket : Ready(t, Active)}, NEW n, NewBatch(S, n)
      PROVE  G
  <2>1. Queued = {} /\ Active' = Active /\ claimed' = claimed
    BY <1>2 DEF Queued, Active, plan
  <2>2. Queued' \subseteq S
    BY <1>2 DEF NewBatch, Queued
  <2>3. SameStands
    BY <1>2 DEF SameStands, plan
  <2> QED
    BY <2>1, <2>2, <2>3 DEF Engaged
<1>3. CASE Begin \/ Callback \/ CallbacksDone \/ EndPass \/ WorkerStep
  <2>1. CASE Begin \/ CallbacksDone \/ EndPass
    BY <1>1, <2>1 DEF Begin, CallbacksDone, EndPass, pass, plan
  <2>2. CASE Callback
    <3>1. claimed' \subseteq claimed
      BY <2>2 DEF Callback, Moves, Move, plan
    <3> QED
      BY <1>1, <2>2, <3>1 DEF Callback
  <2>3. CASE WorkerStep
    <3>1. Active' = Active /\ UNCHANGED <<queue, claimed>>
      BY <2>3 DEF WorkerStep, Ends, WriteBrief, pass, Active
    <3> QED
      BY <3>1 DEF Engaged, Queued
  <2> QED
    BY <1>3, <2>1, <2>2, <2>3
<1>4. CASE ReadPass
  <2>1. /\ pc = "top" /\ Active = {} /\ queue = <<>> /\ UNCHANGED <<plan, workers>>
    BY <1>0, <1>4 DEF ReadPass, RunInv, PlacesStand
  <2>2. CASE Runnable({}) = {}
    BY <1>1, <1>4, <2>1, <2>2 DEF ReadPass, pass, plan
  <2>3. CASE Runnable({}) # {}
    <3>1. NewBatch(OnePerState(PassAgents, {}), Parallel)
      BY <1>0, <1>4, <2>3, ReadPassReads
    <3>2. OnePerState(PassAgents, {}) \in SUBSET {t \in Ticket : Ready(t, Active)}
      BY <2>1 DEF OnePerState, PassAgents, Runnable
    <3> QED
      BY <1>2, <2>1, <3>1, <3>2
  <2> QED
    BY <2>2, <2>3
<1>5. CASE Refill
  <2>1. queue = <<>> /\ UNCHANGED <<plan, workers>>
    BY <1>0, <1>5 DEF Refill, RunInv, PlacesStand
  <2>2. FreeSlots \in Nat
    BY <1>0, <2>1, ActiveIsFinite, RunAssumption DEF PoolInv, SlotsStand, FreeSlots
  <2>3. NewBatch(OnePerState(Startable \ answered, BusyStates) \ stalled, FreeSlots)
    BY <1>0, <1>5, <2>2, RefillReads
  <2>4. OnePerState(Startable \ answered, BusyStates) \ stalled
          \in SUBSET {t \in Ticket : Ready(t, Active)}
    BY DEF OnePerState, Startable, Runnable
  <2> QED
    BY <1>2, <2>1, <2>3, <2>4
<1>6. CASE Fill
  <2>1. /\ queue # <<>> /\ queue \in Seq(Item) /\ Head(queue) = queue[1]
        /\ queue' \in Seq(Item) /\ Len(queue') = Len(queue) - 1
        /\ \A i \in 1..Len(queue') : queue'[i] = queue[i + 1]
        /\ Active' \subseteq Active \cup {Head(queue).ticket}
    BY <1>0, <1>6, FillIs DEF Active, RunInv, BatchTyped
  <2>2. DOMAIN queue = 1..Len(queue) /\ DOMAIN queue' = 1..Len(queue') /\ Len(queue) \in Nat /\ Len(queue) > 0
    BY <2>1
  <2>3. 1 \in DOMAIN queue /\ \A i \in DOMAIN queue' : i + 1 \in DOMAIN queue
    BY <2>1, <2>2
  <2>4. Queued' \subseteq Queued /\ Head(queue).ticket \in Queued
    BY <2>1, <2>2, <2>3 DEF Queued
  <2>5. claimed' = claimed
    BY <1>6 DEF Fill, plan
  <2> QED
    BY <2>1, <2>4, <2>5 DEF Engaged
<1>7. ASSUME NEW t \in Ticket, Handle(t)
      PROVE  G
  <2>1. Active' \subseteq Active /\ queue' = queue
    BY <1>0, <1>7, HandleIs DEF pass
  <2>2. claimed' \subseteq claimed
    BY <1>7 DEF Handle, Moves, Move, plan
  <2> QED
    BY <2>1, <2>2 DEF Engaged, Queued
<1>8. CASE Die
  BY <1>8 DEF Die, Engaged, Queued, Active, plan
<1>9. CASE CommandStep
  <2>1. UNCHANGED <<workers, queue>>
    BY <1>9 DEF CommandStep, CommandTransition, CommandClaim, CommandRelease, Given, pass
  <2>2. ASSUME NEW t \in Ticket, NEW to \in State, NEW by, CommandTransition(t, to, by)
        PROVE  claimed' \subseteq claimed
    BY <2>2 DEF CommandTransition, Transition, Move
  <2>3. ASSUME NEW t \in Ticket, CommandRelease(t)
        PROVE  claimed' \subseteq claimed
    BY <2>3 DEF CommandRelease, GiveBack
  <2>4. ASSUME NEW t \in Ticket, CommandClaim(t)
        PROVE  G
    <3>1. pc \in Resting
      BY <2>4 DEF CommandClaim, Given
    <3>2. Active = {} /\ queue = <<>>
      BY <1>0, <3>1 DEF RunInv, PlacesStand, Resting
    <3>3. Ready(t, Active) /\ claimed' = claimed \cup {t} /\ SameStands
      BY <2>4, <3>2 DEF CommandClaim, Claim, SameStands
    <3>4. Queued = {} /\ Queued' = {} /\ Active' = Active
      BY <2>1, <3>2 DEF Queued, Active
    <3> QED
      BY <3>3, <3>4 DEF Engaged
  <2> QED
    BY <1>1, <1>9, <2>1, <2>2, <2>3, <2>4 DEF CommandStep
<1> QED
  BY <1>3, <1>4, <1>5, <1>6, <1>7, <1>8, <1>9 DEF Next, RunStep

\* The tickets that get to work are ready, and none of them is in the way of
\* another or of one at work.
LEMMA EngagingKeepsApart ==
    ASSUME TogetherInv, Engaged = Active \cup claimed, SameStands,
           NEW N \in SUBSET {t \in Ticket : Ready(t, Active)},
           Engaged' \subseteq Active \cup claimed \cup N,
           NEW p \in Ticket
    PROVE  StaysApart(p)'
<1> SUFFICES ASSUME p \in Engaged', state[p] \in Supervising \cup Doors
             PROVE  /\ Below(p) \cap Engaged' = {}
                    /\ state[p] \in Doors => HoldsByBlock(p)
  BY DEF StaysApart, SameStands, HoldsByBlock, Below, Doors, Edge
<1>1. \A u \in Below(p) : u \in Ticket /\ p \in Range(Above[u])
  BY DEF Below
<1>2. CASE p \in Engaged
  <2>1. Below(p) \cap Engaged = {} /\ (state[p] \in Doors => HoldsByBlock(p))
    BY <1>2 DEF TogetherInv, StaysApart
  <2>2. InFlight(p, Active)
    BY <1>2 DEF InFlight
  <2>3. \A u \in Below(p) : HeldAbove(u, Active)
    BY <1>1, <2>1, <2>2 DEF HeldAbove, Supervises, Holds, HoldsByBlock
  <2> QED
    BY <2>1, <2>3 DEF Ready
<1>3. CASE p \in N
  <2>1. Supervises(p) /\ state[p] \notin Doors
    BY <1>3 DEF Ready, Doors, Supervises
  <2>2. Holds(p) /\ \A u \in Below(p) : ~InFlight(u, Active)
    BY <1>3, <2>1 DEF Ready, Due
  <2>3. \A u \in Below(p) : HeldAbove(u, Active)
    BY <1>1, <2>2 DEF HeldAbove
  <2> QED
    BY <2>1, <2>2, <2>3 DEF InFlight, Ready
<1> QED
  BY <1>2, <1>3

\* A move engages nobody, and a supervisor that moves to its gate keeps the
\* hold it needs to come back.
LEMMA MovingKeepsApart ==
    ASSUME PlanTyped, TogetherInv, EntryIsGuarded, Engaged' \subseteq Engaged,
           NEW t \in Ticket, NEW to \in State, NEW by, MovesAlong(t, to, by), NEW p \in Ticket
    PROVE  StaysApart(p)'
<1>1. Move(t, to, by) /\ Edge(state[t], to) /\ state[t] \in State
  BY DEF MovesAlong, PlanTyped
<1>2. state'[p] = IF p = t THEN to ELSE state[p]
  BY <1>1 DEF Move, PlanTyped
<1> SUFFICES ASSUME p \in Engaged', state'[p] \in Supervising \cup Doors
             PROVE  /\ Below(p) \cap Engaged' = {}
                    /\ state'[p] \in Doors => HoldsByBlock(p)'
  BY DEF StaysApart, Below, Doors, Edge
<1>3. CASE p # t
  <2>1. Below(p) \cap Engaged = {} /\ (state[p] \in Doors => HoldsByBlock(p))
    BY <1>2, <1>3 DEF TogetherInv, StaysApart
  <2>2. HoldsByBlock(p)' \/ block'[p] = block[p]
    BY <1>1, <1>3, BlocksAfter
  <2> QED
    BY <1>2, <1>3, <2>1, <2>2 DEF HoldsByBlock
<1>4. CASE p = t
  <2>1. state[t] \in Supervising \cup Doors /\ (to \in Doors => Supervises(t))
    BY <1>1, <1>2, <1>4 DEF EntryIsGuarded, Supervises
  <2>2. Below(p) \cap Engaged = {}
    BY <1>4, <2>1 DEF TogetherInv, StaysApart
  <2>3. ASSUME to \in Doors
        PROVE  HoldsByBlock(p)'
    <3>1. Supervises(t) /\ to \in Gating /\ to # state[t]
      BY <2>1, <2>3, SupervisingMachineAssumption DEF Doors, Supervises
    <3>2. OwnBlock(t, to) = Held(<<>>)
      BY <3>1 DEF OwnBlock
    <3>3. HoldsByBlock(p)' \/ block'[p] = Held(<<>>)
      BY <1>1, <1>4, <3>2, BlocksAfter
    <3>4. <<>> \in Seq(Checkpoint)
      OBVIOUS
    <3> QED
      BY <3>3, <3>4, HeldHolds DEF HoldsByBlock
  <2> QED
    BY <1>2, <1>4, <2>2, <2>3
<1> QED
  BY <1>3, <1>4

LEMMA TogetherKeeps ==
    ASSUME PoolInv, TogetherInv, EntryIsGuarded, "claim" \notin Beside, [Next]_vars
    PROVE  TogetherInv'
<1>1. ASSUME UNCHANGED <<state, block>>, Engaged' \subseteq Engaged
      PROVE  TogetherInv'
  BY <1>1 DEF TogetherInv, StaysApart, HoldsByBlock, Below, Doors, Edge
<1>2. CASE UNCHANGED vars
  BY <1>1, <1>2 DEF vars, plan, pass, Engaged, Active, Queued
<1>3. CASE Next /\ SameStands /\ Engaged' \subseteq Engaged
  BY <1>1, <1>3 DEF SameStands
<1>4. CASE Next /\ ~(Engaged' \subseteq Engaged)
  BY <1>4, EngagedSteps, EngagingKeepsApart DEF TogetherInv
<1>5. CASE Next /\ Engaged' \subseteq Engaged /\
           \E t \in Ticket, to \in State, by \in Ticket \cup {None} : MovesAlong(t, to, by)
  BY <1>5, MovingKeepsApart DEF PoolInv, RunInv, TogetherInv
<1> QED
  BY <1>2, <1>3, <1>4, <1>5, PlanSteps DEF PoolInv

\* "A supervisor and its descendants are never worked at the same time"
\* (rhei-supervision.spec.md 3.1), as long as nobody claims a ticket beside a
\* run and supervision is entered from supervision, or from the gate it leaves
\* for, only: subtree_held_by_supervisor and task_is_ready keep them apart.
THEOREM ApartWithoutClaims ==
    ASSUME "claim" \notin Beside, EntryIsGuarded
    PROVE  Spec => []NeverTogether
<1>1. RunInit => TogetherInv
  BY DEF RunInit, SupervisionInit, TogetherInv, StaysApart, Engaged, Active, Queued
<1>2. TogetherInv => NeverTogether
  BY DEF TogetherInv, StaysApart, NeverTogether, Engaged, Worked, Supervises
<1>3. PoolInv /\ TogetherInv /\ [Next]_vars => TogetherInv'
  BY TogetherKeeps
<1> QED
  BY <1>1, <1>2, <1>3, PoolInvariant, PTL DEF Spec

-----------------------------------------------------------------------------
(* A subtree that was let go.  What let it go left a ticket in it that can *)
(* move; as long as nothing below moves that ticket can, and a move below  *)
(* is heard by the supervisor itself, or by one that stands between.       *)

\* The tickets above a ticket are those above the next of them, and what a
\* ticket waits for is below all it is below.
TreeOfTickets ==
    \A t \in Ticket :
        /\ t \notin Range(Above[t])
        /\ \A i, j \in DOMAIN Above[t] : i < j => Above[t][j] \in Range(Above[Above[t][i]])
        /\ \A u \in Prior[t] : Range(Above[t]) \subseteq Range(Above[u])

\* A supervisor listens for its children only where it has nobody else below,
\* and for ends only where a ticket that is no supervisor moves to its end at
\* once.
MovesAreNews ==
    /\ ChildScope = {} \/ \A t \in Ticket : Len(Above[t]) <= 1
    /\ \/ TerminalEvent = {}
       \/ \A s, to \in State : Edge(s, to) /\ to # s =>
              to \in Terminal \/ {s, to} \subseteq Supervising \cup Doors

\* A supervisor below another waits for no ticket and no brief, and no visit
\* that ran out of time lets a subtree go.
SupervisorsAreFree ==
    /\ \A t \in Ticket : Range(Above[t]) # {} /\ Start[t] \in Supervising \cup Doors =>
           Prior[t] = {} /\ \A s \in Supervising : <<t, s>> \notin Needs
    /\ \A s \in Supervising : TimeoutTo[s] # s

\* Who is claimed was owed a visit, and its own release ends the claim.
ClaimIsHeld(p) == Supervises(p) /\ p \in claimed => block[p] # Released

BornToSupervise(p) == state[p] \in Supervising \cup Doors => Start[p] \in Supervising \cup Doors

\* Nothing moved below a supervisor at work but by hand.
ShapeIsFresh(p) ==
    /\ p \in Active /\ p \notin steered
    /\ state[p] \in Supervising \cup Doors /\ workers[p].in \in Supervising
    => workers[p].shape = Shape(p)

GoesOnBelow(p) ==
    /\ Supervises(p) /\ block[p] = Released /\ Open(p) # {} /\ p \notin steered
    => \E u \in Open(p) : CanStillMove(p, u)

WakeInv ==
    \A p \in Ticket : ClaimIsHeld(p) /\ BornToSupervise(p) /\ ShapeIsFresh(p) /\ GoesOnBelow(p)

LEMMA ReleasedIsNotHeld ==
    /\ Released # None /\ Released # Held(<<>>)
    /\ \A p \in Ticket : block[p] = Released => ~Holds(p) /\ ~HoldsByBlock(p)
<1>1. Released \in [phase : {"held", "released"}, checkpoints : Seq(Checkpoint)]
  BY DEF Released
<1>2. Released # None /\ Released.phase = "released" /\ Held(<<>>).phase = "held"
  BY <1>1, NoBlockAssumption DEF Released, Held
<1> QED
  BY <1>2 DEF Holds, HoldsByBlock

\* The owner of a ticket below a supervisor is that supervisor or is below it.
LEMMA OwnerIsNearest ==
    ASSUME TreeOfTickets, MovesAreNews, NEW t \in Ticket, NEW p \in Range(Above[t]), Supervises(p)
    PROVE  /\ Owner(t) # None
           /\ Owner(t) = p \/ p \in Range(Above[Owner(t)])
<1> DEFINE hears(i) == /\ Supervises(Above[t][i])
                       /\ state[Above[t][i]] \in ChildScope => i = 1
           all == {i \in DOMAIN Above[t] : hears(i)}
           first == CHOOSE i \in all : \A j \in all : i <= j
<1>1. /\ Above[t] \in Seq(Ticket) /\ DOMAIN Above[t] = 1..Len(Above[t]) /\ Len(Above[t]) \in Nat
      /\ None \notin Ticket
  BY SupervisedPlanAssumption
<1>2. PICK k \in DOMAIN Above[t] : Above[t][k] = p
  BY DEF Range
<1>3. k \in all /\ all \in SUBSET (1..Len(Above[t]))
  <2>1. state[p] \in ChildScope => k = 1
    BY <1>1 DEF MovesAreNews
  <2> QED
    BY <1>1, <1>2, <2>1
<1>4. Owner(t) = Above[t][first]
  BY <1>3 DEF Owner
<1>5. first \in all /\ \A j \in all : first <= j
  <2> HIDE DEF all
  <2> QED
    BY <1>1, <1>3, FirstPlace
<1> HIDE DEF all, first
<1>6. first \in DOMAIN Above[t] /\ first <= k /\ first \in Nat /\ k \in Nat
  BY <1>1, <1>3, <1>5
<1>7. Above[t][first] \in Ticket
  BY <1>1, <1>6
<1>8. first = k \/ p \in Range(Above[Above[t][first]])
  BY <1>2, <1>6 DEF TreeOfTickets
<1> QED
  BY <1>1, <1>2, <1>4, <1>7, <1>8

\* A move elsewhere is none of a subtree's.
LEMMA MovesElsewhere ==
    ASSUME PlanTyped, NEW t \in Ticket, NEW to \in State, NEW by, Move(t, to, by),
           NEW p \in Ticket, t \notin Below(p)
    PROVE  /\ Below(p)' = Below(p) /\ Open(p)' = Open(p) /\ Shape(p)' = Shape(p)
           /\ \A u \in Below(p) : state'[u] = state[u]
<1>1. \A u \in Ticket : state'[u] = IF u = t THEN to ELSE state[u]
  BY DEF Move, PlanTyped
<1>2. Below(p)' = Below(p) /\ Below(p) \subseteq Ticket
  BY DEF Below
<1>3. \A u \in Below(p) : state'[u] = state[u]
  BY <1>1, <1>2
<1> QED
  BY <1>2, <1>3 DEF Open, Shape

-----------------------------------------------------------------------------
(* What each step means for the supervisors.                               *)

\* The edge of a run that lets a subtree go: something below can move.
LetsGoWell(t, to) ==
    to = state[t] /\ Supervises(t) /\ Open(t) # {} /\ t \notin steered =>
        \E u \in Open(t) : CanStillMove(t, u)

QuietStep ==
    /\ SameStands /\ steered \subseteq steered' /\ briefs \subseteq briefs'
    /\ \A t \in claimed' \ claimed : Ready(t, {})

MovedByRun(t, to) == MovesAlong(t, to, None) /\ UNCHANGED steered /\ LetsGoWell(t, to)

MovedByHand(t, to, by) ==
    /\ MovesAlong(t, to, by) /\ steered \subseteq steered'
    /\ to = state[t] => t \in steered'
    /\ \A p \in Range(Above[t]) : p \in Active \/ Hears(t, to, by) = None => p \in steered'

\* A visit's end is judged by the shape the visit began on, which is that of
\* now.
LEMMA HandledWell ==
    ASSUME PoolInv, WakeInv, SupervisorsAreFree, NEW t \in Ticket, Handle(t), ~UNCHANGED plan
    PROVE  \E to \in State : MovedByRun(t, to)
<1> DEFINE worker == workers[t]
           to == ExitEdge(t, worker)
<1>1. /\ Moves(t, to, None) /\ to # None /\ UNCHANGED steered /\ ~Empty(t, worker)
      /\ t \in Active /\ ~(state[t] # worker.in /\ worker.exit # "panicked")
  BY DEF Handle, history
<1>2. state[t] = worker.in /\ worker.exit \in {"done", "late"}
  BY <1>1 DEF ExitEdge
<1>3. state[t] \in State /\ None \notin Ticket
  BY SupervisedPlanAssumption DEF PoolInv, RunInv, PlanTyped
<1>4. to \in State /\ Edge(state[t], to) /\ LetsGoWell(t, to)
  <2>1. CASE worker.exit = "done"
    <3>1. to = Forward(t)
      BY <2>1 DEF ExitEdge
    <3>2. to \in State /\ Edge(state[t], to)
      BY <1>1, <1>3, <3>1, ForwardIsAnEdge
    <3>3. ASSUME to = state[t], Supervises(t), Open(t) # {}, t \notin steered
          PROVE  \E u \in Open(t) : CanStillMove(t, u)
      <4>1. worker.shape = Shape(t)
        BY <1>1, <1>2, <3>3 DEF WakeInv, ShapeIsFresh, Supervises
      <4>2. ~ReleasedNothing(t, worker.shape)
        BY <1>1, <2>1 DEF Empty
      <4> QED
        BY <3>1, <3>3, <4>1, <4>2 DEF ReleasedNothing
    <3> HIDE DEF to, worker
    <3> QED
      BY <3>2, <3>3 DEF LetsGoWell
  <2>2. CASE worker.exit = "late"
    <3>1. to = TimeoutTo[state[t]]
      BY <1>2, <2>2 DEF ExitEdge
    <3>2. to \in State /\ Edge(state[t], to)
      BY <1>1, <1>3, <3>1, RunAssumption DEF Edge
    <3>3. ~(to = state[t] /\ Supervises(t))
      BY <3>1 DEF SupervisorsAreFree, Supervises
    <3> HIDE DEF to, worker
    <3> QED
      BY <3>2, <3>3 DEF LetsGoWell
  <2> QED
    BY <1>2, <2>1, <2>2
<1>5. MovesAlong(t, to, None)
  BY <1>1, <1>4 DEF Moves, MovesAlong
<1> HIDE DEF to
<1> QED
  BY <1>1, <1>4, <1>5 DEF MovedByRun

\* A move that needs no worker is judged as a visit nobody made.
LEMMA CalledWell ==
    ASSUME PoolInv, Callback, ~UNCHANGED plan
    PROVE  \E t \in Ticket, to \in State : MovedByRun(t, to)
<1> DEFINE t == Head(calls).ticket
           to == Forward(t)
<1>1. t \in Ticket
  <2>1. calls # <<>> /\ calls \in Seq(Item)
    BY DEF Callback, PoolInv, RunInv, BatchTyped
  <2>2. Head(calls) \in Item
    BY <2>1
  <2> QED
    BY <2>2 DEF Item
<1>2. /\ ~ReleasedNothing(t, None) /\ Takes(t, Head(calls).in) /\ Moves(t, to, None)
      /\ UNCHANGED steered
  BY DEF Callback, history
<1>3. to # None /\ state[t] \in State
  BY <1>1, <1>2 DEF Takes, PoolInv, RunInv, PlanTyped
<1>4. to \in State /\ Edge(state[t], to)
  BY <1>1, <1>3, ForwardIsAnEdge
<1>5. LetsGoWell(t, to)
  BY <1>2 DEF LetsGoWell, ReleasedNothing
<1>6. MovesAlong(t, to, None)
  BY <1>2, <1>4 DEF Moves, MovesAlong
<1> HIDE DEF t, to
<1> QED
  BY <1>1, <1>2, <1>4, <1>5, <1>6 DEF MovedByRun

LEMMA WakeSteps ==
    ASSUME PoolInv, WakeInv, SupervisorsAreFree, Next
    PROVE  \/ QuietStep
           \/ \E t \in Ticket, to \in State : MovedByRun(t, to)
           \/ \E t \in Ticket, to \in State, by \in Ticket \cup {None} : MovedByHand(t, to, by)
<1> DEFINE G == \/ QuietStep
                \/ \E t \in Ticket, to \in State : MovedByRun(t, to)
                \/ \E t \in Ticket, to \in State, by \in Ticket \cup {None} : MovedByHand(t, to, by)
<1>1. ASSUME UNCHANGED plan, UNCHANGED steered
      PROVE  G
  BY <1>1 DEF plan, QuietStep, SameStands
<1>2. CASE Begin \/ ReadPass \/ CallbacksDone \/ Fill \/ Refill \/ EndPass \/ Die
  BY <1>1, <1>2 DEF Begin, ReadPass, CallbacksDone, Fill, Refill, EndPass, Die, history
<1>3. CASE Callback
  <2>1. UNCHANGED steered
    BY <1>3 DEF Callback, history
  <2> QED
    BY <1>1, <1>3, <2>1, CalledWell
<1>4. ASSUME NEW t \in Ticket, Handle(t)
      PROVE  G
  <2>1. UNCHANGED steered
    BY <1>4 DEF Handle, history
  <2> QED
    BY <1>1, <1>4, <2>1, HandledWell
<1>5. CASE WorkerStep
  BY <1>5 DEF WorkerStep, Ends, WriteBrief, history, QuietStep, SameStands
<1>6. ASSUME NEW t \in Ticket, NEW to \in State, NEW by \in Ticket \cup {None},
             CommandTransition(t, to, by)
      PROVE  G
  <2>1. MovesAlong(t, to, by)
    BY <1>6 DEF CommandTransition, Transition, Edge, MovesAlong
  <2>2. steered' = steered \cup (IF to = state[t] THEN {t} ELSE {})
                           \cup {p \in Range(Above[t]) : p \in Active \/ Hears(t, to, by) = None}
    BY <1>6 DEF CommandTransition
  <2> QED
    BY <2>1, <2>2 DEF MovedByHand
<1>7. ASSUME NEW t \in Ticket, CommandClaim(t) \/ CommandRelease(t)
      PROVE  G
  BY <1>7 DEF CommandClaim, CommandRelease, Claim, GiveBack, QuietStep, SameStands
<1> QED
  BY <1>2, <1>3, <1>4, <1>5, <1>6, <1>7 DEF Next, RunStep, CommandStep

-----------------------------------------------------------------------------
(* What each conjunct is kept by.                                          *)

LEMMA ClaimsKeepHeld ==
    ASSUME PlanTyped, NEW t \in Ticket, NEW to \in State, NEW by, Move(t, to, by),
           NEW p \in Ticket, ClaimIsHeld(p)
    PROVE  ClaimIsHeld(p)'
<1> SUFFICES ASSUME state'[p] \in Supervising, p \in claimed', block'[p] = Released
             PROVE  FALSE
  BY DEF ClaimIsHeld, Supervises, Released
<1>1. /\ state'[p] = IF p = t THEN to ELSE state[p]
      /\ claimed' \subseteq claimed
      /\ to = state[t] /\ Supervises(t) => t \notin claimed'
  BY DEF Move, PlanTyped
<1>2. block'[p] = IF p = t THEN OwnBlock(t, to) ELSE block[p]
  <2>1. ~HoldsByBlock(p)'
    BY DEF HoldsByBlock, Released
  <2> QED
    BY <2>1, BlocksAfter
<1>3. CASE p # t
  BY <1>1, <1>2, <1>3 DEF ClaimIsHeld, Supervises
<1>4. CASE p = t
  <2>1. to # state[t] /\ to \in Supervising
    BY <1>1, <1>4 DEF Supervises
  <2>2. block'[p] = Held(<<>>)
    BY <1>2, <1>4, <2>1 DEF OwnBlock
  <2> QED
    BY <2>2, ReleasedIsNotHeld
<1> QED
  BY <1>3, <1>4

LEMMA BirthsKeep ==
    ASSUME PlanTyped, EntryIsGuarded, NEW t \in Ticket, NEW to \in State, NEW by,
           MovesAlong(t, to, by), NEW p \in Ticket, BornToSupervise(p)
    PROVE  /\ BornToSupervise(p)'
           /\ state'[p] \in Supervising \cup Doors => state[p] \in Supervising \cup Doors
<1>1. state'[p] = (IF p = t THEN to ELSE state[p]) /\ state[t] \in State /\ Edge(state[t], to)
  BY DEF MovesAlong, Move, PlanTyped
<1>2. to \in Supervising \cup Doors => state[t] \in Supervising \cup Doors
  BY <1>1 DEF EntryIsGuarded
<1>3. Doors' = Doors
  BY DEF Doors, Edge
<1> QED
  BY <1>1, <1>2, <1>3 DEF BornToSupervise

\* A subtree that can go on does so until it moves, and what moves in it holds
\* it or has a supervisor of its own to go on.
LEMMA MovesGoOn ==
    ASSUME PlanTyped, WakeInv, TreeOfTickets, MovesAreNews, SupervisorsAreFree,
           NEW t \in Ticket, NEW to \in State, NEW by, MovesAlong(t, to, by), steered \subseteq steered',
           t \in steered' \/ LetsGoWell(t, to),
           by = None \/ (Hears(t, to, by) = None => Range(Above[t]) \subseteq steered'),
           NEW p \in Ticket
    PROVE  GoesOnBelow(p)'
<1> SUFFICES ASSUME Supervises(p)', block'[p] = Released, Open(p)' # {}, p \notin steered'
             PROVE  \E u \in Open(p)' : CanStillMove(p, u)'
  BY DEF GoesOnBelow, Released
<1>1. /\ Move(t, to, by) /\ state' = [state EXCEPT ![t] = to] /\ briefs' = briefs
      /\ state \in [Ticket -> State]
      /\ \A u \in Ticket : state'[u] = IF u = t THEN to ELSE state[u]
  BY DEF MovesAlong, Move, PlanTyped
<1>2. block'[p] = IF p = t THEN OwnBlock(t, to) ELSE block[p]
  <2>1. ~HoldsByBlock(p)'
    BY DEF HoldsByBlock, Released
  <2> QED
    BY <1>1, <2>1, BlocksAfter
<1>3. p \notin steered /\ ClaimIsHeld(p) /\ GoesOnBelow(p)
  BY DEF WakeInv
<1>4. p # t => Supervises(p) /\ block[p] = Released
  BY <1>1, <1>2 DEF Supervises
<1>5. CASE to = state[t]
  <2>1. state' = state
    BY <1>1, <1>5
  <2>2. Open(p)' = Open(p) /\ \A u : CanStillMove(p, u) => CanStillMove(p, u)'
    BY <1>1, <2>1 DEF Open, Below, CanStillMove, PriorBlocks, Satisfied, InputsExist
  <2>3. \E u \in Open(p) : CanStillMove(p, u)
    <3>1. CASE p = t
      BY <1>3, <1>5, <2>1, <2>2, <3>1 DEF LetsGoWell, Supervises
    <3>2. CASE p # t
      BY <1>3, <1>4, <2>2, <3>2 DEF GoesOnBelow
    <3> QED
      BY <3>1, <3>2
  <2> QED
    BY <2>2, <2>3
<1>6. CASE to # state[t] /\ p = t
  <2>1. OwnBlock(t, to) = Held(<<>>)
    BY <1>1, <1>6 DEF OwnBlock, Supervises
  <2> QED
    BY <1>2, <1>6, <2>1, ReleasedIsNotHeld
<1>7. CASE p # t /\ t \notin Below(p)
  <2>1. /\ Below(p)' = Below(p) /\ Open(p)' = Open(p)
        /\ \A u \in Below(p) : state'[u] = state[u]
    BY <1>1, <1>7, MovesElsewhere
  <2>2. PICK u \in Open(p) : CanStillMove(p, u)
    BY <1>3, <1>4, <1>7, <2>1 DEF GoesOnBelow
  <2>3. u \in Below(p) /\ u \in Ticket /\ p \in Range(Above[u])
    BY DEF Open, Below
  <2>4. \A v \in Prior[u] : v \in Below(p)
    <3>1. Prior[u] \subseteq Ticket
      BY <2>3, SupervisedPlanAssumption
    <3> QED
      BY <2>3, <3>1 DEF TreeOfTickets, Below
  <2>5. PriorBlocks(p, u)' => PriorBlocks(p, u)
    BY <2>1, <2>4 DEF PriorBlocks, Satisfied
  <2>6. CanStillMove(p, u)'
    BY <1>1, <2>1, <2>2, <2>3, <2>5 DEF CanStillMove, InputsExist
  <2> QED
    BY <2>1, <2>6
<1>8. CASE to # state[t] /\ p # t /\ t \in Below(p)
  <2>0. PICK q : q = Owner(t)
    OBVIOUS
  <2>1. p \in Range(Above[t]) /\ Supervises(p)
    BY <1>4, <1>8 DEF Below
  <2>2. /\ q # None /\ q \in Ticket /\ Supervises(q) /\ q \in Range(Above[t])
        /\ q = p \/ p \in Range(Above[q])
    BY <2>0, <2>1, OwnerIsAbove, OwnerIsNearest
  <2>3. CASE q = p
    <3>1. Hears(t, to, by) \in {None, p}
      BY <2>0, <2>3 DEF Hears
    <3>2. Hears(t, to, by) # p
      <4>1. ~HoldsByBlock(p)'
        BY DEF HoldsByBlock, Released
      <4> QED
        BY <1>1, <4>1, HeardIsHeld
    <3>3. by = None /\ Hears(t, to, by) = None /\ p \notin claimed
      BY <1>3, <1>4, <1>8, <2>1, <3>1, <3>2 DEF ClaimIsHeld
    <3>4. state[p] \in TerminalEvent /\ to \notin Terminal
      BY <1>8, <2>0, <2>2, <2>3, <3>3 DEF Hears
    <3>5. {state[t], to} \subseteq Supervising \cup Doors
      <4>1. Edge(state[t], to) /\ state[t] \in State
        BY <1>1 DEF MovesAlong
      <4> QED
        BY <1>8, <3>4, <4>1 DEF MovesAreNews
    <3>6. Prior[t] = {} /\ (to \in Supervising => <<t, to>> \notin Needs)
      BY <2>1, <3>5 DEF WakeInv, BornToSupervise, SupervisorsAreFree
    <3>7. state'[t] = to /\ t \in Open(p)'
      BY <1>1, <1>8, <3>4 DEF Open, Below
    <3>8. to \in Supervising \cup Gating
      BY <3>5 DEF Doors
    <3>9. CanStillMove(p, t)'
      BY <3>6, <3>7, <3>8 DEF CanStillMove, PriorBlocks, InputsExist
    <3> QED
      BY <3>7, <3>9
  <2>4. CASE q # p
    <3>1. p \in Range(Above[q]) /\ q # t
      BY <2>2, <2>4 DEF TreeOfTickets
    <3>2. Start[q] \in Supervising \cup Doors
      BY <2>2 DEF WakeInv, BornToSupervise, Supervises
    <3>3. Prior[q] = {} /\ \A s \in Supervising : <<q, s>> \notin Needs
      BY <2>2, <3>1, <3>2 DEF SupervisorsAreFree
    <3>4. state'[q] = state[q] /\ state'[q] \in Supervising
      BY <1>1, <2>2, <3>1 DEF Supervises
    <3>5. q \in Open(p)'
      BY <2>2, <3>1, <3>4, SupervisingMachineAssumption DEF Open, Below
    <3>6. CanStillMove(p, q)'
      BY <3>3, <3>4 DEF CanStillMove, PriorBlocks, InputsExist
    <3> QED
      BY <3>5, <3>6
  <2> QED
    BY <2>3, <2>4
<1> QED
  BY <1>5, <1>6, <1>7, <1>8

\* Nobody is at work below a supervisor at work, so the run moves nothing
\* there; and what is moved by hand steers it.
LEMMA ShapesKeep ==
    ASSUME PoolInv, TogetherInv, WakeInv, TreeOfTickets, SupervisorsAreFree, EntryIsGuarded,
           [Next]_vars, NEW p \in Ticket
    PROVE  ShapeIsFresh(p)'
<1>0. /\ RunInv /\ PlanTyped /\ ShapeIsFresh(p) /\ StaysApart(p) /\ BornToSupervise(p)
      /\ Doors' = Doors /\ Below(p)' = Below(p)
  BY DEF PoolInv, RunInv, WakeInv, TogetherInv, Doors, Edge, Below
<1>1. ASSUME UNCHANGED state, steered \subseteq steered',
             p \in Active' => p \in Active /\ workers'[p].in = workers[p].in
                                           /\ workers'[p].shape = workers[p].shape
      PROVE  ShapeIsFresh(p)'
  <2>1. Shape(p)' = Shape(p)
    BY <1>0, <1>1 DEF Shape
  <2> QED
    BY <1>0, <1>1, <2>1 DEF ShapeIsFresh
<1>2. CASE UNCHANGED vars
  BY <1>1, <1>2 DEF vars, plan, history, Active
<1>3. CASE Begin \/ ReadPass \/ CallbacksDone \/ Refill \/ EndPass
  BY <1>1, <1>3 DEF Begin, ReadPass, CallbacksDone, Refill, EndPass, plan, history, Active
<1>4. CASE Active' = {}
  BY <1>4 DEF ShapeIsFresh
<1>5. CASE Die
  BY <1>4, <1>5 DEF Die, Active
<1>6. CASE Callback
  <2>1. Active = {} /\ workers' = workers
    BY <1>0, <1>6 DEF Callback, RunInv, PlacesStand
  <2> QED
    BY <1>4, <2>1 DEF Active
<1>7. CASE Fill
  <2> DEFINE item == Head(queue)
  <2>1. UNCHANGED <<state, steered>>
    BY <1>7 DEF Fill, plan, history
  <2>2. CASE UNCHANGED workers
    BY <1>1, <2>1, <2>2 DEF Active
  <2>3. CASE workers' = With(workers, item.ticket, WorkerFor(item.ticket, item.in))
    <3>1. /\ Active' = Active \cup {item.ticket}
          /\ workers'[item.ticket] = WorkerFor(item.ticket, item.in)
          /\ \A u \in Active \ {item.ticket} : workers'[u] = workers[u]
      BY <2>3 DEF Active, With
    <3> HIDE DEF item
    <3>2. CASE p # item.ticket
      BY <1>1, <2>1, <3>1, <3>2
    <3>3. CASE p = item.ticket
      <4>1. workers'[p].in \in Supervising => workers'[p].shape = Shape(p)
        BY <3>1, <3>3 DEF WorkerFor
      <4>2. Shape(p)' = Shape(p)
        BY <1>0, <2>1 DEF Shape
      <4> QED
        BY <4>1, <4>2 DEF ShapeIsFresh
    <3> QED
      BY <3>2, <3>3
  <2> QED
    BY <1>7, <2>2, <2>3 DEF Fill
<1>8. ASSUME NEW t \in Ticket, Handle(t)
      PROVE  ShapeIsFresh(p)'
  <2>1. /\ t \in Active /\ Active' = Active \ {t} /\ steered' = steered
        /\ \A u \in Active' : workers'[u] = workers[u]
    BY <1>0, <1>8, HandleIs DEF Handle, history
  <2>2. CASE UNCHANGED plan
    BY <1>1, <2>1, <2>2 DEF plan
  <2>3. ASSUME NEW to \in State, MovesAlong(t, to, None)
        PROVE  ShapeIsFresh(p)'
    <3> SUFFICES ASSUME p \in Active', p \notin steered', state'[p] \in Supervising \cup Doors,
                        workers'[p].in \in Supervising
                 PROVE  workers'[p].shape = Shape(p)'
      BY <1>0 DEF ShapeIsFresh
    <3>1. state[p] \in Supervising \cup Doors
      BY <1>0, <2>3, BirthsKeep
    <3>2. t \notin Below(p)
      BY <1>0, <2>1, <3>1 DEF StaysApart, Engaged
    <3>3. Shape(p)' = Shape(p)
      BY <1>0, <2>3, <3>2, MovesElsewhere DEF MovesAlong
    <3> QED
      BY <1>0, <2>1, <3>1, <3>3 DEF ShapeIsFresh
  <2>4. CASE ~UNCHANGED plan
    <3>1. PICK to \in State : MovedByRun(t, to)
      BY <1>8, <2>4, HandledWell
    <3> QED
      BY <2>3, <3>1 DEF MovedByRun
  <2> QED
    BY <2>2, <2>4
<1>9. CASE WorkerStep
  <2>1. UNCHANGED <<state, steered>>
    BY <1>9 DEF WorkerStep, Ends, WriteBrief, history
  <2>2. ASSUME NEW t \in Ticket, Ends(t)
        PROVE  ShapeIsFresh(p)'
    <3>1. PICK how : workers' = [workers EXCEPT ![t].exit = how]
      BY <2>2 DEF Ends
    <3>2. Active' = Active
      BY <3>1 DEF Active
    <3>3. p \in Active => workers'[p].in = workers[p].in /\ workers'[p].shape = workers[p].shape
      BY <3>1 DEF Active
    <3> QED
      BY <1>1, <2>1, <3>2, <3>3
  <2>3. ASSUME NEW t \in Ticket, NEW r \in Ticket, WriteBrief(r, t)
        PROVE  ShapeIsFresh(p)'
    BY <1>1, <2>1, <2>3 DEF WriteBrief, Active
  <2> QED
    BY <1>9, <2>2, <2>3 DEF WorkerStep
<1>10. ASSUME NEW t \in Ticket, NEW to \in State, NEW by \in Ticket \cup {None},
              CommandTransition(t, to, by)
       PROVE  ShapeIsFresh(p)'
  <2>1. /\ MovesAlong(t, to, by) /\ workers' = workers /\ steered \subseteq steered'
        /\ \A r \in Range(Above[t]) : r \in Active => r \in steered'
    BY <1>10 DEF CommandTransition, Given, Transition, Edge, MovesAlong
  <2> SUFFICES ASSUME p \in Active', p \notin steered', state'[p] \in Supervising \cup Doors,
                      workers'[p].in \in Supervising
               PROVE  workers'[p].shape = Shape(p)'
    BY <1>0 DEF ShapeIsFresh
  <2>2. p \in Active /\ p \notin steered
    BY <2>1 DEF Active
  <2>3. state[p] \in Supervising \cup Doors
    BY <1>0, <2>1, BirthsKeep
  <2>4. t \notin Below(p)
    BY <2>1, <2>2 DEF Below
  <2>5. Shape(p)' = Shape(p)
    BY <1>0, <2>1, <2>4, MovesElsewhere DEF MovesAlong
  <2> QED
    BY <1>0, <2>1, <2>2, <2>3, <2>5 DEF ShapeIsFresh
<1>11. ASSUME NEW t \in Ticket, CommandClaim(t) \/ CommandRelease(t)
       PROVE  ShapeIsFresh(p)'
  BY <1>1, <1>11 DEF CommandClaim, CommandRelease, Given, Claim, GiveBack, Active
<1> QED
  BY <1>2, <1>3, <1>5, <1>6, <1>7, <1>8, <1>9, <1>10, <1>11 DEF Next, RunStep, CommandStep

LEMMA WakeKeeps ==
    ASSUME PoolInv, TogetherInv, WakeInv, TreeOfTickets, MovesAreNews, SupervisorsAreFree,
           EntryIsGuarded, [Next]_vars
    PROVE  WakeInv'
<1> SUFFICES ASSUME NEW p \in Ticket
             PROVE  ClaimIsHeld(p)' /\ BornToSupervise(p)' /\ ShapeIsFresh(p)' /\ GoesOnBelow(p)'
  BY DEF WakeInv
<1>1. PlanTyped /\ ClaimIsHeld(p) /\ BornToSupervise(p) /\ GoesOnBelow(p) /\ Doors' = Doors
  BY DEF PoolInv, RunInv, WakeInv, Doors, Edge
<1>2. ShapeIsFresh(p)'
  BY ShapesKeep
<1>3. CASE QuietStep \/ UNCHANGED vars
  <2>1. /\ UNCHANGED <<state, block>> /\ steered \subseteq steered' /\ briefs \subseteq briefs'
        /\ \A t \in claimed' \ claimed : Ready(t, {})
    BY <1>3 DEF QuietStep, SameStands, vars, plan, history
  <2>2. ClaimIsHeld(p)'
    <3>1. p \in claimed' \ claimed /\ Supervises(p) => Holds(p)
      BY <2>1 DEF Ready, Due
    <3>2. block[p] = Released => ~Holds(p)
      BY ReleasedIsNotHeld
    <3> QED
      BY <1>1, <2>1, <3>1, <3>2 DEF ClaimIsHeld, Supervises, Released
  <2>3. BornToSupervise(p)'
    BY <1>1, <2>1 DEF BornToSupervise
  <2>4. GoesOnBelow(p)'
    <3>1. Open(p)' = Open(p) /\ Open(p) \subseteq Ticket
      BY <2>1 DEF Open, Below
    <3>2. \A u \in Ticket : CanStillMove(p, u) => CanStillMove(p, u)'
      BY <2>1 DEF CanStillMove, PriorBlocks, Satisfied, InputsExist, Below
    <3> QED
      BY <1>1, <2>1, <3>1, <3>2 DEF GoesOnBelow, Supervises, Released
  <2> QED
    BY <1>2, <2>2, <2>3, <2>4
<1>4. ASSUME NEW t \in Ticket, NEW to \in State, MovedByRun(t, to)
      PROVE  ClaimIsHeld(p)' /\ BornToSupervise(p)' /\ GoesOnBelow(p)'
  <2>1. MovesAlong(t, to, None) /\ Move(t, to, None) /\ steered' = steered /\ LetsGoWell(t, to)
    BY <1>4 DEF MovedByRun, MovesAlong
  <2>2. GoesOnBelow(p)'
    BY <1>1, <2>1, MovesGoOn
  <2> QED
    BY <1>1, <2>1, <2>2, ClaimsKeepHeld, BirthsKeep
<1>5. ASSUME NEW t \in Ticket, NEW to \in State, NEW by \in Ticket \cup {None}, MovedByHand(t, to, by)
      PROVE  ClaimIsHeld(p)' /\ BornToSupervise(p)' /\ GoesOnBelow(p)'
  <2>1. /\ MovesAlong(t, to, by) /\ Move(t, to, by) /\ steered \subseteq steered'
        /\ t \in steered' \/ LetsGoWell(t, to)
        /\ Hears(t, to, by) = None => Range(Above[t]) \subseteq steered'
    BY <1>5 DEF MovedByHand, MovesAlong, LetsGoWell
  <2>2. GoesOnBelow(p)'
    BY <1>1, <2>1, MovesGoOn
  <2> QED
    BY <1>1, <2>1, <2>2, ClaimsKeepHeld, BirthsKeep
<1>6. Next => ClaimIsHeld(p)' /\ BornToSupervise(p)' /\ GoesOnBelow(p)'
  BY <1>3, <1>4, <1>5, WakeSteps
<1> QED
  BY <1>2, <1>3, <1>6

\* A subtree that was let go can move without its supervisor, in a tree whose
\* supervisors hear of the moves below them and where those below another wait
\* for nothing: an edge onto itself is taken only while something below can
\* move (withhold_empty_supervising_visit, on the shape the visit began on),
\* and apply_supervision_transition holds the subtree again for the next move
\* in it.  Nobody claims beside a run, as for NeverTogether.
THEOREM SupervisorsAreWoken ==
    ASSUME "claim" \notin Beside, EntryIsGuarded, TreeOfTickets, MovesAreNews, SupervisorsAreFree
    PROVE  Spec => []NotStranded
<1>1. RunInit => WakeInv
  <2> SUFFICES ASSUME RunInit, NEW p \in Ticket
               PROVE  ClaimIsHeld(p) /\ BornToSupervise(p) /\ ShapeIsFresh(p) /\ GoesOnBelow(p)
    BY DEF WakeInv
  <2>1. claimed = {} /\ state = Start /\ block[p] = None /\ Active = {}
    BY DEF RunInit, SupervisionInit, Active
  <2>2. Released # None
    BY ReleasedIsNotHeld
  <2> QED
    BY <2>1, <2>2 DEF ClaimIsHeld, BornToSupervise, ShapeIsFresh, GoesOnBelow
<1>2. WakeInv => NotStranded
  BY DEF WakeInv, GoesOnBelow, NotStranded
<1>3. PoolInv /\ TogetherInv /\ WakeInv /\ [Next]_vars => WakeInv'
  BY WakeKeeps
<1>4. RunInit => TogetherInv
  BY DEF RunInit, SupervisionInit, TogetherInv, StaysApart, Engaged, Active, Queued
<1>5. PoolInv /\ TogetherInv /\ [Next]_vars => TogetherInv'
  BY TogetherKeeps
<1> QED
  BY <1>1, <1>2, <1>3, <1>4, <1>5, PoolInvariant, PTL DEF Spec

-----------------------------------------------------------------------------
(* Empty visits.  The hold of one stands until the ledger has grown, and a *)
(* ticket that is held is in no batch.                                     *)

HoldsStand ==
    \A t \in empty : t \in stalled /\ t \in DOMAIN heldAt /\ heldAt[t] = ledger

CallsApart ==
    pc = "callbacks" => \A i \in DOMAIN calls : calls[i].ticket \notin Queued

EmptyInv == HoldsStand /\ Queued \cap empty = {} /\ CallsApart

LEMMA HoldsKeep ==
    ASSUME RunInv, HoldsStand, [Next]_vars
    PROVE  HoldsStand'
<1>1. CASE UNCHANGED stalls /\ (empty' = {} \/ UNCHANGED <<empty, ledger>>)
  BY <1>1 DEF HoldsStand, stalls
<1>2. CASE UNCHANGED vars
  BY <1>2 DEF HoldsStand, vars, stalls, since, plan
<1>3. CASE stalled' = {} /\ heldAt' = <<>> /\ empty' = {}
  BY <1>3 DEF HoldsStand
<1>4. CASE LetStallsGo /\ UNCHANGED ledger
  <2>1. \A t \in empty : t \in StillHeld
    BY DEF HoldsStand, StillHeld
  <2>2. empty' = empty /\ stalled' = StillHeld /\ heldAt' = [t \in StillHeld |-> heldAt[t]]
    BY <1>4 DEF LetStallsGo, since
  <2>3. DOMAIN heldAt' = StillHeld /\ \A t \in StillHeld : heldAt'[t] = heldAt[t]
    BY <2>2
  <2> QED
    BY <1>4, <2>1, <2>2, <2>3 DEF HoldsStand
<1>5. CASE \E t \in Ticket : stalled' = stalled \cup {t} /\ UNCHANGED <<heldAt, empty, ledger>>
  BY <1>5 DEF HoldsStand
<1>6. ASSUME NEW t \in Ticket, HoldEmptyVisit(t), UNCHANGED ledger
      PROVE  HoldsStand'
  <2>1. /\ stalled' = stalled \cup {t} /\ empty' = empty \cup {t}
        /\ DOMAIN heldAt' = DOMAIN heldAt \cup {t} /\ heldAt'[t] = ledger
        /\ \A u \in DOMAIN heldAt \ {t} : heldAt'[u] = heldAt[u]
    BY <1>6 DEF HoldEmptyVisit, Mark, With
  <2> QED
    BY <1>6, <2>1 DEF HoldsStand
<1> QED
  BY <1>1, <1>2, <1>3, <1>4, <1>5, <1>6, StallSteps

\* What is waiting for a worker, and what changes that.
LEMMA QueueSteps ==
    ASSUME PoolInv, Next
    PROVE  \/ Queued' \subseteq Queued
           \/ Queued' \cap stalled = {} /\ UNCHANGED empty
<1>0. RunInv
  BY DEF PoolInv
<1>1. CASE UNCHANGED queue
  BY <1>1 DEF Queued
<1>2. CASE Begin \/ Callback \/ CallbacksDone \/ EndPass \/ WorkerStep \/ CommandStep
  BY <1>1, <1>2, OthersKeep DEF SamePool
<1>3. CASE ReadPass
  <2>1. empty' = empty
    BY <1>3 DEF ReadPass, since
  <2>2. CASE Runnable({}) = {}
    BY <1>1, <1>3, <2>2 DEF ReadPass, pass
  <2>3. CASE Runnable({}) # {}
    <3>1. NewBatch(OnePerState(PassAgents, {}), Parallel)
      BY <1>0, <1>3, <2>3, ReadPassReads
    <3>2. Queued' \subseteq OnePerState(PassAgents, {})
      BY <3>1 DEF NewBatch, Queued
    <3> QED
      BY <2>1, <3>2 DEF OnePerState, PassAgents
  <2> QED
    BY <2>2, <2>3
<1>4. CASE Refill
  <2> DEFINE fresh == OnePerState(Startable \ answered, BusyStates)
  <2>1. queue = <<>> /\ UNCHANGED <<empty, workers>>
    BY <1>0, <1>4 DEF Refill, RunInv, PlacesStand, since
  <2>2. FreeSlots \in Nat
    BY <1>0, <2>1, ActiveIsFinite, RunAssumption DEF PoolInv, SlotsStand, FreeSlots
  <2>3. NewBatch(fresh \ stalled, FreeSlots)
    BY <1>0, <1>4, <2>2, RefillReads
  <2> HIDE DEF fresh
  <2>4. Queued' \subseteq fresh \ stalled
    BY <2>3 DEF NewBatch, Queued
  <2> QED
    BY <2>1, <2>4
<1>5. CASE Fill
  <2>1. /\ queue # <<>> /\ queue \in Seq(Item)
        /\ queue' \in Seq(Item) /\ Len(queue') = Len(queue) - 1
        /\ \A i \in 1..Len(queue') : queue'[i] = queue[i + 1]
    BY <1>0, <1>5, FillIs DEF RunInv, BatchTyped
  <2>2. \A i \in DOMAIN queue' : i + 1 \in DOMAIN queue /\ queue'[i] = queue[i + 1]
    BY <2>1
  <2> QED
    BY <2>2 DEF Queued
<1>6. CASE \E t \in Ticket : Handle(t)
  BY <1>0, <1>1, <1>6, HandleIs DEF pass
<1>7. CASE Die
  BY <1>7 DEF Die, Queued
<1> QED
  BY <1>2, <1>3, <1>4, <1>5, <1>6, <1>7 DEF Next, RunStep

LEMMA CallsKeepApart ==
    ASSUME PoolInv, CallsApart, Next
    PROVE  CallsApart'
<1>0. RunInv
  BY DEF PoolInv
<1>1. ASSUME pc' # "callbacks" \/ UNCHANGED <<pc, calls, queue>>
      PROVE  CallsApart'
  BY <1>1 DEF CallsApart, Queued
<1>2. CASE Begin \/ CallbacksDone \/ EndPass \/ WorkerStep \/ CommandStep \/ Die \/ Fill \/ Refill
           \/ \E t \in Ticket : Handle(t)
  <2>1. CASE Begin \/ CallbacksDone \/ EndPass \/ Die
    BY <1>1, <2>1 DEF Begin, CallbacksDone, EndPass, Die
  <2>2. CASE WorkerStep \/ CommandStep
    BY <1>1, <2>2
    DEF WorkerStep, CommandStep, Ends, WriteBrief, CommandTransition, CommandClaim, CommandRelease,
        Given, pass
  <2>3. CASE Fill \/ Refill
    BY <1>1, <2>3 DEF Fill, Refill, AfterBatch
  <2>4. CASE \E t \in Ticket : Handle(t)
    BY <1>0, <1>1, <2>4, HandleIs DEF AfterBatch
  <2> QED
    BY <1>2, <2>1, <2>2, <2>3, <2>4
<1>3. CASE Callback
  <2>1. pc = "callbacks" /\ calls # <<>> /\ calls \in Seq(Item) /\ calls' = Tail(calls) /\ Queued' = Queued
    BY <1>0, <1>3 DEF Callback, RunInv, BatchTyped, Queued
  <2>2. \A i \in DOMAIN calls' : i + 1 \in DOMAIN calls /\ calls'[i] = calls[i + 1]
    BY <2>1
  <2> QED
    BY <2>1, <2>2 DEF CallsApart
<1>4. CASE ReadPass
  <2>1. CASE Runnable({}) = {}
    BY <1>1, <1>4, <2>1 DEF ReadPass
  <2>2. CASE Runnable({}) # {}
    <3>1. /\ NewBatch(OnePerState(PassAgents, {}), Parallel) /\ calls' \in Seq(Item)
          /\ \A i \in 1..Len(calls') : calls'[i].ticket \in answered
      BY <1>0, <1>4, <2>2, ReadPassReads
    <3>2. \A t \in Queued' : t \notin answered
      BY <3>1 DEF NewBatch, Queued, OnePerState, PassAgents
    <3> QED
      BY <3>1, <3>2 DEF CallsApart
  <2> QED
    BY <2>1, <2>2
<1> QED
  BY <1>2, <1>3, <1>4 DEF Next, RunStep

LEMMA EmptyKeeps ==
    ASSUME PoolInv, EmptyInv, [Next]_vars
    PROVE  EmptyInv'
<1>0. RunInv
  BY DEF PoolInv
<1>1. CASE UNCHANGED vars
  BY <1>1 DEF EmptyInv, HoldsStand, CallsApart, Queued, vars, pass, stalls, since, plan
<1>2. CASE Next
  <2>1. HoldsStand' /\ CallsApart'
    BY <1>0, <1>2, HoldsKeep, CallsKeepApart DEF EmptyInv
  <2>2. \/ empty' \subseteq empty
        \/ \E t \in Ticket : empty' = empty \cup {t} /\ t \notin Queued /\ UNCHANGED queue
    <3>1. ASSUME NEW t \in Ticket, HoldEmptyVisit(t), pc = "callbacks" \/ pc = "pool",
                 pc = "callbacks" => calls # <<>> /\ t = Head(calls).ticket
          PROVE  empty' = empty \cup {t} /\ t \notin Queued
      <4>1. CASE pc = "pool"
        BY <1>0, <3>1, <4>1 DEF RunInv, PlacesStand, Queued, HoldEmptyVisit
      <4>2. CASE pc = "callbacks"
        <5>1. calls \in Seq(Item) /\ calls # <<>> /\ t = Head(calls).ticket
          BY <1>0, <3>1, <4>2 DEF RunInv, BatchTyped
        <5>2. 1 \in DOMAIN calls /\ Head(calls) = calls[1]
          BY <5>1
        <5> QED
          BY <3>1, <4>2, <5>1, <5>2 DEF EmptyInv, CallsApart, HoldEmptyVisit
      <4> QED
        BY <3>1, <4>1, <4>2
    <3>2. ASSUME NEW t \in Ticket, HoldEmptyVisit(t), t \notin empty
          PROVE  UNCHANGED queue
      <4>1. empty' # empty
        BY <3>2 DEF HoldEmptyVisit
      <4>2. ~(ReadPass \/ Refill \/ Fill \/ Die)
        <5>1. ~(ReadPass \/ Refill \/ Die)
          BY <4>1 DEF ReadPass, Refill, Die, since
        <5>2. ~Fill
          BY <4>1 DEF Fill, KeepStalls, Stall, since
        <5> QED
          BY <5>1, <5>2
      <4>3. CASE \E u \in Ticket : Handle(u)
        BY <1>0, <4>3, HandleIs DEF pass
      <4>4. CASE Begin \/ Callback \/ CallbacksDone \/ EndPass \/ WorkerStep \/ CommandStep
        BY <4>4, OthersKeep DEF SamePool
      <4> QED
        BY <1>2, <4>2, <4>3, <4>4 DEF Next, RunStep
    <3> QED
      BY <1>0, <1>2, <3>1, <3>2, StallSteps DEF since, LetStallsGo
  <2>3. (Queued \cap empty)' = {}
    <3>1. CASE empty' \subseteq empty /\ Queued' \subseteq Queued
      BY <3>1 DEF EmptyInv
    <3>2. CASE Queued' \cap stalled = {} /\ UNCHANGED empty
      BY <3>2 DEF EmptyInv, HoldsStand
    <3>3. CASE \E t \in Ticket : empty' = empty \cup {t} /\ t \notin Queued /\ UNCHANGED queue
      BY <3>3 DEF EmptyInv, Queued
    <3> QED
      BY <1>2, <2>2, <3>1, <3>2, <3>3, QueueSteps
  <2> QED
    BY <2>1, <2>3 DEF EmptyInv
<1> QED
  BY <1>1, <1>2

\* Only the start of an item adds a worker.
LEMMA WorkersBegin ==
    ASSUME PoolInv, [Next]_vars, NEW t \in Active' \ Active
    PROVE  t \in Queued
<1>0. RunInv
  BY DEF PoolInv
<1>1. CASE UNCHANGED vars \/ ReadPass \/ Refill
  BY <1>1 DEF vars, ReadPass, Refill, Active
<1>2. CASE Begin \/ Callback \/ CallbacksDone \/ EndPass \/ WorkerStep \/ CommandStep
  BY <1>2, OthersKeep DEF SamePool
<1>3. CASE Die \/ \E u \in Ticket : Handle(u)
  <2>1. Die => Active' = {}
    BY DEF Die, Active
  <2>2. \A u \in Ticket : Handle(u) => Active' \subseteq Active
    BY <1>0, HandleIs
  <2> QED
    BY <1>3, <2>1, <2>2
<1>4. CASE Fill
  <2>1. queue # <<>> /\ queue \in Seq(Item) /\ Head(queue) = queue[1] /\ t = Head(queue).ticket
    BY <1>0, <1>4, FillIs DEF Active, RunInv, BatchTyped
  <2>2. 1 \in DOMAIN queue
    BY <2>1
  <2> QED
    BY <2>1, <2>2 DEF Queued
<1> QED
  BY <1>1, <1>2, <1>3, <1>4 DEF Next, RunStep

\* Within one run a supervisor is visited again after an empty visit only
\* when something has moved since (EmptyVisitHolds): not after its stall was
\* let go at the end of a pass, nor out of a batch that was read before.
THEOREM EmptyVisitsWait == Spec => OneEmptyVisitPerAdvance
<1>1. RunInit => EmptyInv
  BY DEF RunInit, EmptyInv, HoldsStand, CallsApart, Queued
<1>2. PoolInv /\ EmptyInv /\ [Next]_vars => EmptyInv'
  BY EmptyKeeps
<1>3. PoolInv /\ EmptyInv /\ [Next]_vars => [\A t \in DOMAIN workers' \ Active : t \notin empty]_vars
  BY WorkersBegin DEF EmptyInv, Active
<1> QED
  BY <1>1, <1>2, <1>3, PoolInvariant, PTL DEF Spec, OneEmptyVisitPerAdvance

-----------------------------------------------------------------------------
(* Every ticket is tried.  While nothing has moved, what is ready now was  *)
(* ready when the pass was read, and what the pass did not get to it put   *)
(* off; a pass that put something off has something new among the stalls,  *)
(* or goes on.                                                             *)

InPass == {"callbacks", "fill", "pool", "refill", "tail"}

Called == {calls[i].ticket : i \in DOMAIN calls}

AtWork(t, in) == state[t] = in /\ (in \in Supervising => Holds(t))

\* Nothing has moved since the items were read.
AsRead ==
    pc \in InPass /\ alone /\ ~advanced =>
        /\ \A i \in DOMAIN queue : AtWork(queue[i].ticket, queue[i].in)
        /\ \A t \in Active : AtWork(t, workers[t].in)
        /\ \A i \in DOMAIN calls : calls[i].in = state[calls[i].ticket]

StalledApart == stalled \cap (Active \cup Queued) = {}

\* A hold that still stands is one of something tried since the last move, and
\* so is every stall unless there was progress since stalls were let go.
HoldsAge ==
    \A t \in DOMAIN heldAt :
        heldAt[t] \in Nat /\ heldAt[t] <= ledger /\ (heldAt[t] = ledger => t \in tried)

StallsAge ==
    /\ alone /\ ~progress
    /\ pc = "top" \/ (pc \in InPass /\ ~advanced)
    => stalled \subseteq tried

\* A pass that found work has some of it left, or a new stall to show for it.
WorkShows ==
    pc \in InPass =>
        /\ stalledBefore \in Nat /\ stalledBefore <= Cardinality(stalled)
        /\ ~advanced => \/ offered = {} \/ queue # <<>> \/ Active # {}
                        \/ stalledBefore < Cardinality(stalled)

Accounted ==
    pc \in InPass /\ alone /\ ~advanced =>
        \A t \in Runnable({}) :
            \/ t \in stalled \/ t \in offered
            \/ t \in answered /\ (~Takes(t, state[t]) \/ t \in Called)

CallsEnd == pc \in {"fill", "pool", "refill", "tail"} => calls = <<>>

TriedInv == AsRead /\ StalledApart /\ HoldsAge /\ StallsAge /\ WorkShows /\ Accounted /\ CallsEnd

\* The steps of a pass in which nothing has moved: it is read, or goes on with
\* the plan, the offer and the count it was read with; a worker may leave its
\* outputs, a supervisor a brief, and what is tried in vain is stalled.
LEMMA QuietSteps ==
    ASSUME RunInv, Next, pc' \in InPass, alone', ~advanced'
    PROVE  \/ ReadPass /\ Runnable({}) # {}
           \/ /\ pc \in InPass /\ alone /\ ~advanced
              /\ UNCHANGED <<state, entered, block, claimed, ledger, progress, offered, stalledBefore>>
              /\ answered \subseteq answered'
              /\ \E N \in SUBSET Ticket : stalled' = stalled \cup N /\ tried \cup N \subseteq tried'
              /\ \/ Callback \/ CallbacksDone \/ Fill \/ Refill \/ WorkerStep
                 \/ \E t \in Ticket : Handle(t)
<1> DEFINE Quiet == /\ pc \in InPass /\ alone /\ ~advanced
                    /\ UNCHANGED <<state, entered, block, claimed, ledger, progress, offered, stalledBefore>>
                    /\ answered \subseteq answered'
           Stalls == \E N \in SUBSET Ticket : stalled' = stalled \cup N /\ tried \cup N \subseteq tried'
<1>1. (KeepStalls \/ UNCHANGED <<stalled, tried>>) => Stalls
  <2> SUFFICES ASSUME stalled' = stalled, tried' = tried PROVE Stalls
    BY DEF KeepStalls, stalls, since
  <2>1. {} \in SUBSET Ticket /\ stalled' = stalled \cup {} /\ tried \cup {} \subseteq tried'
    OBVIOUS
  <2> QED
    BY <2>1
<1>2. ASSUME NEW t \in Ticket, Stall(t) \/ HoldEmptyVisit(t)
      PROVE  Stalls
  BY <1>2 DEF Stall, HoldEmptyVisit
<1>3. CASE ReadPass
  BY <1>3 DEF ReadPass, InPass
<1>4. CASE Begin \/ EndPass \/ Die
  BY <1>4 DEF Begin, EndPass, Die, InPass
<1>5. CASE CommandStep
  BY <1>5 DEF CommandStep, CommandTransition, CommandClaim, CommandRelease, Given
<1>6. CASE CallbacksDone \/ Refill
  BY <1>1, <1>6 DEF CallbacksDone, Refill, InPass, plan, pass, stalls, since, history
<1>7. CASE WorkerStep
  <2>1. /\ UNCHANGED <<state, entered, block, claimed, ledger, progress, offered, stalledBefore>>
        /\ UNCHANGED <<pc, alone, advanced, stalled, tried>>
        /\ answered \subseteq answered'
    BY <1>7 DEF WorkerStep, Ends, WriteBrief, pass, stalls, since, history
  <2> QED
    BY <1>1, <1>7, <2>1
<1>8. CASE Callback
  <2>1. calls \in Seq(Item) /\ calls # <<>>
    BY <1>8 DEF Callback, RunInv, BatchTyped
  <2>2. Head(calls) \in Item
    BY <2>1
  <2>3. Head(calls).ticket \in Ticket
    BY <2>2 DEF Item
  <2>4. /\ KeepStalls \/ HoldEmptyVisit(Head(calls).ticket)
        /\ UNCHANGED <<plan, advanced>>
    BY <1>8 DEF Callback
  <2>5. Stalls
    BY <1>1, <1>2, <2>3, <2>4
  <2>6. Quiet
    BY <1>8, <2>4 DEF Callback, InPass, plan, history
  <2> QED
    BY <1>8, <2>5, <2>6
<1>9. CASE Fill
  <2>1. Head(queue).ticket \in Ticket
    BY <1>9, FillIs DEF Item
  <2>2. KeepStalls \/ Stall(Head(queue).ticket)
    BY <1>9 DEF Fill
  <2>3. Stalls
    BY <1>1, <1>2, <2>1, <2>2
  <2>4. Quiet
    BY <1>9 DEF Fill, InPass, plan, history
  <2> QED
    BY <1>9, <2>3, <2>4
<1>10. ASSUME NEW t \in Ticket, Handle(t)
       PROVE  Quiet /\ Stalls
  <2>1. /\ Stall(t) \/ HoldEmptyVisit(t)
        /\ UNCHANGED <<plan, advanced>>
    BY <1>10 DEF Handle
  <2>2. Quiet
    BY <1>10, <2>1 DEF Handle, InPass, plan, pass, history
  <2> QED
    BY <1>2, <2>1, <2>2
<1> QED
  BY <1>3, <1>4, <1>5, <1>6, <1>7, <1>8, <1>9, <1>10 DEF Next, RunStep

LEMMA ItemsAreComplete ==
    ASSUME NEW S \in SUBSET Ticket, NEW t \in S
    PROVE  \E i \in DOMAIN Items(S) : Items(S)[i].ticket = t
<1> DEFINE L == InOrder(S)
<1>1. PICK i \in 1..Len(Plan) : Plan[i] = t
  BY SupervisedPlanAssumption DEF Ticket, Range
<1>2. L \in Seq(S)
  BY KeptType, SupervisedPlanAssumption DEF InOrder
<1>3. \E n \in 1..Len(L) : L[n] = t
  <2>1. Plan \in Seq(Ticket) /\ Plan[i] \in S
    BY <1>1, SupervisedPlanAssumption
  <2>2. \E n \in 1..Len(Kept(Plan, S)) : Kept(Plan, S)[n] = Plan[i]
    BY <2>1, KeptIsComplete
  <2> QED
    BY <1>1, <2>2 DEF InOrder
<1>4. Items(S) = [n \in 1..Len(L) |-> [ticket |-> L[n], in |-> state[L[n]]]]
  BY <1>2 DEF Items
<1> HIDE DEF L
<1> QED
  BY <1>3, <1>4

\* Where there is work, one of it may begin.
LEMMA SomeAreFirst ==
    ASSUME NEW S \in SUBSET Ticket, S # {}
    PROVE  OnePerState(S, {}) # {}
<1> DEFINE places == {i \in 1..Len(Plan) : Plan[i] \in S}
<1>1. Plan \in Seq(Ticket) /\ DOMAIN Plan = 1..Len(Plan) /\ Len(Plan) \in Nat
  BY SupervisedPlanAssumption
<1>2. ASSUME NEW t \in Ticket
      PROVE  Place(t) \in 1..Len(Plan) /\ Plan[Place(t)] = t
  <2>1. \E i \in DOMAIN Plan : Plan[i] = t
    BY DEF Ticket, Range
  <2> QED
    BY <1>1, <2>1 DEF Place
<1>3. places # {} /\ places \in SUBSET (1..Len(Plan))
  BY <1>1, <1>2
<1>4. PICK i \in places : \A j \in places : i <= j
  <2> HIDE DEF places
  <2> QED
    BY <1>1, <1>3, FirstPlace
<1>5. Plan[i] \in S /\ Plan[i] \in Ticket
  BY <1>4
<1>6. Place(Plan[i]) = i
  <2>1. \A j \in DOMAIN Plan : Plan[j] = Plan[i] => j = i
    BY <1>1, <1>4, SupervisedPlanAssumption DEF IsInjective
  <2> QED
    BY <1>1, <1>2, <1>5, <2>1
<1>7. \A u \in S : Place(u) \in places
  BY <1>2
<1>8. Plan[i] \in OnePerState(S, {})
  BY <1>4, <1>5, <1>6, <1>7 DEF OnePerState
<1> QED
  BY <1>8

\* What a pass is read with, its items complete.
LEMMA PassIsRead ==
    ASSUME RunInv, ReadPass, Runnable({}) # {}
    PROVE  /\ UNCHANGED <<plan, stalls, since, progress, workers, history>>
           /\ pc' = "callbacks" /\ ~advanced' /\ offered' = PassAgents
           /\ stalledBefore' = Cardinality(stalled)
           /\ calls' = Items((Runnable({}) \ stalled) \cap answered)
           /\ offered' # {} => queue' # <<>>
<1>1. /\ UNCHANGED <<plan, stalls, since, progress, workers, history>>
      /\ pc' = "callbacks" /\ ~advanced' /\ offered' = PassAgents
      /\ stalledBefore' = Cardinality(stalled)
      /\ calls' = Items((Runnable({}) \ stalled) \cap answered)
      /\ queue' = FirstOf(Items(OnePerState(PassAgents, {})), Parallel)
  BY DEF ReadPass, PassAgents
<1>2. ASSUME PassAgents # {}
      PROVE  queue' # <<>>
  <2> DEFINE first == OnePerState(PassAgents, {})
  <2>1. PassAgents \in SUBSET Ticket
    BY DEF PassAgents, Runnable
  <2>2. first # {} /\ first \in SUBSET Ticket
    BY <1>2, <2>1, SomeAreFirst DEF OnePerState
  <2>3. \E i \in DOMAIN Items(first) : TRUE
    <3> HIDE DEF first
    <3> QED
      BY <2>2, ItemsAreComplete
  <2>4. Items(first) \in Seq(Item) /\ Parallel \in Nat \ {0} /\ queue' = FirstOf(Items(first), Parallel)
    <3> HIDE DEF first
    <3> QED
      BY <1>1, <2>2, ItemsAreListed, RunAssumption DEF RunInv, PlanTyped, first
  <2> HIDE DEF first
  <2> DEFINE n == IF Len(Items(first)) < Parallel THEN Len(Items(first)) ELSE Parallel
  <2>5. n \in 1..Len(Items(first)) /\ queue' = SubSeq(Items(first), 1, n)
    BY <2>3, <2>4 DEF FirstOf
  <2> HIDE DEF n
  <2>6. Len(queue') = n
    BY <2>4, <2>5
  <2> QED
    BY <2>5, <2>6
<1> QED
  BY <1>1, <1>2

LEMMA AtWorkStays ==
    ASSUME NEW t, NEW in, AtWork(t, in), UNCHANGED <<state, block>>
    PROVE  AtWork(t, in)'
  BY DEF AtWork, Holds, Supervises

LEMMA ReadyIsAtWork ==
    ASSUME NEW t, NEW running, Ready(t, running)
    PROVE  AtWork(t, state[t])
  BY DEF Ready, Due, AtWork, Supervises

LEMMA AsReadKeeps ==
    ASSUME PoolInv, AsRead, Next
    PROVE  AsRead'
<1> SUFFICES ASSUME pc' \in InPass, alone', ~advanced'
             PROVE  /\ \A i \in DOMAIN queue' : AtWork(queue[i].ticket, queue[i].in)'
                    /\ \A t \in Active' : AtWork(t, workers[t].in)'
                    /\ \A i \in DOMAIN calls' : calls'[i].in = state'[calls'[i].ticket]
  BY DEF AsRead, InPass
<1>0. RunInv
  BY DEF PoolInv
<1>1. CASE ReadPass /\ Runnable({}) # {}
  <2>1. /\ UNCHANGED <<state, block>> /\ Active' = {}
        /\ calls' = Items((Runnable({}) \ stalled) \cap answered)
        /\ NewBatch(OnePerState(PassAgents, {}), Parallel)
    BY <1>0, <1>1, PassIsRead, ReadPassReads DEF plan, Active, ReadPass, RunInv, PlacesStand
  <2>2. \A i \in DOMAIN calls' : calls'[i].in = state[calls'[i].ticket]
    <3> DEFINE mine == (Runnable({}) \ stalled) \cap answered
    <3>1. mine \in SUBSET Ticket /\ calls' = Items(mine) /\ state \in [Ticket -> State]
      BY <1>0, <2>1 DEF Runnable, RunInv, PlanTyped
    <3> HIDE DEF mine
    <3> QED
      BY <3>1, ItemsAreListed
  <2>3. \A t \in OnePerState(PassAgents, {}) : AtWork(t, state[t])
    BY ReadyIsAtWork DEF OnePerState, PassAgents, Runnable
  <2>4. \A i \in DOMAIN queue' : AtWork(queue'[i].ticket, queue'[i].in)
    BY <2>1, <2>3 DEF NewBatch
  <2>5. \A i \in DOMAIN queue' : AtWork(queue[i].ticket, queue[i].in)'
    BY <2>1, <2>4 DEF AtWork, Holds, Supervises
  <2> QED
    BY <2>1, <2>2, <2>5
<1>2. CASE /\ pc \in InPass /\ alone /\ ~advanced
           /\ UNCHANGED <<state, entered, block, claimed, ledger, progress, offered, stalledBefore>>
           /\ \/ Callback \/ CallbacksDone \/ Fill \/ Refill \/ WorkerStep
              \/ \E t \in Ticket : Handle(t)
  <2>1. /\ \A i \in DOMAIN queue : AtWork(queue[i].ticket, queue[i].in)
        /\ \A t \in Active : AtWork(t, workers[t].in)
        /\ \A i \in DOMAIN calls : calls[i].in = state[calls[i].ticket]
    BY <1>2 DEF AsRead
  <2>2. \A t, in : AtWork(t, in) => AtWork(t, in)'
    BY <1>2, AtWorkStays
  <2>3. state' = state
    BY <1>2
  <2>4. CASE Callback
    <3>1. /\ calls \in Seq(Item) /\ calls # <<>> /\ calls' = Tail(calls)
          /\ UNCHANGED <<queue, workers>>
      BY <1>0, <2>4 DEF Callback, RunInv, BatchTyped
    <3>2. \A i \in DOMAIN calls' : i + 1 \in DOMAIN calls /\ calls'[i] = calls[i + 1]
      BY <3>1
    <3> QED
      BY <2>1, <2>2, <2>3, <3>1, <3>2 DEF AtWork, Holds, Supervises, Active
  <2>5. CASE CallbacksDone
    BY <2>1, <2>2, <2>3, <2>5 DEF CallbacksDone, pass, Active, AtWork, Holds, Supervises
  <2>6. CASE Fill
    <3>1. /\ queue # <<>> /\ queue \in Seq(Item) /\ Head(queue) = queue[1]
          /\ queue' \in Seq(Item) /\ Len(queue') = Len(queue) - 1
          /\ \A i \in 1..Len(queue') : queue'[i] = queue[i + 1]
          /\ UNCHANGED calls
          /\ \/ UNCHANGED workers
             \/ /\ Active' = Active \cup {Head(queue).ticket}
                /\ workers'[Head(queue).ticket].in = Head(queue).in
                /\ \A u \in Active \ {Head(queue).ticket} : workers'[u] = workers[u]
      BY <1>0, <2>6, FillIs DEF Fill, WorkerFor, RunInv, BatchTyped
    <3>2. 1 \in DOMAIN queue /\ \A i \in DOMAIN queue' : i + 1 \in DOMAIN queue /\ queue'[i] = queue[i + 1]
      BY <3>1
    <3>3. AtWork(Head(queue).ticket, Head(queue).in)
      BY <2>1, <3>1, <3>2
    <3>4. \A t \in Active' : AtWork(t, workers'[t].in)
      BY <2>1, <3>1, <3>3 DEF Active
    <3>5. \A i \in DOMAIN queue' : AtWork(queue'[i].ticket, queue'[i].in)
      BY <2>1, <3>2
    <3> QED
      BY <1>2, <2>1, <3>1, <3>4, <3>5 DEF AtWork, Holds, Supervises
  <2>7. CASE Refill
    <3>1. UNCHANGED <<calls, workers>> /\ Active' = Active
      BY <2>7 DEF Refill, Active
    <3>2. FreeSlots \in Nat
      BY <1>0, ActiveIsFinite, RunAssumption DEF PoolInv, SlotsStand, FreeSlots, RunInv, BatchTyped
    <3>3. NewBatch(OnePerState(Startable \ answered, BusyStates) \ stalled, FreeSlots)
      BY <1>0, <2>7, <3>2, RefillReads
    <3>4. \A t \in OnePerState(Startable \ answered, BusyStates) \ stalled : AtWork(t, state[t])
      BY ReadyIsAtWork DEF OnePerState, Startable, Runnable
    <3>5. \A i \in DOMAIN queue' : AtWork(queue'[i].ticket, queue'[i].in)
      <4> DEFINE fresh == OnePerState(Startable \ answered, BusyStates) \ stalled
      <4>1. NewBatch(fresh, FreeSlots) /\ \A t \in fresh : AtWork(t, state[t])
        BY <3>3, <3>4
      <4> HIDE DEF fresh
      <4> QED
        BY <4>1 DEF NewBatch
    <3> QED
      BY <1>2, <2>1, <3>1, <3>5 DEF AtWork, Holds, Supervises
  <2>8. CASE WorkerStep
    <3>1. UNCHANGED <<queue, calls, Active>> /\ \A u \in Active : workers'[u].in = workers[u].in
      BY <2>8, OthersKeep DEF SamePool, WorkerStep, Ends, WriteBrief, pass
    <3> QED
      BY <1>2, <2>1, <3>1 DEF AtWork, Holds, Supervises
  <2>9. CASE \E t \in Ticket : Handle(t)
    <3>1. UNCHANGED <<queue, calls>> /\ \A u \in Active' : u \in Active /\ workers'[u] = workers[u]
      BY <1>0, <2>9, HandleIs DEF pass
    <3> QED
      BY <1>2, <2>1, <3>1 DEF AtWork, Holds, Supervises
  <2> QED
    BY <1>2, <2>4, <2>5, <2>6, <2>7, <2>8, <2>9
<1> QED
  BY <1>0, <1>1, <1>2, QuietSteps

\* What is stalled is in no batch and has no worker.
LEMMA StalledKeepApart ==
    ASSUME PoolInv, CallsApart, StalledApart, Next
    PROVE  StalledApart'
<1>0. RunInv
  BY DEF PoolInv
<1>1. ASSUME stalled' \subseteq stalled, Active' \subseteq Active, Queued' \subseteq Queued
      PROVE  StalledApart'
  BY <1>1 DEF StalledApart
<1>2. CASE Begin \/ CallbacksDone \/ EndPass \/ WorkerStep \/ CommandStep
  <2>1. UNCHANGED <<queue, Active>> /\ Queued' = Queued
    BY <1>2, OthersKeep DEF SamePool, Queued
  <2>2. stalled' \subseteq stalled
    BY <1>2
    DEF Begin, CallbacksDone, EndPass, WorkerStep, CommandStep, Ends, WriteBrief, CommandTransition,
        CommandClaim, CommandRelease, Given, KeepStalls, LetStallsGo, StillHeld, stalls
  <2> QED
    BY <1>1, <2>1, <2>2
<1>3. CASE Callback
  <2>1. /\ pc = "callbacks" /\ calls \in Seq(Item) /\ calls # <<>> /\ UNCHANGED <<queue, workers>>
    BY <1>0, <1>3 DEF Callback, RunInv, BatchTyped
  <2>2. 1 \in DOMAIN calls /\ Head(calls) = calls[1]
    BY <2>1
  <2>3. Head(calls).ticket \notin Queued /\ Active = {} /\ Active' = Active /\ Queued' = Queued
    BY <1>0, <2>1, <2>2 DEF CallsApart, RunInv, PlacesStand, Active, Queued
  <2>4. stalled' \subseteq stalled \cup {Head(calls).ticket}
    BY <1>3 DEF Callback, HoldEmptyVisit, KeepStalls, stalls
  <2> QED
    BY <2>3, <2>4 DEF StalledApart
<1>4. CASE ReadPass \/ Refill
  <2>1. UNCHANGED <<stalled, workers>>
    BY <1>4 DEF ReadPass, Refill, stalls
  <2>2. Queued' \subseteq Queued \/ Queued' \cap stalled = {}
    BY QueueSteps
  <2> QED
    BY <2>1, <2>2 DEF StalledApart, Active
<1>5. CASE Fill
  <2> DEFINE first == Head(queue).ticket
  <2>1. /\ queue # <<>> /\ queue \in Seq(Item) /\ Head(queue) = queue[1]
        /\ queue' \in Seq(Item) /\ Len(queue') = Len(queue) - 1
        /\ \A i \in 1..Len(queue') : queue'[i] = queue[i + 1]
    BY <1>0, <1>5, FillIs DEF RunInv, BatchTyped
  <2>2. 1 \in DOMAIN queue /\ \A i \in DOMAIN queue' : i + 1 \in DOMAIN queue /\ queue'[i] = queue[i + 1] /\ i + 1 # 1
    BY <2>1
  <2>3. first \in Queued /\ first \notin Active /\ Queued' \subseteq Queued
    BY <2>1, <2>2 DEF Queued, PoolInv, SlotsStand, Distinct
  <2>4. first \notin Queued'
    BY <2>1, <2>2 DEF Queued, PoolInv, SlotsStand, Distinct
  <2>5. CASE UNCHANGED stalled
    <3>1. Active' \subseteq Active \cup {first}
      BY <1>0, <1>5, FillIs DEF Active
    <3> QED
      BY <2>3, <2>5, <3>1 DEF StalledApart
  <2>6. CASE Stall(first) /\ UNCHANGED workers
    BY <2>3, <2>4, <2>6 DEF StalledApart, Stall, Active
  <2> QED
    BY <1>5, <2>5, <2>6 DEF Fill, KeepStalls, stalls
<1>6. ASSUME NEW t \in Ticket, Handle(t)
      PROVE  StalledApart'
  <2>1. Active' = Active \ {t} /\ queue' = queue /\ queue = <<>>
    BY <1>0, <1>6, HandleIs DEF pass, RunInv, PlacesStand
  <2>2. stalled' \subseteq stalled \cup {t}
    BY <1>6 DEF Handle, Stall, HoldEmptyVisit, KeepStalls, stalls
  <2> QED
    BY <2>1, <2>2 DEF StalledApart, Queued
<1>7. CASE Die
  BY <1>7 DEF Die, StalledApart, Active, Queued
<1> QED
  BY <1>2, <1>3, <1>4, <1>5, <1>6, <1>7 DEF Next, RunStep

\* The ledger and what was tried since it last grew.
LEMMA TriedSteps ==
    ASSUME RunInv, Next
    PROVE  \/ UNCHANGED <<heldAt, ledger>> /\ tried \subseteq tried'
           \/ UNCHANGED heldAt /\ ledger' = ledger + 1
           \/ heldAt' = <<>>
           \/ LetStallsGo /\ UNCHANGED ledger
           \/ \E t \in Ticket : HoldEmptyVisit(t) /\ UNCHANGED ledger
<1> DEFINE G == \/ UNCHANGED <<heldAt, ledger>> /\ tried \subseteq tried'
                \/ UNCHANGED heldAt /\ ledger' = ledger + 1
                \/ heldAt' = <<>>
                \/ LetStallsGo /\ UNCHANGED ledger
                \/ \E t \in Ticket : HoldEmptyVisit(t) /\ UNCHANGED ledger
<1>1. CASE Begin \/ ReadPass \/ CallbacksDone \/ Refill \/ EndPass \/ Die
  BY <1>1 DEF Begin, ReadPass, CallbacksDone, Refill, EndPass, Die, KeepStalls, stalls, since, plan
<1>2. CASE WorkerStep
  BY <1>2 DEF WorkerStep, Ends, WriteBrief, stalls, since
<1>3. CASE Fill
  BY <1>3 DEF Fill, KeepStalls, Stall, stalls, since, plan
<1>4. CASE Callback
  <2>1. Head(calls).ticket \in Ticket
    <3>1. calls \in Seq(Item) /\ calls # <<>>
      BY <1>4 DEF Callback, RunInv, BatchTyped
    <3>2. Head(calls) \in Item
      BY <3>1
    <3> QED
      BY <3>2 DEF Item
  <2>2. \/ HoldEmptyVisit(Head(calls).ticket) /\ UNCHANGED ledger
        \/ UNCHANGED heldAt /\ ledger' = ledger + 1
        \/ UNCHANGED <<heldAt, ledger, tried>>
    BY <1>4 DEF Callback, Moves, Move, KeepStalls, stalls, since, plan
  <2> QED
    BY <2>1, <2>2
<1>5. ASSUME NEW t \in Ticket, Handle(t)
      PROVE  G
  <2>1. \/ HoldEmptyVisit(t) /\ UNCHANGED ledger
        \/ UNCHANGED heldAt /\ ledger' = ledger + 1
        \/ UNCHANGED <<heldAt, ledger>> /\ tried \subseteq tried'
    BY <1>5 DEF Handle, Moves, Move, KeepStalls, Stall, stalls, since, plan
  <2> QED
    BY <2>1
<1>6. CASE CommandStep
  <2>1. ASSUME NEW t \in Ticket, NEW to \in State, NEW by \in Ticket \cup {None},
               CommandTransition(t, to, by)
        PROVE  G
    BY <2>1 DEF CommandTransition, Given, Transition, Move, stalls, since
  <2>2. ASSUME NEW t \in Ticket, CommandClaim(t) \/ CommandRelease(t)
        PROVE  G
    BY <2>2 DEF CommandClaim, CommandRelease, Given, Claim, GiveBack, stalls, since
  <2> QED
    BY <1>6, <2>1, <2>2 DEF CommandStep
<1> QED
  BY <1>1, <1>2, <1>3, <1>4, <1>5, <1>6 DEF Next, RunStep

LEMMA HoldsKeepAge ==
    ASSUME RunInv, HoldsAge, Next
    PROVE  HoldsAge'
<1>0. ledger \in Nat
  BY DEF RunInv, PlanTyped
<1>1. CASE UNCHANGED <<heldAt, ledger>> /\ tried \subseteq tried'
  BY <1>1 DEF HoldsAge
<1>2. CASE UNCHANGED heldAt /\ ledger' = ledger + 1
  BY <1>0, <1>2 DEF HoldsAge
<1>3. CASE heldAt' = <<>>
  BY <1>3 DEF HoldsAge
<1>4. CASE LetStallsGo /\ UNCHANGED ledger
  <2>1. heldAt' = [t \in StillHeld |-> heldAt[t]] /\ tried' = tried /\ StillHeld \subseteq DOMAIN heldAt
    BY <1>4 DEF LetStallsGo, StillHeld, since
  <2>2. DOMAIN heldAt' \subseteq DOMAIN heldAt /\ \A t \in DOMAIN heldAt' : heldAt'[t] = heldAt[t]
    BY <2>1
  <2> QED
    BY <1>4, <2>1, <2>2 DEF HoldsAge
<1>5. ASSUME NEW t \in Ticket, HoldEmptyVisit(t), UNCHANGED ledger
      PROVE  HoldsAge'
  <2>1. /\ tried' = tried \cup {t}
        /\ DOMAIN heldAt' = DOMAIN heldAt \cup {t} /\ heldAt'[t] = ledger
        /\ \A u \in DOMAIN heldAt \ {t} : heldAt'[u] = heldAt[u]
    BY <1>5 DEF HoldEmptyVisit, Mark, With
  <2> QED
    BY <1>0, <1>5, <2>1 DEF HoldsAge
<1> QED
  BY <1>1, <1>2, <1>3, <1>4, <1>5, TriedSteps

LEMMA StallsKeepAge ==
    ASSUME RunInv, HoldsAge, StallsAge, Next
    PROVE  StallsAge'
<1> SUFFICES ASSUME alone', ~progress', pc' = "top" \/ (pc' \in InPass /\ ~advanced')
             PROVE  stalled' \subseteq tried'
  BY DEF StallsAge, InPass
<1>1. CASE pc' \in InPass /\ ~advanced'
  <2>1. CASE ReadPass /\ Runnable({}) # {}
    BY <2>1, PassIsRead DEF StallsAge, stalls, since, history, ReadPass
  <2>2. CASE /\ pc \in InPass /\ alone /\ ~advanced /\ UNCHANGED progress
             /\ \E N \in SUBSET Ticket : stalled' = stalled \cup N /\ tried \cup N \subseteq tried'
    BY <2>2 DEF StallsAge
  <2> QED
    BY <1>1, <2>1, <2>2, QuietSteps
<1>2. CASE pc' = "top"
  <2>1. CASE Begin
    BY <2>1 DEF Begin
  <2>2. CASE EndPass
    <3>1. CASE LetStallsGo
      BY <3>1 DEF LetStallsGo, StillHeld, HoldsAge, since
    <3>2. CASE ~LetStallsGo
      BY <1>2, <2>2, <3>2 DEF EndPass, KeepStalls, StallsAge, InPass, stalls, since, history
    <3> QED
      BY <3>1, <3>2
  <2>3. CASE WorkerStep
    <3>1. UNCHANGED <<pc, stalled, tried, progress, alone>>
      BY <2>3 DEF WorkerStep, Ends, WriteBrief, stalls, since, history
    <3> QED
      BY <1>2, <3>1 DEF StallsAge
  <2>4. CASE CommandStep
    BY <2>4 DEF CommandStep, CommandTransition, CommandClaim, CommandRelease, Given
  <2>5. ~(ReadPass \/ Callback \/ CallbacksDone \/ Fill \/ Refill \/ Die)
    BY <1>2 DEF ReadPass, Callback, CallbacksDone, Fill, Refill, Die, AfterBatch
  <2>6. ~ \E t \in Ticket : Handle(t)
    BY <1>2 DEF Handle, AfterBatch
  <2> QED
    BY <2>1, <2>2, <2>3, <2>4, <2>5, <2>6 DEF Next, RunStep
<1> QED
  BY <1>1, <1>2

LEMMA StalledAreCounted ==
    ASSUME RunInv, NEW t \in Ticket
    PROVE  /\ Cardinality(stalled) \in Nat /\ Cardinality(stalled \cup {t}) \in Nat
           /\ Cardinality(stalled) <= Cardinality(stalled \cup {t})
           /\ t \notin stalled => Cardinality(stalled) < Cardinality(stalled \cup {t})
<1>1. IsFiniteSet(stalled) /\ Cardinality(stalled) \in Nat
  BY TicketsAreFinite, FS_Subset, FS_CardinalityType DEF RunInv, StallsTyped
<1>2. t \notin stalled => Cardinality(stalled \cup {t}) = Cardinality(stalled) + 1
  BY <1>1, FS_AddElement
<1>3. t \in stalled => Cardinality(stalled \cup {t}) = Cardinality(stalled)
  <2>1. t \in stalled => stalled \cup {t} = stalled
    OBVIOUS
  <2> QED
    BY <2>1
<1> DEFINE m == Cardinality(stalled)
           n == Cardinality(stalled \cup {t})
<1>4. m \in Nat /\ (t \notin stalled => n = m + 1) /\ (t \in stalled => n = m)
  BY <1>1, <1>2, <1>3
<1> HIDE DEF m, n
<1>5. m \in Nat /\ n \in Nat /\ m <= n /\ (t \notin stalled => m < n)
  BY <1>4
<1> QED
  BY <1>5 DEF m, n

LEMMA WorkKeepsShowing ==
    ASSUME PoolInv, StalledApart, WorkShows, Next
    PROVE  WorkShows'
<1>0. RunInv
  BY DEF PoolInv
<1> DEFINE count == Cardinality(stalled)
           Shows == \/ offered = {} \/ queue # <<>> \/ Active # {} \/ stalledBefore < count
<1>1. ASSUME pc' \notin InPass
      PROVE  WorkShows'
  BY <1>1 DEF WorkShows, InPass
<1>2. ASSUME pc \in InPass, UNCHANGED <<offered, stalledBefore>>,
             \/ UNCHANGED <<stalled, queue, Active, advanced>>
             \/ UNCHANGED <<stalled, Active, advanced>> /\ queue = <<>>
             \/ UNCHANGED stalled /\ (Active' # {} \/ advanced')
             \/ \E t \in Ticket \ stalled : stalled' = stalled \cup {t}
             \/ \E t \in Ticket : stalled' = stalled \cup {t} /\ UNCHANGED <<queue, Active, advanced>>
      PROVE  WorkShows'
  <2>1. stalledBefore \in Nat /\ stalledBefore <= count /\ count \in Nat /\ (~advanced => Shows)
    BY <1>0, <1>2, TicketsAreFinite, FS_Subset, FS_CardinalityType DEF WorkShows, RunInv, StallsTyped
  <2>2. CASE \E t \in Ticket \ stalled : stalled' = stalled \cup {t}
    <3>1. count' \in Nat /\ count < count'
      BY <1>0, <2>2, StalledAreCounted
    <3> HIDE DEF count
    <3>2. stalledBefore' \in Nat /\ stalledBefore' < count'
      BY <1>2, <2>1, <3>1
    <3>3. stalledBefore' <= count'
      BY <3>1, <3>2
    <3> QED
      BY <3>2, <3>3 DEF WorkShows, count
  <2>3. CASE \E t \in Ticket : stalled' = stalled \cup {t} /\ UNCHANGED <<queue, Active, advanced>>
    <3>1. count' \in Nat /\ count <= count'
      BY <1>0, <2>3, StalledAreCounted
    <3> HIDE DEF count
    <3>2. stalledBefore' \in Nat /\ stalledBefore' <= count' /\ (~advanced' => Shows')
      BY <1>2, <2>1, <2>3, <3>1
    <3> QED
      BY <3>2 DEF WorkShows, count
  <2>4. CASE UNCHANGED stalled /\ (Active' # {} \/ advanced')
    BY <1>2, <2>1, <2>4 DEF WorkShows
  <2>5. CASE \/ UNCHANGED <<stalled, queue, Active, advanced>>
             \/ UNCHANGED <<stalled, Active, advanced>> /\ queue = <<>>
    BY <1>2, <2>1, <2>5 DEF WorkShows
  <2> QED
    BY <1>2, <2>2, <2>3, <2>4, <2>5
<1>3. CASE Begin \/ EndPass \/ Die
  BY <1>1, <1>3 DEF Begin, EndPass, Die, InPass
<1>4. CASE ReadPass
  <2>1. CASE Runnable({}) = {}
    BY <1>1, <1>4, <2>1 DEF ReadPass, InPass
  <2>2. CASE Runnable({}) # {}
    <3>1. /\ stalledBefore' = count /\ stalled' = stalled /\ (offered' # {} => queue' # <<>>)
      BY <1>0, <1>4, <2>2, PassIsRead DEF stalls
    <3>2. count \in Nat
      BY <1>0, TicketsAreFinite, FS_Subset, FS_CardinalityType DEF RunInv, StallsTyped
    <3> QED
      BY <3>1, <3>2 DEF WorkShows
  <2> QED
    BY <2>1, <2>2
<1>5. CASE CallbacksDone \/ WorkerStep \/ CommandStep
  <2>1. UNCHANGED <<queue, Active>>
    BY <1>5, OthersKeep DEF SamePool
  <2>2. UNCHANGED <<stalled, offered, stalledBefore, advanced>>
    BY <1>5
    DEF CallbacksDone, WorkerStep, CommandStep, Ends, WriteBrief, CommandTransition, CommandClaim,
        CommandRelease, Given, pass, stalls
  <2>3. pc \in InPass \/ pc' = pc
    BY <1>5
    DEF CallbacksDone, WorkerStep, CommandStep, Ends, WriteBrief, CommandTransition, CommandClaim,
        CommandRelease, Given, InPass
  <2> QED
    BY <1>1, <1>2, <2>1, <2>2, <2>3
<1>6. CASE Callback
  <2>1. calls \in Seq(Item) /\ calls # <<>> /\ pc \in InPass
    BY <1>0, <1>6 DEF Callback, RunInv, BatchTyped, InPass
  <2>2. Head(calls) \in Item
    BY <2>1
  <2>3. Head(calls).ticket \in Ticket /\ UNCHANGED <<queue, Active, offered, stalledBefore>>
    BY <1>6, <2>2 DEF Item, Callback, Active
  <2>4. \/ UNCHANGED <<stalled, advanced>>
        \/ UNCHANGED stalled /\ advanced'
        \/ stalled' = stalled \cup {Head(calls).ticket} /\ UNCHANGED advanced
    BY <1>6 DEF Callback, KeepStalls, HoldEmptyVisit, stalls
  <2> QED
    BY <1>2, <2>1, <2>3, <2>4
<1>7. CASE Fill
  <2>1. queue # <<>> /\ queue \in Seq(Item) /\ Head(queue) = queue[1] /\ Head(queue) \in Item
    BY <1>0, <1>7, FillIs DEF RunInv, BatchTyped
  <2>2. 1 \in DOMAIN queue /\ Head(queue).ticket \in Ticket
    BY <2>1 DEF Item
  <2>3. Head(queue).ticket \in Ticket \ stalled
    BY <2>1, <2>2 DEF StalledApart, Queued
  <2>4. pc \in InPass /\ UNCHANGED <<offered, stalledBefore>>
    BY <1>7 DEF Fill, InPass
  <2>5. \/ UNCHANGED stalled /\ Active' # {}
        \/ stalled' = stalled \cup {Head(queue).ticket}
    BY <1>7 DEF Fill, With, Active, Stall, KeepStalls, stalls
  <2> QED
    BY <1>2, <2>3, <2>4, <2>5
<1>8. CASE Refill
  <2>1. /\ queue = <<>> /\ UNCHANGED <<stalled, Active, advanced, offered, stalledBefore>> /\ pc \in InPass
    BY <1>0, <1>8 DEF Refill, RunInv, PlacesStand, InPass, Active, stalls
  <2> QED
    BY <1>2, <2>1
<1>9. ASSUME NEW t \in Ticket, Handle(t)
      PROVE  WorkShows'
  <2>1. t \in Active /\ pc \in InPass /\ UNCHANGED <<offered, stalledBefore>>
    BY <1>0, <1>9, HandleIs DEF pass, InPass
  <2>2. t \in Ticket \ stalled
    BY <2>1 DEF StalledApart
  <2>3. (UNCHANGED stalled /\ advanced') \/ stalled' = stalled \cup {t}
    BY <1>9 DEF Handle, Stall, HoldEmptyVisit, KeepStalls, stalls
  <2> QED
    BY <1>2, <2>1, <2>2, <2>3
<1> QED
  BY <1>3, <1>4, <1>5, <1>6, <1>7, <1>8, <1>9 DEF Next, RunStep

LEMMA CallsKeepEnd ==
    ASSUME RunInv, CallsEnd, Next
    PROVE  CallsEnd'
<1>1. CASE pc' \notin {"fill", "pool", "refill", "tail"}
  BY <1>1 DEF CallsEnd
<1>2. CASE UNCHANGED calls /\ (pc # "callbacks" \/ calls = <<>>) /\ pc \in InPass
  BY <1>2 DEF CallsEnd, InPass
<1>3. CASE ReadPass \/ Callback \/ Begin \/ EndPass \/ Die
  BY <1>1, <1>3 DEF ReadPass, Callback, Begin, EndPass, Die
<1>4. CASE CallbacksDone \/ Fill \/ Refill
  BY <1>2, <1>4 DEF CallbacksDone, Fill, Refill, InPass, pass
<1>5. CASE \E t \in Ticket : Handle(t)
  BY <1>2, <1>5, HandleIs DEF InPass, pass
<1>6. CASE WorkerStep \/ CommandStep
  <2>1. UNCHANGED <<pc, calls>>
    BY <1>6
    DEF WorkerStep, CommandStep, Ends, WriteBrief, CommandTransition, CommandClaim, CommandRelease,
        Given, pass
  <2> QED
    BY <2>1 DEF CallsEnd
<1> QED
  BY <1>3, <1>4, <1>5, <1>6 DEF Next, RunStep

LEMMA TakesSame ==
    ASSUME UNCHANGED <<state, entered>>, NEW t, NEW in
    PROVE  Takes(t, in)' = Takes(t, in)
<1>1. \A u : Open(u)' = Open(u)
  BY DEF Open, Below
<1>2. \A u, route : Applies(u, route)' = Applies(u, route)
  BY <1>1 DEF Applies
<1>3. Forward(t)' = Forward(t)
  BY <1>2 DEF Forward
<1>4. \A to : MayEnter(t, to)' = MayEnter(t, to)
  BY <1>1 DEF MayEnter
<1> QED
  BY <1>3, <1>4 DEF Takes

\* What makes a ticket ready, between moves, is a brief.
LEMMA ReadyBefore ==
    ASSUME UNCHANGED <<state, block, claimed>>, NEW t, Ready(t, {})', InputsExist(t)
    PROVE  Ready(t, {})
<1>1. Open(t)' = Open(t)
  BY DEF Open, Below
<1>2. \A u : /\ Supervises(u)' = Supervises(u) /\ Holds(u)' = Holds(u)
             /\ InFlight(u, {})' = InFlight(u, {}) /\ Satisfied(u)' = Satisfied(u)
  BY DEF Supervises, Holds, InFlight, Satisfied
<1>3. HeldAbove(t, {})' = HeldAbove(t, {}) /\ Due(t, {})' = Due(t, {})
  BY <1>1, <1>2 DEF HeldAbove, Due, Below
<1> QED
  BY <1>2, <1>3 DEF Ready

\* A supervisor at work holds whom it writes a brief for.
LEMMA NobodyGetsReady ==
    ASSUME RunInv, AsRead, pc \in InPass, alone, ~advanced,
           UNCHANGED <<state, block, claimed>>,
           \/ UNCHANGED briefs
           \/ \E p \in Ticket, u \in Ticket : WriteBrief(p, u),
           NEW t \in Runnable({})'
    PROVE  t \in Runnable({})
<1>1. t \in Ticket /\ Ready(t, {})' /\ t \notin claimed
  BY DEF Runnable
<1>2. InputsExist(t)' /\ ~HeldAbove(t, {})'
  BY <1>1 DEF Ready
<1>3. InputsExist(t)
  <2>1. CASE UNCHANGED briefs
    BY <1>2, <2>1 DEF InputsExist
  <2>2. CASE \E p \in Ticket, u \in Ticket : WriteBrief(p, u)
    <3> PICK p \in Ticket, u \in Ticket : WriteBrief(p, u)
      BY <2>2
    <3>1. /\ p \in Active /\ workers[p].in \in Supervising /\ u \in Below(p) /\ briefs' = briefs \cup {u}
      BY DEF WriteBrief
    <3>2. Holds(p)'
      BY <3>1 DEF AsRead, AtWork, Holds, Supervises
    <3>3. u # t
      BY <1>2, <3>1, <3>2 DEF HeldAbove, Below
    <3> QED
      BY <1>2, <3>1, <3>3 DEF InputsExist
  <2> QED
    BY <2>1, <2>2
<1> QED
  BY <1>1, <1>3, ReadyBefore DEF Runnable

LEMMA AccountedKeeps ==
    ASSUME PoolInv, AsRead, Accounted, Next
    PROVE  Accounted'
<1> SUFFICES ASSUME pc' \in InPass, alone', ~advanced', NEW t \in Runnable({})'
             PROVE  \/ t \in stalled' \/ t \in offered'
                    \/ t \in answered' /\ (~Takes(t, state[t])' \/ t \in Called')
  BY DEF Accounted, InPass
<1>0. RunInv
  BY DEF PoolInv
<1>1. CASE ReadPass /\ Runnable({}) # {}
  <2>1. /\ UNCHANGED <<state, block, claimed, briefs, stalled, answered>>
        /\ offered' = PassAgents
        /\ calls' = Items((Runnable({}) \ stalled) \cap answered)
    BY <1>0, <1>1, PassIsRead DEF plan, stalls
  <2>2. t \in Ticket /\ Ready(t, {})' /\ t \notin claimed
    BY <2>1 DEF Runnable
  <2>3. InputsExist(t)
    BY <2>1, <2>2 DEF Ready, InputsExist
  <2>4. t \in Runnable({})
    BY <2>1, <2>2, <2>3, ReadyBefore DEF Runnable
  <2>5. CASE t \notin stalled /\ t \in answered
    <3> DEFINE mine == (Runnable({}) \ stalled) \cap answered
    <3>1. mine \in SUBSET Ticket /\ t \in mine /\ calls' = Items(mine)
      BY <2>1, <2>4, <2>5 DEF Runnable
    <3> HIDE DEF mine
    <3>2. \E i \in DOMAIN calls' : calls'[i].ticket = t
      BY <3>1, ItemsAreComplete
    <3> QED
      BY <2>1, <2>5, <3>2 DEF Called
  <2> QED
    BY <2>1, <2>4, <2>5 DEF PassAgents
<1>2. CASE /\ pc \in InPass /\ alone /\ ~advanced
           /\ UNCHANGED <<state, entered, block, claimed, ledger, progress, offered, stalledBefore>>
           /\ answered \subseteq answered'
           /\ \E N \in SUBSET Ticket : stalled' = stalled \cup N /\ tried \cup N \subseteq tried'
           /\ \/ Callback \/ CallbacksDone \/ Fill \/ Refill \/ WorkerStep
              \/ \E u \in Ticket : Handle(u)
  <2>1. UNCHANGED briefs \/ \E p \in Ticket, u \in Ticket : WriteBrief(p, u)
    <3>1. CASE Callback \/ CallbacksDone \/ Fill \/ Refill \/ \E u \in Ticket : Handle(u)
      BY <3>1 DEF Callback, CallbacksDone, Fill, Refill, Handle, Moves, Move, plan
    <3>2. CASE WorkerStep
      BY <3>2 DEF WorkerStep, Ends
    <3> QED
      BY <1>2, <3>1, <3>2
  <2>2. t \in Runnable({})
    BY <1>0, <1>2, <2>1, NobodyGetsReady
  <2>3. \/ t \in stalled \/ t \in offered
        \/ t \in answered /\ (~Takes(t, state[t]) \/ t \in Called)
    BY <1>2, <2>2 DEF Accounted
  <2>4. \A in : Takes(t, in)' = Takes(t, in)
    BY <1>2, TakesSame
  <2>5. Takes(t, state[t])' = Takes(t, state[t])
    BY <1>2, <2>4 DEF Takes
  <2>6. stalled \subseteq stalled' /\ offered' = offered /\ answered \subseteq answered'
    BY <1>2
  <2>7. CASE t \in Called /\ Callback
    <3>1. calls \in Seq(Item) /\ calls # <<>> /\ calls' = Tail(calls)
      BY <1>0, <2>7 DEF Callback, RunInv, BatchTyped
    <3>2. PICK i \in DOMAIN calls : calls[i].ticket = t
      BY <2>7 DEF Called
    <3>3. CASE i # 1
      <4>1. i - 1 \in DOMAIN calls' /\ calls'[i - 1] = calls[i]
        BY <3>1, <3>3
      <4> QED
        BY <2>3, <2>5, <2>6, <3>2, <4>1 DEF Called
    <3>4. CASE i = 1
      <4>1. Head(calls) = calls[1] /\ Head(calls).ticket = t /\ Head(calls).in = state[t]
        BY <1>2, <3>1, <3>2, <3>4 DEF AsRead
      <4>2. HoldEmptyVisit(t) \/ ~Takes(t, state[t])
        BY <2>7, <4>1 DEF Callback
      <4> QED
        BY <2>3, <2>5, <2>6, <4>2 DEF HoldEmptyVisit
    <3> QED
      BY <3>3, <3>4
  <2>8. CASE t \in Called /\ ~Callback
    <3>1. calls' = calls
      <4>1. CASE CallbacksDone \/ Fill \/ Refill \/ WorkerStep
        BY <4>1 DEF CallbacksDone, Fill, Refill, WorkerStep, Ends, WriteBrief, pass
      <4>2. CASE \E u \in Ticket : Handle(u)
        BY <1>0, <4>2, HandleIs DEF pass
      <4> QED
        BY <1>2, <2>8, <4>1, <4>2
    <3> QED
      BY <2>3, <2>5, <2>6, <2>8, <3>1 DEF Called
  <2> QED
    BY <2>3, <2>5, <2>6, <2>7, <2>8
<1> QED
  BY <1>0, <1>1, <1>2, QuietSteps

\* The end of a pass that ends the run: nothing has moved, and what is stalled
\* has been tried since anything did.
LEMMA EndsTried ==
    ASSUME PoolInv, TriedInv, EndPass, pc' = "over", alone'
    PROVE  NothingUntriedAtTheEnd'
<1>1. /\ pc = "tail" /\ ~advanced /\ ~MoreClaimable /\ ~EarnsAnotherTry
      /\ UNCHANGED <<plan, stalls, since, alone>>
  BY DEF EndPass, KeepStalls, history
<1>2. alone /\ pc \in InPass /\ queue = <<>> /\ Active = {} /\ calls = <<>>
  BY <1>1 DEF InPass, PoolInv, RunInv, PlacesStand, TriedInv, CallsEnd
<1>3. stalled \subseteq tried
  <2>1. CASE progress
    BY <1>1, <2>1 DEF EarnsAnotherTry, StillHeld, TriedInv, HoldsAge
  <2>2. CASE ~progress
    BY <1>1, <1>2, <2>2 DEF TriedInv, StallsAge
  <2> QED
    BY <2>1, <2>2
<1>4. offered \subseteq stalled
  <2>1. Cardinality(stalled) \in Nat
    BY TicketsAreFinite, FS_Subset, FS_CardinalityType DEF PoolInv, RunInv, StallsTyped
  <2>2. offered = {} \/ Cardinality(stalled) > stalledBefore
    BY <1>1, <1>2, <2>1 DEF TriedInv, WorkShows
  <2> QED
    BY <1>1, <2>2 DEF MoreClaimable
<1>5. ASSUME NEW t \in Runnable({})'
      PROVE  t \in tried \/ (t \in answered /\ ~Takes(t, state[t]))
  <2>1. UNCHANGED <<state, block, claimed, briefs>>
    BY <1>1 DEF plan
  <2>2. t \in Runnable({})
    BY <1>1, <1>2, <2>1, NobodyGetsReady DEF PoolInv, TriedInv
  <2> QED
    BY <1>1, <1>2, <1>3, <1>4, <2>2 DEF TriedInv, Accounted, Called
<1>6. \A t : Takes(t, state[t])' = Takes(t, state[t])
  <2>1. UNCHANGED <<state, entered>>
    BY <1>1 DEF plan
  <2> QED
    BY <2>1, TakesSame DEF Takes
<1>7. tried' = tried /\ answered' = answered
  BY <1>1 DEF since, plan
<1> QED
  BY <1>5, <1>6, <1>7 DEF NothingUntriedAtTheEnd

LEMMA TriedAtTheEnd ==
    ASSUME PoolInv, TriedInv, NothingUntriedAtTheEnd, Next
    PROVE  NothingUntriedAtTheEnd'
<1> SUFFICES ASSUME pc' = "over", alone' PROVE NothingUntriedAtTheEnd'
  BY DEF NothingUntriedAtTheEnd
<1>0. RunInv
  BY DEF PoolInv
<1>1. CASE EndPass
  BY <1>1, EndsTried
<1>2. CASE ReadPass
  <2>1. Runnable({}) = {} /\ UNCHANGED plan
    BY <1>2 DEF ReadPass
  <2>2. ASSUME NEW t \in Runnable({})'
        PROVE  FALSE
    <3>1. UNCHANGED <<state, block, claimed, briefs>>
      BY <2>1 DEF plan
    <3>2. t \in Ticket /\ Ready(t, {})' /\ t \notin claimed
      BY <2>2, <3>1 DEF Runnable
    <3>3. InputsExist(t)
      BY <3>1, <3>2 DEF Ready, InputsExist
    <3>4. t \in Runnable({})
      BY <3>1, <3>2, <3>3, ReadyBefore DEF Runnable
    <3> QED
      BY <2>1, <3>4
  <2> QED
    BY <2>2 DEF NothingUntriedAtTheEnd
<1>3. ~(Begin \/ Callback \/ CallbacksDone \/ Fill \/ Refill \/ Die)
  BY DEF Begin, Callback, CallbacksDone, Fill, Refill, Die, AfterBatch
<1>4. ~ \E t \in Ticket : Handle(t)
  BY DEF Handle, AfterBatch
<1>5. ~WorkerStep
  <2> SUFFICES ASSUME WorkerStep PROVE FALSE
    OBVIOUS
  <2>1. pc = "over" /\ Active # {}
    BY DEF WorkerStep, Ends, WriteBrief
  <2> QED
    BY <1>0, <2>1 DEF RunInv, PlacesStand
<1>6. ~CommandStep
  BY DEF CommandStep, CommandTransition, CommandClaim, CommandRelease, Given
<1> QED
  BY <1>1, <1>2, <1>3, <1>4, <1>5, <1>6 DEF Next, RunStep

LEMMA TriedKeeps ==
    ASSUME PoolInv, CallsApart, TriedInv, NothingUntriedAtTheEnd, [Next]_vars
    PROVE  TriedInv' /\ NothingUntriedAtTheEnd'
<1>0. RunInv
  BY DEF PoolInv
<1>1. CASE Next
  <2>1. AsRead' /\ StalledApart' /\ HoldsAge' /\ StallsAge' /\ WorkShows' /\ Accounted' /\ CallsEnd'
    BY <1>0, <1>1, AsReadKeeps, StalledKeepApart, HoldsKeepAge, StallsKeepAge, WorkKeepsShowing,
       AccountedKeeps, CallsKeepEnd DEF TriedInv
  <2>2. NothingUntriedAtTheEnd'
    BY <1>1, TriedAtTheEnd
  <2> QED
    BY <2>1, <2>2 DEF TriedInv
<1>2. CASE UNCHANGED vars
  <2>1. /\ UNCHANGED <<state, entered, block, claimed, ledger, briefs, answered>>
        /\ UNCHANGED <<pc, calls, queue, solo, offered, stalled, stalledBefore, heldAt>>
        /\ UNCHANGED <<advanced, progress, workers, tried, empty, alone>>
    BY <1>2 DEF vars, plan, pass, stalls, since, history
  <2>2. \A t, in : Takes(t, in)' = Takes(t, in)
    BY <2>1, TakesSame
  <2>3. Runnable({})' \subseteq Runnable({})
    <3> SUFFICES ASSUME NEW t \in Runnable({})' PROVE t \in Runnable({})
      OBVIOUS
    <3>1. t \in Ticket /\ Ready(t, {})' /\ t \notin claimed
      BY <2>1 DEF Runnable
    <3>2. InputsExist(t)
      BY <2>1, <3>1 DEF Ready, InputsExist
    <3> QED
      BY <2>1, <3>1, <3>2, ReadyBefore DEF Runnable
  <2>4. \A t : Takes(t, state[t])' = Takes(t, state[t])
    BY <2>1, <2>2 DEF Takes
  <2>5. AsRead'
    BY <2>1 DEF TriedInv, AsRead, AtWork, Holds, Supervises, InPass, Active
  <2>6. StalledApart' /\ HoldsAge' /\ StallsAge' /\ WorkShows' /\ CallsEnd'
    BY <2>1 DEF TriedInv, StalledApart, HoldsAge, StallsAge, WorkShows, CallsEnd, InPass, Active, Queued
  <2>7. Accounted'
    BY <2>1, <2>3, <2>4 DEF TriedInv, Accounted, InPass, Called
  <2>8. NothingUntriedAtTheEnd'
    BY <2>1, <2>3, <2>4 DEF NothingUntriedAtTheEnd
  <2> QED
    BY <2>5, <2>6, <2>7, <2>8 DEF TriedInv
<1> QED
  BY <1>1, <1>2

\* A run nobody disturbed leaves no ticket it could start without having tried
\* it since anything moved: what run_agent_mode puts off behind another ticket
\* of its state, or stalls, is got back to before the run ends.
THEOREM EverythingIsTried == Spec => []NothingUntriedAtTheEnd
<1> DEFINE IInv == EmptyInv /\ TriedInv /\ NothingUntriedAtTheEnd
<1>1. RunInit => IInv
  <2> SUFFICES ASSUME RunInit PROVE IInv
    OBVIOUS
  <2>1. Active = {} /\ Queued = {} /\ DOMAIN heldAt = {} /\ pc = "off" /\ stalled = {} /\ empty = {}
    BY DEF RunInit, Active, Queued
  <2> QED
    BY <2>1 DEF EmptyInv, HoldsStand, CallsApart, TriedInv, AsRead, StalledApart, HoldsAge, StallsAge,
                WorkShows, Accounted, CallsEnd, InPass, NothingUntriedAtTheEnd
<1>2. PoolInv /\ IInv /\ [Next]_vars => IInv'
  BY EmptyKeeps, TriedKeeps DEF EmptyInv
<1> QED
  BY <1>1, <1>2, PoolInvariant, PTL DEF Spec

=============================================================================
