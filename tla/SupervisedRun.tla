--------------------------- MODULE SupervisedRun ---------------------------
(***************************************************************************)
(* `rhei run` in agent mode over supervised subtrees (rhei-cli/src/cli:    *)
(* run_agent_mode.rs, run_agent_pool.rs, run_parallel_schedule.rs,         *)
(* run_parallel_agent_exit.rs, run_empty_visit_holds.rs).                  *)
(*                                                                         *)
(* A pass reads what is ready, takes the moves that need no worker, starts *)
(* a batch of workers and hands a slot on as each of them ends; what moved *)
(* nothing is stalled until something else has moved.  One worker per      *)
(* ticket: no fan-out, program, poll or wait for a provider.               *)
(***************************************************************************)
EXTENDS Supervision

CONSTANTS
    Concurrent,     \* states any number of tickets are worked in at a time
    Outputs,        \* states that declare outputs, by which their work is known
    TimeoutTo,      \* state -> where a worker that ran out of time sends it
    Parallel,       \* --parallel
    Beside,         \* the commands given while a run goes on
    MaxRuns,
    MaxCommands

Commands == {"transition", "claim", "release"}

ASSUME RunAssumption ==
    /\ Concurrent \subseteq State /\ Outputs \subseteq State
    /\ TimeoutTo \in [State -> State \cup {None}]
    /\ Parallel \in Nat \ {0}
    /\ Beside \subseteq Commands
    /\ MaxRuns \in Nat /\ MaxCommands \in Nat

VARIABLES
    pc,             \* where the run is
    calls,          \* the moves of this pass that need no worker, to be made
    queue,          \* the work items of this pass or refill still to start
    solo,           \* the batch is one item, without a pool
    offered,        \* the tickets the pass found work for, deferred ones too
    stalled,        \* stalled_tasks
    stalledBefore,  \* how many they were when the pass began
    advanced,       \* advanced_any
    progress,       \* progress_since_stall_reset
    heldAt,         \* EmptyVisitHolds: ticket -> how long the ledger was
    workers,        \* ticket -> its worker
    runs,           \* runs begun
    commands,       \* commands given
    \* What the properties ask, and the code keeps nowhere.
    tried,          \* the tickets that stalled since anything last moved
    empty,          \* those of them that stalled for an empty visit
    steered,        \* supervisors whose subtree was let go by hand, or moved by
                    \* hand while they were at work
    alone           \* no command was given since the run began

pass == <<calls, queue, solo, offered, stalledBefore>>
stalls == <<stalled, heldAt>>
since == <<tried, empty>>
bounds == <<runs, commands>>
history == <<steered, alone>>
vars == <<plan, pc, pass, stalls, since, advanced, progress, workers, bounds, history>>

Item == [ticket : Ticket, in : State]

\* A worker that left an output owed ends as one that exited non-zero does.
Exit == {"running", "done", "failed", "late", "panicked"}

Resting == {"off", "over"}

RunInit ==
    /\ SupervisionInit
    /\ pc = "off"
    /\ calls = <<>> /\ queue = <<>> /\ solo = FALSE /\ offered = {}
    /\ stalled = {} /\ stalledBefore = 0
    /\ advanced = FALSE /\ progress = FALSE
    /\ heldAt = <<>> /\ workers = <<>>
    /\ runs = 0 /\ commands = 0
    /\ tried = {} /\ empty = {}
    /\ steered = {} /\ alone = TRUE

Active == DOMAIN workers

Without(f, t) == [u \in DOMAIN f \ {t} |-> f[u]]

With(f, t, value) == [u \in DOMAIN f \cup {t} |-> IF u = t THEN value ELSE f[u]]

\* Tickets are listed in the order of the plan.
InOrder(tickets) == Kept(Plan, tickets)

Items(tickets) ==
    [i \in DOMAIN InOrder(tickets) |->
        [ticket |-> InOrder(tickets)[i], in |-> state[InOrder(tickets)[i]]]]

Place(t) == CHOOSE i \in DOMAIN Plan : Plan[i] = t

\* In a state that is not concurrent the first ticket keeps the others out.
OnePerState(tickets, busy) ==
    {t \in tickets :
        \/ state[t] \in Concurrent
        \/ /\ state[t] \notin busy
           /\ \A u \in tickets : state[u] = state[t] => Place(t) <= Place(u)}

FirstOf(items, n) == SubSeq(items, 1, IF Len(items) < n THEN Len(items) ELSE n)

\* (Mutant) An empty visit is a stall like any other.
NoMark(t) == heldAt

\* The mark an empty visit is held at: only the ledger's growth lets it go.
Mark(t) == With(heldAt, t, ledger)

HoldEmptyVisit(t) ==
    /\ stalled' = stalled \cup {t} /\ heldAt' = Mark(t)
    /\ tried' = tried \cup {t} /\ empty' = empty \cup {t}

Stall(t) ==
    /\ stalled' = stalled \cup {t} /\ tried' = tried \cup {t}
    /\ UNCHANGED <<heldAt, empty>>

KeepStalls == UNCHANGED <<stalls, since>>

\* Something moved, and every stall has something new to be tried on.
Moves(t, to, by) ==
    /\ Move(t, to, by)
    /\ tried' = {} /\ empty' = {}

AfterBatch(active) == IF active = {} THEN "tail" ELSE "pool"

-----------------------------------------------------------------------------
(* The pass.                                                               *)

Begin ==
    /\ pc \in Resting
    /\ runs < MaxRuns
    /\ runs' = runs + 1
    /\ pc' = "top"
    /\ stalled' = {} /\ heldAt' = <<>>
    /\ tried' = {} /\ empty' = {}
    /\ progress' = FALSE /\ alone' = TRUE
    /\ UNCHANGED <<plan, pass, advanced, workers, commands, steered>>

\* The reading a pass goes by.  What has its work on disk needs no worker.
ReadPass ==
    /\ pc = "top"
    /\ LET mine == Runnable({}) \ stalled
           agents == mine \ answered
           batch == FirstOf(Items(OnePerState(agents, {})), Parallel)
       IN IF Runnable({}) = {}
          THEN /\ pc' = "over"
               /\ UNCHANGED <<pass, advanced>>
          ELSE /\ pc' = "callbacks"
               /\ calls' = Items(mine \cap answered)
               /\ queue' = batch
               /\ solo' = (Len(batch) = 1)
               /\ offered' = agents
               /\ stalledBefore' = Cardinality(stalled)
               /\ advanced' = FALSE
    /\ UNCHANGED <<plan, stalls, since, progress, workers, bounds, history>>

\* The edge a finished visit takes, by whoever asks; a ticket that moved on
\* meanwhile is refused it.
Takes(t, in) ==
    /\ state[t] = in
    /\ Forward(t) # None
    /\ MayEnter(t, Forward(t))

\* One move that needs no worker.  It is judged by the plan of now, and as a
\* visit nobody made.
Callback ==
    /\ pc = "callbacks" /\ calls # <<>>
    /\ calls' = Tail(calls)
    /\ LET t == Head(calls).ticket
       IN \/ /\ ReleasedNothing(t, None)
             /\ HoldEmptyVisit(t)
             /\ UNCHANGED <<plan, advanced>>
          \/ /\ ~ReleasedNothing(t, None)
             /\ Takes(t, Head(calls).in)
             /\ Moves(t, Forward(t), None)
             /\ advanced' = TRUE
             /\ UNCHANGED stalls
          \/ /\ ~ReleasedNothing(t, None)
             /\ ~Takes(t, Head(calls).in)
             /\ KeepStalls /\ UNCHANGED <<plan, advanced>>
    /\ UNCHANGED <<pc, queue, solo, offered, stalledBefore, progress, workers, bounds, history>>

CallbacksDone ==
    /\ pc = "callbacks" /\ calls = <<>>
    /\ pc' = IF queue = <<>> THEN "tail" ELSE "fill"
    /\ UNCHANGED <<plan, pass, stalls, since, advanced, progress, workers, bounds, history>>

WorkerFor(t, in) ==
    [in |-> in, visit |-> entered[t], exit |-> "running",
     shape |-> IF in \in Supervising THEN Shape(t) ELSE None]

\* The next item gets its worker.  That it is still ready is not asked again.
Fill ==
    /\ pc = "fill"
    /\ queue' = Tail(queue)
    /\ LET item == Head(queue)
       IN \/ /\ workers' = With(workers, item.ticket, WorkerFor(item.ticket, item.in))
             /\ KeepStalls
          \* Its attempts are spent, or admission or its evidence refuses it.
          \/ /\ Stall(item.ticket)
             /\ UNCHANGED workers
    /\ pc' = IF Tail(queue) = <<>> THEN AfterBatch(DOMAIN workers') ELSE "fill"
    /\ UNCHANGED <<plan, calls, solo, offered, stalledBefore, advanced, progress, bounds, history>>

-----------------------------------------------------------------------------
(* The workers, and what the run makes of how one ended.                   *)

\* The worker's outputs stand for the visit the ticket is in.
Leaves(t, worker) ==
    worker.in \in Outputs /\ state[t] = worker.in /\ entered[t] = worker.visit

Ends(t) ==
    /\ t \in Active /\ workers[t].exit = "running"
    /\ \E how \in Exit \ {"running"} :
          /\ workers' = [workers EXCEPT ![t].exit = how]
          /\ answered' = IF how = "done" /\ Leaves(t, workers[t])
                         THEN answered \cup {t} ELSE answered
    /\ UNCHANGED <<state, entered, block, claimed, ledger, briefs,
                   pc, pass, stalls, since, advanced, progress, bounds, history>>

\* A supervisor at work writes what a ticket below it is to read.
WriteBrief(p, t) ==
    /\ p \in Active /\ workers[p].exit = "running"
    /\ workers[p].in \in Supervising
    /\ t \in Below(p) \ briefs
    /\ \E s \in State : <<t, s>> \in Needs
    /\ briefs' = briefs \cup {t}
    /\ UNCHANGED <<state, entered, block, claimed, ledger, answered,
                   pc, pass, stalls, since, advanced, progress, workers, bounds, history>>

\* The edge of an exit, or None.
ExitEdge(t, worker) ==
    CASE worker.exit = "done" -> Forward(t)
      [] worker.exit = "late" -> TimeoutTo[worker.in]
      [] OTHER -> None

Empty(t, worker) == worker.exit = "done" /\ ReleasedNothing(t, worker.shape)

\* What the run makes of an exit, by a fresh reading of the plan.
Handle(t) ==
    /\ pc = "pool"
    /\ t \in Active /\ workers[t].exit # "running"
    /\ workers' = Without(workers, t)
    /\ pc' = IF solo THEN "tail"
             ELSE IF workers[t].exit = "panicked" THEN AfterBatch(Active \ {t}) ELSE "refill"
    /\ LET worker == workers[t]
           to == ExitEdge(t, worker)
           moved == state[t] # worker.in /\ worker.exit # "panicked"
           lands == to # None /\ MayEnter(t, to) /\ ~Empty(t, worker)
       IN \/ /\ moved
             /\ advanced' = TRUE
             /\ KeepStalls /\ UNCHANGED plan
          \/ /\ ~moved /\ lands
             /\ Moves(t, to, None)
             /\ advanced' = TRUE
             /\ UNCHANGED stalls
          \/ /\ ~moved /\ ~lands
             /\ IF Empty(t, worker) THEN HoldEmptyVisit(t) ELSE Stall(t)
             /\ UNCHANGED <<plan, advanced>>
    /\ UNCHANGED <<pass, progress, bounds, history>>

\* (Mutant) The refill asks as a command does, and sees no worker.
RefillBlind == Runnable({}) \ Active

\* What a refill may offer, of a plan read with the workers in mind.
Startable == Runnable(Active) \ Active

\* (Mutant) The refill forgets which states are taken.
NoStateIsBusy == {}

BusyStates == {workers[u].in : u \in Active} \ Concurrent

FreeSlots == Parallel - Cardinality(Active)

\* The slot is handed on.  A stalled ticket is dropped only after it has kept
\* its state's place.
Refill ==
    /\ pc = "refill"
    /\ LET fresh == OnePerState(Startable \ answered, BusyStates) \ stalled
           items == FirstOf(Items(fresh), FreeSlots)
       IN /\ queue' = items
          /\ pc' = IF items = <<>> THEN AfterBatch(Active) ELSE "fill"
    /\ UNCHANGED <<plan, calls, solo, offered, stalledBefore, stalls, since, advanced, progress,
                   workers, bounds, history>>

-----------------------------------------------------------------------------
(* The end of a pass.                                                      *)

\* (Mutant) Only what the batch had in it is asked for.
NothingDeferred == Cardinality(stalled) > stalledBefore
    /\ OnePerState(offered, {}) \ stalled # {}

MoreClaimable == Cardinality(stalled) > stalledBefore /\ offered \ stalled # {}

\* The holds nothing has moved since.
StillHeld == {t \in DOMAIN heldAt \cap stalled : heldAt[t] = ledger}

LetStallsGo ==
    /\ heldAt' = [t \in StillHeld |-> heldAt[t]]
    /\ stalled' = StillHeld
    /\ UNCHANGED since

\* (Mutant) The stalled tickets are tried again after every pass.
AnotherTry == StillHeld # stalled

EarnsAnotherTry == progress /\ StillHeld # stalled

EndPass ==
    /\ pc = "tail"
    /\ \/ /\ advanced
          /\ progress' = TRUE /\ pc' = "top"
          /\ KeepStalls
       \/ /\ ~advanced /\ MoreClaimable
          /\ pc' = "top"
          /\ KeepStalls /\ UNCHANGED progress
       \/ /\ ~advanced /\ ~MoreClaimable /\ EarnsAnotherTry
          /\ LetStallsGo
          /\ progress' = FALSE /\ pc' = "top"
       \/ /\ ~advanced /\ ~MoreClaimable /\ ~EarnsAnotherTry
          \* The holds are pruned by the question; the run is over.
          /\ pc' = "over"
          /\ KeepStalls /\ UNCHANGED progress
    /\ UNCHANGED <<plan, pass, advanced, workers, bounds, history>>

\* An interrupt, an error the run does not go on after, or a crash: the
\* workers end with it, and what they had left on disk stays.
Die ==
    /\ pc \notin Resting
    /\ pc' = "off"
    /\ workers' = <<>>
    /\ calls' = <<>> /\ queue' = <<>> /\ offered' = {}
    /\ UNCHANGED <<plan, solo, stalledBefore, stalls, since, advanced, progress, bounds,
                   history>>

-----------------------------------------------------------------------------
(* The commands beside it.                                                 *)

\* What is handed back was claimed, so only the rest is counted.
Given(command) ==
    /\ pc \in Resting \/ command \in Beside
    /\ IF command = "release" THEN UNCHANGED commands
       ELSE commands < MaxCommands /\ commands' = commands + 1
    /\ alone' = FALSE
    /\ UNCHANGED <<pc, pass, stalls, advanced, progress, workers, runs>>

\* A person's move, or a supervisor's with its own name on it.
CommandTransition(t, to, by) ==
    /\ Given("transition")
    /\ Transition(t, to, by)
    /\ tried' = {} /\ empty' = {}
    /\ steered' = steered \cup (IF to = state[t] THEN {t} ELSE {})
                          \cup {p \in Range(Above[t]) : p \in Active \/ Hears(t, to, by) = None}

CommandClaim(t) == Given("claim") /\ Claim(t) /\ UNCHANGED <<since, steered>>

CommandRelease(t) == Given("release") /\ GiveBack(t) /\ UNCHANGED <<since, steered>>

RunStep ==
    \/ ReadPass \/ Callback \/ CallbacksDone \/ Fill \/ Refill \/ EndPass
    \/ \E t \in Ticket : Handle(t)

WorkerStep == \E t \in Ticket : Ends(t) \/ \E p \in Ticket : WriteBrief(p, t)

CommandStep ==
    \E t \in Ticket :
        \/ \E to \in State, by \in Ticket \cup {None} : CommandTransition(t, to, by)
        \/ CommandClaim(t)
        \/ CommandRelease(t)

Next == Begin \/ RunStep \/ WorkerStep \/ Die \/ CommandStep

Spec == RunInit /\ [][Next]_vars

GoesOn == RunStep \/ \E t \in Ticket : Ends(t)

\* Weak fairness of GoesOn, whose steps are enabled exactly while a run is
\* under way (RunTypeOK: a pool has a worker and a batch an item).  Every
\* worker has a finite time.  Nobody has to begin a run, to give a command or
\* to write a brief.
FairSpec == Spec /\ ([]<>(pc \in Resting) \/ []<><<GoesOn>>_vars)

-----------------------------------------------------------------------------
(* Properties.                                                             *)

RunTypeOK ==
    /\ state \in [Ticket -> State] /\ entered \in [Ticket -> 0..Visits]
    /\ block \in [Ticket -> Block]
    /\ claimed \subseteq Ticket /\ briefs \subseteq Ticket /\ answered \subseteq Ticket
    /\ ledger \in Nat
    /\ calls \in Seq(Item) /\ queue \in Seq(Item) /\ offered \subseteq Ticket /\ stalled \subseteq Ticket
    /\ Active \subseteq Ticket /\ DOMAIN heldAt \subseteq stalled
    /\ \A t \in Active : workers[t].in \in State /\ workers[t].exit \in Exit
    /\ pc \in Resting => Active = {}
    /\ pc = "pool" => Active # {}
    /\ pc = "fill" => queue # <<>>

\* The edges of the machine, whoever takes them: an exit, a person, a timeout.
Edge(s, to) ==
    \/ <<s, to>> \in ByHand
    \/ \E route \in Range(Routes[s]) : route[1] = to
    \/ TimeoutTo[s] = to

Worked == Active \cup claimed

\* "A supervisor and its descendants are never worked at the same time"
\* (rhei-supervision.spec.md 3.1), whoever works them.
NeverTogether ==
    \A p \in Ticket : Supervises(p) /\ p \in Worked => Below(p) \cap Worked = {}

\* The gates a ticket comes back to supervision from.
Doors == {gate \in Gating : \E s \in Supervising : Edge(gate, s)}

\* As in every machine the repository ships, supervision is where a ticket
\* starts or where it comes back to: no edge makes a supervisor of a ticket that
\* is worked as any other.
EntryIsGuarded ==
    \A s, to \in State : Edge(s, to) =>
        /\ to \in Supervising => s \in Supervising \cup Doors
        /\ to \in Doors => s \in Supervising

\* A subtree that was let go can move without its supervisor, who is woken
\* only by its moves (3.6); a person may let a stuck one go, and a supervisor
\* may steer its own into a corner.
NotStranded ==
    \A p \in Ticket :
        /\ Supervises(p) /\ block[p] = Released /\ Open(p) # {}
        /\ p \notin steered
        => \E u \in Open(p) : CanStillMove(p, u)

\* The gates a ticket reaches from a supervising state only.
ParkedAt == {gate \in Gating : \A s \in State : Edge(s, gate) => s \in Supervising}

\* "A supervisor parked at a gate keeps its subtree held until a human moves
\* it" (3.1 rule 4): no move below it, and none that came before, lets any of
\* the subtree be handed out.
GateKeepsTheHold ==
    \A p \in Ticket : state[p] \in ParkedAt /\ Start[p] # state[p] =>
        \A u \in Below(p) : ~Ready(u, Active)

\* A run nobody disturbed leaves no ticket it could start without having tried
\* it since the last move of any other.
NothingUntriedAtTheEnd ==
    pc = "over" /\ alone =>
        \A t \in Runnable({}) :
            \/ t \in tried
            \/ t \in answered /\ ~Takes(t, state[t])

\* Within one run a supervisor is visited again after an empty visit only
\* when something has moved since.
OneEmptyVisitPerAdvance ==
    [][\A t \in DOMAIN workers' \ Active : t \notin empty]_vars

\* However slots are handed on, no more tickets are worked than --parallel
\* says, and one at a time in a state that is not concurrent.
PoolKeepsItsLimits ==
    /\ Cardinality(Active) <= Parallel
    /\ \A t, u \in Active : t # u /\ workers[t].in = workers[u].in =>
                                workers[t].in \in Concurrent

\* A run ends: failing workers, empty visits and retries do not keep it going.
RunsEnd == pc \notin Resting ~> pc \in Resting
=============================================================================
