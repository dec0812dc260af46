---------------------------- MODULE Supervision ----------------------------
(***************************************************************************)
(* Supervised subtrees (rhei-cli/src/cli: subtree_supervision.rs and its   *)
(* _owner, _barrier and _release parts, ready_transition.rs).              *)
(*                                                                         *)
(* A ticket in a supervising state is a barrier over what is below it.     *)
(* While it is owed a visit nothing below it is handed out; the visit ends *)
(* with the state's edge onto itself, which lets the subtree go until one  *)
(* of the moves below is news for the supervisor and holds it again.       *)
(*                                                                         *)
(* This module has the plan as every command and every run read it, the    *)
(* two questions asked of it (what is ready, did a visit release anything) *)
(* and the one move all of them apply.  SupervisedRun has the run.         *)
(***************************************************************************)
EXTENDS Integers, Sequences, FiniteSets, Functions, SequencesExt, Subsequences

CONSTANTS
    Plan,           \* the tickets in the order the plan lists them
    Above,          \* ticket -> the tickets above it, its parent first
    Prior,          \* ticket -> the tickets it depends on
    Start,          \* ticket -> the state the author wrote
    Terminal,
    Failed,         \* terminal states that satisfy no prior
    Gating,         \* states a human moves on
    Supervising,
    ChildScope,     \* supervising states that hear their children only
    TerminalEvent,  \* supervising states that hear of finished tickets only
    Routes,         \* state -> its edges <<target, condition>> as declared
    ByHand,         \* edges only a human takes
    Visits,         \* how often a ticket may enter a supervising state
    Needs,          \* <<ticket, state>>: the state reads the ticket's brief
    None

Ticket == Range(Plan)
State == DOMAIN Routes

Condition == {"always", "closed", "spent"}

ASSUME SupervisedPlanAssumption ==
    /\ Plan \in Seq(Ticket) /\ IsInjective(Plan)
    /\ Above \in [Ticket -> Seq(Ticket)]
    /\ Prior \in [Ticket -> SUBSET Ticket]
    /\ Start \in [Ticket -> State]
    /\ None \notin Ticket

ASSUME SupervisingMachineAssumption ==
    /\ \A s \in State : Routes[s] \in Seq(State \X Condition)
    /\ Terminal \subseteq State /\ Gating \subseteq State
    /\ Failed \subseteq Terminal
    /\ Supervising \subseteq State \ (Terminal \cup Gating)
    /\ ChildScope \subseteq Supervising /\ TerminalEvent \subseteq Supervising
    /\ \A s \in Supervising : \E i \in DOMAIN Routes[s] : Routes[s][i][1] = s
    /\ ByHand \subseteq State \X State
    /\ Needs \subseteq Ticket \X State
    /\ Visits \in Nat \ {0}

VARIABLES
    state,          \* ticket -> what its heading says
    entered,        \* ticket -> the visits its metadata counts
    block,          \* ticket -> its supervision block, or None
    claimed,        \* the tickets with an assignee
    ledger,         \* the lines of the transition ledger
    briefs,         \* the tickets a supervisor wrote a brief for
    answered        \* the tickets whose work of this visit is on disk

plan == <<state, entered, block, claimed, ledger, briefs, answered>>

\* A checkpoint: the ticket that moved, and where to.
Checkpoint == [ticket : Ticket, to : State]

Held(checkpoints) == [phase |-> "held", checkpoints |-> checkpoints]

Released == [phase |-> "released", checkpoints |-> <<>>]

Block == [phase : {"held", "released"}, checkpoints : Seq(Checkpoint)] \cup {None}

ASSUME NoBlockAssumption ==
    None \notin [phase : {"held", "released"}, checkpoints : Seq(Checkpoint)]

SupervisionInit ==
    /\ state = Start
    /\ entered = [t \in Ticket |-> IF Start[t] \in Supervising THEN 1 ELSE 0]
    /\ block = [t \in Ticket |-> None]
    /\ claimed = {}
    /\ ledger = 0
    /\ briefs = {}
    /\ answered = {}

-----------------------------------------------------------------------------
(* The tree.                                                               *)

Below(t) == {u \in Ticket : t \in Range(Above[u])}

Open(t) == {u \in Below(t) : state[u] \notin Terminal}

Supervises(t) == state[t] \in Supervising

Checkpoints(t) == IF block[t] = None THEN <<>> ELSE block[t].checkpoints

\* The states below a ticket, which is what a visit is judged to have moved.
Shape(t) == [u \in Below(t) |-> state[u]]

\* The nearest supervisor above whose scope has t in it, whatever it listens
\* for.
Owner(t) ==
    LET hears(i) == /\ Supervises(Above[t][i])
                    /\ state[Above[t][i]] \in ChildScope => i = 1
        all == {i \in DOMAIN Above[t] : hears(i)}
    IN IF all = {} THEN None
       ELSE Above[t][CHOOSE i \in all : \A j \in all : i <= j]

-----------------------------------------------------------------------------
(* What is ready.  `running` are the tickets a run has workers out for; a  *)
(* command beside it cannot see them and asks with the empty set.          *)

InFlight(t, running) == t \in claimed \/ t \in running

\* The block is the hold; a supervising state without one is held too.
Holds(t) == IF block[t] = None THEN Supervises(t) ELSE block[t].phase = "held"

HeldAbove(t, running) ==
    \E p \in Range(Above[t]) :
        Holds(p) \/ (Supervises(p) /\ InFlight(p, running))

\* (Mutant) A supervisor is owed its visit as soon as something happened.
DueAtOnce(t, running) ==
    IF Supervises(t) THEN Holds(t) ELSE Open(t) = {}

Due(t, running) ==
    IF Supervises(t)
    THEN Holds(t) /\ \A u \in Below(t) : ~InFlight(u, running)
    ELSE Open(t) = {}

Satisfied(t) == state[t] \in Terminal \ Failed

InputsExist(t) == <<t, state[t]>> \in Needs => t \in briefs

Ready(t, running) ==
    /\ ~HeldAbove(t, running)
    /\ Due(t, running)
    /\ state[t] \notin Terminal \cup Gating
    /\ \A u \in Prior[t] : Satisfied(u)
    /\ InputsExist(t)

\* What a run may start by itself: nobody's claim.
Runnable(running) == {t \in Ticket : Ready(t, running) /\ t \notin claimed}

-----------------------------------------------------------------------------
(* The edge an exit selects, and the test of the release edge.             *)

Applies(t, route) ==
    /\ route[1] \in Supervising => entered[t] < Visits
    /\ route[2] = "closed" => Open(t) = {}
    /\ route[2] = "spent" => entered[t] >= Visits

\* The first edge that applies, in the order of declaration.
Forward(t) ==
    LET open == Kept(Routes[state[t]], {route \in Range(Routes[state[t]]) : Applies(t, route)})
    IN IF open = <<>> THEN None ELSE Head(open)[1]

PriorBlocks(p, t) ==
    \E u \in Prior[t] : ~Satisfied(u) /\ (u \in Below(p) \/ state[u] \in Terminal)

\* t would move without another visit of p, once the barrier is lifted.
CanStillMove(p, t) ==
    \/ state[t] \in Gating
    \/ ~PriorBlocks(p, t) /\ InputsExist(t)

\* (Mutant) No visit counts as empty.
TakesAnyVisit(p, before) == FALSE

\* The visit moved nothing below p and left nothing there that can move, so
\* the edge onto itself is not taken.  `before` is the subtree the visit was
\* started on, or None where no visit was made.
ReleasedNothing(p, before) ==
    /\ Supervises(p)
    /\ Forward(p) = state[p]
    /\ Open(p) # {}
    /\ before \in {None, Shape(p)}
    /\ \A u \in Open(p) : ~CanStillMove(p, u)

-----------------------------------------------------------------------------
(* The move every command and every run applies.                           *)

\* (Mutant) The visits are counted where a move is selected, not where it is
\* made.
MayEnterUncounted(t, to) == to \in Terminal => Open(t) = {}

\* Descendants first, and never past the budget of visits.
MayEnter(t, to) ==
    /\ to \in Terminal => Open(t) = {}
    /\ to \in Supervising => entered[t] < Visits

\* (Mutant) The gate a supervisor is parked at lets its subtree go.
OwnBlockForgotten(t, to) ==
    CASE to = state[t] -> IF Supervises(t) THEN Released ELSE block[t]
      [] to \in Supervising -> Held(<<>>)
      [] OTHER -> None

\* What the move does to the moving ticket's own block: its edge onto itself
\* releases, a way into supervision holds, and so does a way out of it to a
\* gate; any other move ends the block.
OwnBlock(t, to) ==
    CASE to = state[t] -> IF Supervises(t) THEN Released ELSE block[t]
      [] to # state[t] /\ (to \in Supervising \/ (Supervises(t) /\ to \in Gating)) ->
            Held(<<>>)
      [] OTHER -> None

\* The supervisor the move is news for: its owner, if it listens for such a
\* move and is not at work on the subtree itself.  `by` is the supervisor the
\* command was run for.
Hears(t, to, by) ==
    LET owner == Owner(t)
    IN IF \/ owner = None
          \/ to = state[t] /\ Supervises(t)
          \/ owner \in claimed \/ owner = by
          \/ state[owner] \in TerminalEvent /\ to \notin Terminal
       THEN None ELSE owner

NewBlocks(t, to, by) ==
    LET own == [block EXCEPT ![t] = OwnBlock(t, to)]
        hears == Hears(t, to, by)
    IN IF hears = None THEN own
       ELSE [own EXCEPT ![hears] =
               Held(Append(Checkpoints(hears), [ticket |-> t, to |-> to]))]

Move(t, to, by) ==
    /\ MayEnter(t, to)
    /\ state' = [state EXCEPT ![t] = to]
    /\ entered' = IF to \in Supervising THEN [entered EXCEPT ![t] = @ + 1] ELSE entered
    /\ block' = NewBlocks(t, to, by)
    /\ claimed' = IF to \in Terminal \/ (to = state[t] /\ Supervises(t))
                  THEN claimed \ {t} ELSE claimed
    /\ ledger' = ledger + 1
    /\ answered' = answered \ {t}
    /\ UNCHANGED briefs

-----------------------------------------------------------------------------
(* The commands of a person or an agent beside the run.                    *)

\* `rhei transition`: an edge of the machine or one only a human takes.  The
\* edge that releases is refused while checkpoints are unread unless it says
\* --release-subtree; --supervisor has to name the owner.
Transition(t, to, by) ==
    /\ \/ <<state[t], to>> \in ByHand
       \/ \E route \in Range(Routes[state[t]]) : route[1] = to /\ Applies(t, route)
    /\ by \in {None, Owner(t)}
    /\ Move(t, to, by)

\* `rhei next --task`, of a ticket in a state that is worked in: it looks again
\* under the lock of the plan, and sees no worker of a run.
Claim(t) ==
    /\ Ready(t, {})
    /\ t \notin claimed
    /\ claimed' = claimed \cup {t}
    /\ UNCHANGED <<state, entered, block, ledger, briefs, answered>>

\* `rhei release`.
GiveBack(t) ==
    /\ t \in claimed
    /\ claimed' = claimed \ {t}
    /\ UNCHANGED <<state, entered, block, ledger, briefs, answered>>
=============================================================================
