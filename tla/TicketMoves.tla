----------------------------- MODULE TicketMoves ----------------------------
(***************************************************************************)
(* What the commands that touch a ticket promise together: a ticket moves  *)
(* along an edge, is taken by a worker or is let go of, each in one step,  *)
(* and the central history says every move once, in the order they were    *)
(* made.                                                                   *)
(***************************************************************************)
EXTENDS Sequences

CONSTANTS Worker, Ticket, State, None, Initial, Terminal, Edges

VARIABLES
    status,     \* ticket -> its state and its owner
    history     \* the moves made so far

Line == [ticket : Ticket, from : State, to : State]

Init ==
    /\ status = [t \in Ticket |-> [state |-> Initial, owner |-> None]]
    /\ history = <<>>

Record(t, to) ==
    history' = Append(history, [ticket |-> t, from |-> status[t].state, to |-> to])

\* A worker that claims a ticket may carry it one edge on, never to an end.
Claim(t, to, w) ==
    /\ status[t].owner = None
    /\ <<status[t].state, to>> \in Edges
    /\ to \notin Terminal
    /\ status' = [status EXCEPT ![t] = [state |-> to, owner |-> w]]
    /\ Record(t, to)

Take(t, w) ==
    /\ status[t].owner = None
    /\ status[t].state \notin Terminal
    /\ status' = [status EXCEPT ![t].owner = w]
    /\ UNCHANGED history

\* A move leaves the owner alone, and the end of the work has none.
Move(t, to) ==
    /\ <<status[t].state, to>> \in Edges
    /\ status' = [status EXCEPT ![t] =
                    [state |-> to, owner |-> IF to \in Terminal THEN None ELSE @.owner]]
    /\ Record(t, to)

Drop(t) ==
    /\ status[t].owner # None
    /\ status' = [status EXCEPT ![t].owner = None]
    /\ UNCHANGED history

Next ==
    \E t \in Ticket :
      \/ \E to \in State : Move(t, to) \/ \E w \in Worker : Claim(t, to, w)
      \/ \E w \in Worker : Take(t, w)
      \/ Drop(t)

MovesSpec == Init /\ [][Next]_<<status, history>>

=============================================================================
