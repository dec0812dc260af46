--------------------------- MODULE PlanTransition ---------------------------
(***************************************************************************)
(* The commands that move a ticket or change who owns it                   *)
(* (rhei-cli/src/cli: system_transition_execution.rs, claim_transaction.rs,*)
(* claim_revalidation.rs, release_command.rs, transition_ledger.rs).       *)
(*                                                                         *)
(* Every command is a process of its own.  It picks a ticket from the plan *)
(* as it reads it, takes the writer locks of the rhei's manifest and of    *)
(* the ticket's file, in that order, and looks again.  A move then writes  *)
(* the two files, runs the callbacks of its edge, and says so in a ledger  *)
(* that all rheis of the project share and that has a lock of its own.     *)
(*                                                                         *)
(* An inline rhei has one file for both; PlanFile[t] = Manifest[t] then.   *)
(***************************************************************************)
EXTENDS Integers, Sequences, FiniteSets, Functions, SequencesExt, Subsequences

CONSTANTS
    Proc,           \* the processes, each one worker
    Ticket, State, None,
    PlanFile,       \* ticket -> the file its heading is in
    Manifest,       \* ticket -> the file its rhei's metadata is in
    Ledger,         \* the lock of the ledger
    Fragment,       \* bytes of a line cut short
    Garbled,        \* a fragment and the line that ran into it
    Ancestors,      \* ticket -> the tickets above it
    Prior,          \* ticket -> the tickets it depends on
    Initial, Terminal,
    Rules,          \* the edges, in the order the machine declares them
    Passive,        \* the states a claim leaves behind at once
    OnLeave, OnEnter,   \* the edges with a callback
    Redirects,      \* edge -> the states its on_leave callback may ask for
    VisitLimit,     \* state -> its `visits:`, 0 where it declares none
    Recovery,       \* where a claim's failed on_enter sends the ticket, or None
    TravelLimit,    \* the applied edges a ticket's budget allows
    Faults,         \* what may go wrong besides a callback's refusal
    MaxCommands     \* bound: the commands that are run in all

Edges == Range(Rules)

Inline(t) == PlanFile[t] = Manifest[t]

InFile(t) == {u \in Ticket : PlanFile[u] = PlanFile[t]}
InManifest(t) == {u \in Ticket : Manifest[u] = Manifest[t]}

ASSUME MachineAssumption ==
    /\ Terminal \subseteq State
    /\ Initial \in State \ Terminal
    /\ Rules \in Seq((State \ Terminal) \X State)
    /\ Passive \subseteq State
    /\ OnLeave \subseteq Edges /\ OnEnter \subseteq Edges
    /\ Redirects \in [Edges -> SUBSET State]
    /\ VisitLimit \in [State -> Nat]
    /\ Recovery \in State \cup {None}

ASSUME PlanAssumption ==
    /\ DOMAIN PlanFile = Ticket /\ DOMAIN Manifest = Ticket
    /\ Ancestors \in [Ticket -> SUBSET Ticket]
    /\ Prior \in [Ticket -> SUBSET Ticket]
    /\ \A t \in Ticket : \A a \in Ancestors[t] : PlanFile[t] = PlanFile[a]
    /\ \A t, u \in Ticket : PlanFile[t] = PlanFile[u] => Manifest[t] = Manifest[u]
    /\ {Fragment, Garbled} \cap [ticket : Ticket, from : State, to : State] = {}
    /\ \A t \in Ticket : Ledger \notin {PlanFile[t], Manifest[t]}

ASSUME NoneAssumption == None \notin Proc

ASSUME BoundsAssumption ==
    /\ TravelLimit \in Nat /\ MaxCommands \in Nat
    /\ Faults \subseteq {"claim", "restore", "write", "record", "spawn", "evidence", "crash"}

VARIABLES
    plan,           \* ticket -> what its heading says
    visits,         \* ticket -> state -> entries its rhei's metadata counts
    results,        \* the tickets whose result file has something in it
    ledger,         \* the shared history, line by line
    charges,        \* ticket -> the applied edges its budget was charged for
    holder,         \* lock -> the process that holds it, or None
    cmd,            \* process -> the command it is in, or None
    left            \* the commands that may still be run

files == <<plan, visits, results, ledger, charges>>
vars == <<files, holder, cmd, left>>

Lock == Range(PlanFile) \cup Range(Manifest) \cup {Ledger}

Heading == [state : State, assignee : Proc \cup {None}, link : BOOLEAN]

Line == [ticket : Ticket, from : State, to : State]

-----------------------------------------------------------------------------
(* What a command reads and what it makes of it.                           *)

Ends(state) == state \in Terminal

Descendants(t) == {u \in Ticket : t \in Ancestors[u]}

\* A state that counts its visits counts the first one even when the ticket
\* started there.
Normalised(counts, state) ==
    IF VisitLimit[state] > 0 /\ counts[state] = 0
    THEN [counts EXCEPT ![state] = 1] ELSE counts

Applicable(counts, from, to) ==
    /\ <<from, to>> \in Edges
    /\ VisitLimit[to] > 0 => Normalised(counts, from)[to] < VisitLimit[to]

CountVisit(counts, from, to) ==
    LET now == Normalised(counts, from)
    IN IF VisitLimit[to] > 0 THEN [now EXCEPT ![to] = @ + 1] ELSE now

\* The first edge a ticket could follow now, in the order of declaration.
Forward(t) ==
    LET first == SelectInSeq(Rules, LAMBDA rule :
                   /\ rule[1] = plan[t].state
                   /\ Applicable(visits[t], rule[1], rule[2]))
    IN IF first = 0 THEN None ELSE Rules[first][2]

\* (Mutant) A ticket waits for what is under it and for nothing else.
ReadyAlone(t) ==
    /\ ~Ends(plan[t].state)
    /\ \A u \in Descendants(t) : Ends(plan[u].state)

Ready(t) ==
    /\ ~Ends(plan[t].state)
    /\ \A u \in Descendants(t) \cup Prior[t] : Ends(plan[u].state)

Claimable(t) == Ready(t) /\ plan[t].assignee = None

\* A claim of a ticket in a passive state carries it one edge on, unless that
\* would end it.
Advances(t) == plan[t].state \in Passive /\ Forward(t) \notin Terminal \cup {None}

-----------------------------------------------------------------------------
(* Commands start with a look at the plan that no lock protects.           *)

Locks(kind, t) ==
    IF kind = "release" \/ Inline(t) THEN <<PlanFile[t]>> ELSE <<Manifest[t], PlanFile[t]>>

Command(kind, t, to, message) ==
    [pc |-> "lock", kind |-> kind, ticket |-> t, from |-> plan[t].state, to |-> to,
     message |-> message, want |-> Locks(kind, t),
     before |-> None, mark |-> 0, retry |-> FALSE]

Start(p, command) ==
    /\ cmd[p] = None
    /\ left > 0
    /\ cmd' = [cmd EXCEPT ![p] = command]
    /\ left' = left - 1
    /\ UNCHANGED <<files, holder>>

StartClaim(p) ==
    \E t \in Ticket :
      Claimable(t) /\ Advances(t) /\ Start(p, Command("claim", t, Forward(t), FALSE))

StartTake(p) ==
    \E t \in Ticket :
      Claimable(t) /\ ~Advances(t) /\ Start(p, Command("take", t, plan[t].state, FALSE))

StartMove(p) ==
    \E t \in Ticket, edge \in Edges, message \in BOOLEAN :
      plan[t].state = edge[1] /\ Start(p, Command("move", t, edge[2], message))

StartRelease(p) ==
    \E t \in Ticket :
      plan[t].assignee # None /\ Start(p, Command("release", t, plan[t].state, FALSE))

-----------------------------------------------------------------------------
(* Locks.  A process that returns or dies lets go of all of its own.       *)

At(p, pc) == cmd[p] # None /\ cmd[p].pc = pc

Goto(p, pc) == cmd' = [cmd EXCEPT ![p].pc = pc]

\* (Mutant) Whoever returns unlocks what others hold.
FreedForAll(p) == [l \in Lock |-> None]

Freed(p) == [l \in Lock |-> IF holder[l] = p THEN None ELSE holder[l]]

Return(p) ==
    /\ cmd' = [cmd EXCEPT ![p] = None]
    /\ holder' = Freed(p)
    /\ UNCHANGED left

\* The two files of a ticket, whole.
Contents(t) ==
    [headings |-> Restrict(plan, InFile(t)), counts |-> Restrict(visits, InManifest(t))]

FirstStep(kind) ==
    CASE kind \in {"claim", "move"} -> "check"
      [] kind = "take" -> "take"
      [] kind = "release" -> "drop"

\* The files are read once the last lock is held.
Acquire(p) ==
    LET c == cmd[p]
    IN  /\ At(p, "lock")
        /\ holder[Head(c.want)] = None
        /\ holder' = [holder EXCEPT ![Head(c.want)] = p]
        /\ cmd' = [cmd EXCEPT ![p] =
             IF Len(c.want) > 1 THEN [c EXCEPT !.want = Tail(@)]
             ELSE [c EXCEPT !.want = <<>>, !.pc = FirstStep(c.kind),
                            !.before = Contents(c.ticket)]]
        /\ UNCHANGED <<files, left>>

-----------------------------------------------------------------------------
(* A move or a claim, up to the first byte it writes.                      *)

DescendantsEnded(c, to) ==
    Ends(to) => \A u \in Descendants(c.ticket) : Ends(c.before.headings[u].state)

\* (Mutant) What the edge asks for is not looked at again under the locks.
AdmitsStale(c) ==
    LET found == c.before.headings[c.ticket]
    IN  /\ found.state = c.from
        /\ c.kind = "claim" => Claimable(c.ticket)
        /\ <<c.from, c.to>> \in Edges
        /\ DescendantsEnded(c, c.to)

Admits(c) ==
    LET found == c.before.headings[c.ticket]
    IN  /\ found.state = c.from
        /\ c.kind = "claim" => Claimable(c.ticket)
        /\ Applicable(c.before.counts[c.ticket], c.from, c.to)
        /\ DescendantsEnded(c, c.to)

\* (Mutant) A redirect is only looked up in the machine.
LandsUnchecked(c, to) ==
    /\ <<c.from, to>> \in Edges
    /\ Ends(to) => /\ c.message \/ c.ticket \in results
                   /\ c.kind # "claim"

\* Where the ticket really goes is checked again, its visit limit excepted.
Lands(c, to) ==
    /\ <<c.from, to>> \in Edges
    /\ DescendantsEnded(c, to)
    /\ Ends(to) => /\ c.message \/ c.ticket \in results
                   /\ c.kind # "claim"

Targets(c) ==
    {c.to} \cup IF <<c.from, c.to>> \in OnLeave THEN Redirects[<<c.from, c.to>>] ELSE {}

\* The command or its on_leave callback refuses; nothing has been written.
Refuse(p) ==
    LET c == cmd[p]
    IN  /\ At(p, "check")
        /\ \/ ~Admits(c)
           \/ <<c.from, c.to>> \in OnLeave
           \/ \E to \in Targets(c) : ~Lands(c, to)
        /\ Return(p)
        /\ UNCHANGED files

Route(p) ==
    LET c == cmd[p]
    IN  /\ At(p, "check")
        /\ Admits(c)
        /\ \E to \in Targets(c) :
             /\ Lands(c, to)
             /\ cmd' = [cmd EXCEPT ![p].to = to, ![p].pc = "charge"]
        /\ UNCHANGED <<files, holder, left>>

RefuseCharge(p) ==
    /\ At(p, "charge")
    /\ charges[cmd[p].ticket] = TravelLimit
    /\ Return(p)
    /\ UNCHANGED files

\* (Mutant) A claim is taken for an edge that its visit pays for.
ChargeMovesOnly(p) ==
    LET c == cmd[p]
    IN  /\ At(p, "charge")
        /\ charges[c.ticket] < TravelLimit
        /\ charges' = IF c.kind = "claim" THEN charges ELSE [charges EXCEPT ![c.ticket] = @ + 1]
        /\ Goto(p, IF c.kind = "claim" THEN "open" ELSE "write")
        /\ UNCHANGED <<plan, visits, results, ledger, holder, left>>

Charge(p) ==
    LET c == cmd[p]
    IN  /\ At(p, "charge")
        /\ charges[c.ticket] < TravelLimit
        /\ charges' = [charges EXCEPT ![c.ticket] = @ + 1]
        /\ Goto(p, IF c.kind = "claim" THEN "open" ELSE "write")
        /\ UNCHANGED <<plan, visits, results, ledger, holder, left>>

\* (Mutant) A claim looks how long the ledger is but does not keep its lock.
OpenLedgerUnlocked(p) ==
    /\ At(p, "open")
    /\ holder[Ledger] = None
    /\ cmd' = [cmd EXCEPT ![p].mark = Len(ledger), ![p].pc = "write"]
    /\ UNCHANGED <<files, holder, left>>

\* A claim holds the ledger from here on; an ordinary move only to append.
OpenLedger(p) ==
    /\ At(p, "open")
    /\ holder[Ledger] = None
    /\ holder' = [holder EXCEPT ![Ledger] = p]
    /\ cmd' = [cmd EXCEPT ![p].mark = Len(ledger), ![p].pc = "write"]
    /\ UNCHANGED <<files, left>>

OpenFails(p) == "claim" \in Faults /\ At(p, "open") /\ Return(p) /\ UNCHANGED files

-----------------------------------------------------------------------------
(* The writes.  A file is always replaced whole.                           *)

Overlay(f, part) == [t \in DOMAIN f |-> IF t \in DOMAIN part THEN part[t] ELSE f[t]]

MovedHeadings(c) == [c.before.headings EXCEPT ![c.ticket].state = c.to]

MovedCounts(c) == [c.before.counts EXCEPT ![c.ticket] = CountVisit(@, c.from, c.to)]

Entered(c) == IF c.kind = "claim" THEN "assign" ELSE "record"

Written(c) == IF <<c.from, c.to>> \in OnEnter THEN "enter" ELSE Entered(c)

WriteManifest(p) ==
    LET c == cmd[p]
    IN  /\ At(p, "write")
        /\ visits' = Overlay(visits, MovedCounts(c))
        /\ plan' = IF Inline(c.ticket) THEN Overlay(plan, MovedHeadings(c)) ELSE plan
        /\ Goto(p, IF Inline(c.ticket) THEN Written(c) ELSE "place")
        /\ UNCHANGED <<results, ledger, charges, holder, left>>

WriteTask(p) ==
    LET c == cmd[p]
    IN  /\ At(p, "place")
        /\ plan' = Overlay(plan, MovedHeadings(c))
        /\ Goto(p, Written(c))
        /\ UNCHANGED <<visits, results, ledger, charges, holder, left>>

\* An ordinary move does not undo the first write when the second one fails.
WriteFails(p) ==
    /\ "write" \in Faults
    /\ At(p, "write") \/ At(p, "place")
    /\ cmd[p].kind = "move"
    /\ Return(p)
    /\ UNCHANGED files

EnterAccepts(p) ==
    /\ At(p, "enter")
    /\ Goto(p, Entered(cmd[p]))
    /\ UNCHANGED <<files, holder, left>>

\* (Mutant) A callback's failure is passed on as it is.
EnterGivesUp(p) == At(p, "enter") /\ Return(p) /\ UNCHANGED files

\* The callback reports failure or outlives its bound.  A claim treats one
\* that could not be run the same way.
EnterFails(p) ==
    /\ At(p, "enter")
    /\ cmd' = [cmd EXCEPT ![p].pc = "restore", ![p].retry = cmd[p].kind = "claim"]
    /\ UNCHANGED <<files, holder, left>>

\* Errors that leave by the shortest way: no evidence file, or a process that
\* an ordinary move could not start.
EnterBreaks(p) ==
    /\ At(p, "enter")
    /\ \/ "evidence" \in Faults
       \/ "spawn" \in Faults /\ cmd[p].kind = "move"
    /\ Return(p)
    /\ UNCHANGED files

-----------------------------------------------------------------------------
(* How a claim ends: its owner, its line, or nothing of it.                *)

Extend(lines, entry) ==
    IF lines # <<>> /\ Last(lines) = Fragment
    THEN Append(Front(lines), IF entry = Fragment THEN Fragment ELSE Garbled)
    ELSE Append(lines, entry)

LineOf(c) == [ticket |-> c.ticket, from |-> c.from, to |-> c.to]

Assign(p) ==
    LET c == cmd[p]
    IN  /\ At(p, "assign")
        /\ plan' = Overlay(plan, [MovedHeadings(c) EXCEPT ![c.ticket].assignee = p])
        /\ Goto(p, "commit")
        /\ UNCHANGED <<visits, results, ledger, charges, holder, left>>

Commit(p) ==
    /\ At(p, "commit")
    /\ ledger' = Extend(ledger, LineOf(cmd[p]))
    /\ Return(p)
    /\ UNCHANGED <<plan, visits, results, charges>>

\* (Mutant) A failed claim just returns.
ClaimFailsAsIs(p) ==
    /\ "claim" \in Faults
    /\ cmd[p] # None /\ cmd[p].kind = "claim"
    /\ cmd[p].pc \in {"write", "place", "assign", "commit"}
    /\ Return(p)
    /\ UNCHANGED files

\* Any write of a claim can fail, and its line can be written in part.
ClaimFails(p) ==
    /\ "claim" \in Faults
    /\ cmd[p] # None /\ cmd[p].kind = "claim"
    /\ cmd[p].pc \in {"write", "place", "assign", "commit"}
    /\ ledger' \in {ledger} \cup IF At(p, "commit") THEN {Extend(ledger, Fragment)} ELSE {}
    /\ Goto(p, "restore")
    /\ UNCHANGED <<plan, visits, results, charges, holder, left>>

Surfaces(c) ==
    {"manifest"} \cup (IF Inline(c.ticket) THEN {} ELSE {"file"})
                 \cup (IF c.kind = "claim" THEN {"ledger"} ELSE {})

\* (Mutant) The ticket's file is put back, its metadata is not.
RestoreTaskOnly(c, failed) ==
    /\ plan' = Overlay(plan, c.before.headings)
    /\ visits' = visits
    /\ ledger' = IF c.kind = "claim" THEN SubSeq(ledger, 1, c.mark) ELSE ledger

RestoreFiles(c, failed) ==
    /\ plan' = IF (IF Inline(c.ticket) THEN "manifest" ELSE "file") \in failed
               THEN plan ELSE Overlay(plan, c.before.headings)
    /\ visits' = IF "manifest" \in failed THEN visits ELSE Overlay(visits, c.before.counts)
    /\ ledger' = IF c.kind # "claim" \/ "ledger" \in failed
                 THEN ledger ELSE SubSeq(ledger, 1, c.mark)

\* (Mutant) The failed claim is tried again where it stands, as often as its
\* callback fails, and its ticket is never parked.
RestoreAndRetry(p) ==
    LET c == cmd[p]
    IN  /\ At(p, "restore")
        /\ RestoreFiles(c, {})
        /\ IF c.retry THEN /\ cmd' = [cmd EXCEPT ![p].pc = "write", ![p].retry = FALSE]
                           /\ UNCHANGED <<holder, left>>
                      ELSE Return(p)
        /\ UNCHANGED <<results, charges>>

\* Each surface is put back or not.  A claim whose callback failed and that
\* was put back whole then makes the recovery move, as a command of its own.
Restore(p) ==
    LET c == cmd[p]
    IN  /\ At(p, "restore")
        /\ \E failed \in SUBSET Surfaces(c) :
             /\ failed # {} => "restore" \in Faults
             /\ RestoreFiles(c, failed)
             /\ IF c.retry /\ failed = {} /\ Recovery # None
                THEN /\ cmd' = [cmd EXCEPT ![p] = 
                          [c EXCEPT !.kind = "move", !.to = Recovery, !.pc = "lock",
                                    !.want = Locks("move", c.ticket), !.before = None,
                                    !.mark = 0, !.retry = FALSE]]
                     /\ holder' = Freed(p)
                     /\ UNCHANGED left
                ELSE Return(p)
        /\ UNCHANGED <<results, charges>>

-----------------------------------------------------------------------------
(* How an ordinary move ends: its line, its result, the closed ticket.     *)

Record(p) ==
    LET c == cmd[p]
    IN  /\ At(p, "record")
        /\ holder[Ledger] = None
        /\ ledger' = Extend(ledger, LineOf(c))
        /\ IF c.message \/ Ends(c.to) THEN Goto(p, "finish") /\ UNCHANGED <<holder, left>>
                                      ELSE Return(p)
        /\ UNCHANGED <<plan, visits, results, charges>>

RecordFails(p) ==
    /\ "record" \in Faults
    /\ At(p, "record") \/ At(p, "finish")
    /\ holder[Ledger] = None
    /\ ledger' \in {ledger} \cup IF At(p, "record") THEN {Extend(ledger, Fragment)} ELSE {}
    /\ Return(p)
    /\ UNCHANGED <<plan, visits, results, charges>>

Finish(p) ==
    LET c == cmd[p]
    IN  /\ At(p, "finish")
        /\ results' = results \cup IF c.message THEN {c.ticket} ELSE {}
        /\ plan' = IF Ends(c.to)
                   THEN [plan EXCEPT ![c.ticket].assignee = None, ![c.ticket].link = TRUE]
                   ELSE plan
        /\ Return(p)
        /\ UNCHANGED <<visits, ledger, charges>>

-----------------------------------------------------------------------------
(* Claims in place, releases, and the end of a process.                    *)

\* (Mutant) The ticket that was free is taken without another look.
TakeStale(p) ==
    /\ At(p, "take")
    /\ plan' = [plan EXCEPT ![cmd[p].ticket].assignee = p]
    /\ Return(p)
    /\ UNCHANGED <<visits, results, ledger, charges>>

Take(p) ==
    LET c == cmd[p]
    IN  /\ At(p, "take")
        /\ plan' = IF Claimable(c.ticket) /\ plan[c.ticket].state = c.from
                   THEN [plan EXCEPT ![c.ticket].assignee = p] ELSE plan
        /\ Return(p)
        /\ UNCHANGED <<visits, results, ledger, charges>>

Drop(p) ==
    /\ At(p, "drop")
    /\ plan' = [plan EXCEPT ![cmd[p].ticket].assignee = None]
    /\ Return(p)
    /\ UNCHANGED <<visits, results, ledger, charges>>

\* The locks are the kernel's and go with the process.
Crash(p) ==
    /\ "crash" \in Faults
    /\ cmd[p] # None
    /\ ledger' \in {ledger} \cup
         IF At(p, "commit") \/ (At(p, "record") /\ holder[Ledger] = None)
         THEN {Extend(ledger, Fragment)} ELSE {}
    /\ Return(p)
    /\ UNCHANGED <<plan, visits, results, charges>>

-----------------------------------------------------------------------------
Init ==
    /\ plan = [t \in Ticket |-> [state |-> Initial, assignee |-> None, link |-> FALSE]]
    /\ visits = [t \in Ticket |-> [s \in State |-> 0]]
    /\ results = {}
    /\ ledger = <<>>
    /\ charges = [t \in Ticket |-> 0]
    /\ holder = [l \in Lock |-> None]
    /\ cmd = [p \in Proc |-> None]
    /\ left = MaxCommands

Begin(p) == StartClaim(p) \/ StartTake(p) \/ StartMove(p) \/ StartRelease(p)

Continue(p) ==
    \/ Acquire(p) \/ Take(p) \/ Drop(p)
    \/ Refuse(p) \/ Route(p) \/ RefuseCharge(p) \/ Charge(p)
    \/ OpenLedger(p) \/ OpenFails(p)
    \/ WriteManifest(p) \/ WriteTask(p) \/ WriteFails(p)
    \/ EnterAccepts(p) \/ EnterFails(p) \/ EnterBreaks(p)
    \/ Assign(p) \/ Commit(p) \/ ClaimFails(p) \/ Restore(p)
    \/ Record(p) \/ RecordFails(p) \/ Finish(p)

\* Nobody is inside a command, and nobody need start another one.
Rest == (\A p \in Proc : cmd[p] = None) /\ UNCHANGED vars

Next == Rest \/ \E p \in Proc : Begin(p) \/ Continue(p) \/ Crash(p)

TransitionSpec == Init /\ [][Next]_vars

\* A command that was started runs on: locks are granted when they are free
\* and callbacks return, on their own or at their bound.
FairSpec == TransitionSpec /\ \A p \in Proc : WF_vars(Continue(p))

-----------------------------------------------------------------------------
(* Properties.                                                             *)

Kinds == {"claim", "take", "move", "release"}

\* Types, and what holding a lock is for: a command past its first step holds
\* the lock of every file it may write.
PlanTypeOK ==
    /\ plan \in [Ticket -> Heading]
    /\ visits \in [Ticket -> [State -> Nat]]
    /\ results \subseteq Ticket
    /\ ledger \in Seq(Line \cup {Fragment, Garbled})
    /\ charges \in [Ticket -> 0..TravelLimit]
    /\ holder \in [Lock -> Proc \cup {None}]
    /\ left \in 0..MaxCommands
    /\ \A p \in Proc : cmd[p] # None =>
         /\ cmd[p].kind \in Kinds /\ cmd[p].ticket \in Ticket
         /\ {cmd[p].from, cmd[p].to} \subseteq State
         /\ cmd[p].want = <<>> =>
              \A l \in Range(Locks(cmd[p].kind, cmd[p].ticket)) : holder[l] = p

History == Kept(ledger, Line)

\* Where the ledger says whole lines of a ticket.
LinesOf(t) == {n \in DOMAIN ledger : ledger[n] \in Line /\ ledger[n].ticket = t}

MovesInto(t, s) == {n \in LinesOf(t) : ledger[n].to = s}

\* What a command has written before its line is its own business until then.
Provisional(p, t) ==
    /\ cmd[p] # None /\ cmd[p].ticket = t
    /\ cmd[p].pc \in {"enter", "assign", "commit", "record", "restore"}

Closing(p, t) == At(p, "finish") /\ cmd[p].ticket = t /\ Ends(cmd[p].to)

View ==
    [t \in Ticket |->
      LET undone == {p \in Proc : Provisional(p, t)}
          found == IF undone = {} THEN plan[t]
                   ELSE cmd[CHOOSE p \in undone : TRUE].before.headings[t]
      IN [state |-> found.state,
          owner |-> IF \E p \in Proc : Closing(p, t) THEN None ELSE found.assignee]]

Abstract == INSTANCE TicketMoves
    WITH Worker <- Proc, status <- View, history <- History

\* Whatever callbacks refuse, whichever write of a claim fails and however the
\* processes interleave, each command does one whole move or nothing, and the
\* history has the moves in the order they happened (claim_transaction.rs).
AtomicMoves == Abstract!MovesSpec

\* A ticket that ended has nothing unfinished under it, although a callback
\* may send it there by another edge than the one that was checked first.
TerminalSubtree ==
    \A t \in Ticket : Ends(plan[t].state) =>
      \A u \in Descendants(t) : Ends(plan[u].state)

\* A ticket does not pass from one worker to another: between the two it was
\* released, however old the look at the plan that a command started from.
NoClaimStolen ==
    [][\A t \in Ticket :
         plan[t].assignee # None /\ plan'[t].assignee # None
           => plan'[t].assignee = plan[t].assignee]_vars

\* A ticket enters a state no more often than the state's `visits:` says, from
\* whatever number of commands that all saw room for one more.
VisitLimitHolds ==
    \A t \in Ticket, s \in State : VisitLimit[s] > 0 => visits[t][s] <= VisitLimit[s]

\* The counter that decides about loops counts the moves of the history, when
\* nobody is writing: a move that came to nothing has left it as it was.
VisitsMatchLedger ==
    \A t \in Ticket, s \in State \ {Initial} :
      VisitLimit[s] > 0 /\ holder[Manifest[t]] = None
        => visits[t][s] = Cardinality(MovesInto(t, s))

\* A ticket somebody works on has all that it depends on behind it.  The other
\* tickets may be in another rhei, whose locks the claim does not hold.
ClaimsFollowPriors ==
    \A t \in Ticket : plan[t].assignee # None =>
      \A u \in Prior[t] : Ends(plan[u].state)

\* No line without its charge: what a crash leaves behind was paid for.
LinesArePaid == \A t \in Ticket : Cardinality(LinesOf(t)) <= charges[t]

\* A claim that takes back its own bytes never takes another's line: whatever
\* is a line of the history stays where it is.
HistoryIsKept ==
    [][\A n \in DOMAIN ledger :
         ledger[n] \in Line => n \in DOMAIN ledger' /\ ledger'[n] = ledger[n]]_vars

\* No command waits for ever, the recovery of a failed claim included, which
\* asks for the locks that claim has just held.
EveryCommandReturns == \A p \in Proc : cmd[p] # None ~> cmd[p] = None

=============================================================================
